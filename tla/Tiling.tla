-------------------------------- MODULE Tiling --------------------------------
(***************************************************************************)
(* compute_tile_positions (src/src/core/tiling.py): a count of windows is  *)
(* spread evenly over the monitors, the first ones taking one more, and    *)
(* tiled in a grid on each.  A tile is larger than its cell of the grid by *)
(* the invisible border of a window, where another cell is next to it.     *)
(***************************************************************************)
EXTENDS Integers, Sequences

CONSTANTS
  Monitors,   \* monitor_work_areas: a sequence of [x, y, width, height]
  Margin,     \* margin
  Border,     \* border_offset
  MinWidth,   \* the 400 of max(win_w, 400)
  MinHeight   \* the 300 of max(win_h, 300)

ASSUME TilingAssumption ==
  /\ Monitors \in Seq([x : Int, y : Int, width : Nat \ {0}, height : Nat \ {0}])
  /\ Monitors # <<>>
  /\ Margin \in Nat /\ Border \in Nat
  /\ MinWidth \in Nat /\ MinHeight \in Nat

AtLeast(n, least) == IF n < least THEN least ELSE n

AtMost(n, most) == IF n > most THEN most ELSE n

(* Windows on monitor m, and on the monitors before it.                    *)
OnMonitor(count, m) ==
  count \div Len(Monitors) + (IF m <= count % Len(Monitors) THEN 1 ELSE 0)

Before(count, m) ==
  (m - 1) * (count \div Len(Monitors)) + AtMost(m - 1, count % Len(Monitors))

(* ceil(sqrt(n)) and ceil(n / cols)                                        *)
Columns(n) == CHOOSE c \in 1..n : c * c >= n /\ (c - 1) * (c - 1) < n

Rows(n) == (n + Columns(n) - 1) \div Columns(n)

(* The size of a window that fills its share of an extent.                 *)
Share(extent, parts, least) ==
  AtLeast((extent - (parts + 1) * Margin) \div parts, least)

(* Window i of the n on monitor m, from 0.                                 *)
Cell(m, n, i) ==
  LET cols == Columns(n)
      rows == Rows(n)
      row == i \div cols
      col == i % cols
      width == Share(Monitors[m].width, cols, MinWidth)
      height == Share(Monitors[m].height, rows, MinHeight)
      left == IF col > 0 THEN Border ELSE 0
      right == IF col < cols - 1 THEN Border ELSE 0
      bottom == IF row < rows - 1 THEN Border ELSE 0
  IN [x |-> Monitors[m].x + Margin + col * (width + Margin) - left,
      y |-> Monitors[m].y + Margin + row * (height + Margin),
      width |-> width + left + right,
      height |-> height + bottom]

IsOn(count, k, m) ==
  /\ k >= Before(count, m)
  /\ k < Before(count, m) + OnMonitor(count, m)

MonitorOf(count, k) == CHOOSE m \in DOMAIN Monitors : IsOn(count, k, m)

(* tiles[k] of the tiles for count windows, k from 0.                      *)
Tile(count, k) ==
  LET m == MonitorOf(count, k)
  IN Cell(m, OnMonitor(count, m), k - Before(count, m))

(* What a window shows of its tile: the border on its left, its right and  *)
(* below it is invisible.                                                  *)
Disjoint(s, t) ==
  \/ s.x + s.width - Border <= t.x + Border
  \/ t.x + t.width - Border <= s.x + Border
  \/ s.y + s.height - Border <= t.y
  \/ t.y + t.height - Border <= s.y
=============================================================================
