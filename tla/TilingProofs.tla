----------------------------- MODULE TilingProofs -----------------------------
(***************************************************************************)
(* Proofs about Tiling, for any monitors and any number of windows: every  *)
(* window is on one of the monitors, its tile inside it, and the tiles     *)
(* show nothing of each other.                                             *)
(***************************************************************************)
EXTENDS Tiling, TLAPS, WellFoundedInduction

-----------------------------------------------------------------------------
(***************************************************************************)
(* Arithmetic.                                                             *)
(***************************************************************************)
(* Products grow with either factor.                                       *)
LEMMA Grows ==
  ASSUME NEW a \in Nat, NEW b \in Nat, NEW c \in Nat, a <= b
  PROVE  a * c <= b * c /\ c * a <= c * b
OBVIOUS

LEMMA Quotient ==
  ASSUME NEW n \in Int, NEW d \in Nat \ {0}
  PROVE  n \div d \in Int /\ (n \div d) * d <= n /\ n < (n \div d) * d + d
BY SMT

(* Quotient and remainder are natural numbers and give the number back.    *)
LEMMA DivMod ==
  ASSUME NEW n \in Nat, NEW d \in Nat \ {0}
  PROVE  n \div d \in Nat /\ n % d \in 0..(d - 1)
BY SMT

LEMMA GivesBack ==
  ASSUME NEW n \in Nat, NEW d \in Nat \ {0}
  PROVE  n = (n \div d) * d + (n % d)
BY SMT

(* A set of natural numbers has a least element.                           *)
LEMMA LeastOf ==
  ASSUME NEW S, S \subseteq Nat, S # {}
  PROVE  \E m \in S : \A k \in S : m <= k
<1> DEFINE R == {ss \in Nat \X Nat : ss[1] < ss[2]}
<1>1. OpToRel(<, Nat) = R
  BY DEF OpToRel
<1>2. IsWellFoundedOn(R, Nat)
  BY <1>1, NatLessThanWellFounded, Zenon
<1>3. \A x, y \in Nat : x < y => <<x, y>> \in R
  OBVIOUS
<1> HIDE DEF R
<1>4. PICK m \in S : \A k \in S : ~(<<k, m>> \in R)
  BY <1>2, WFMin
<1>5. ASSUME NEW k \in S PROVE m <= k
  <2>1. ~(k < m)
    BY <1>3, <1>4
  <2> QED BY <2>1
<1> QED BY <1>5

(* ceil(sqrt(n)) is a number of columns.                                   *)
LEMMA ColumnsOf ==
  ASSUME NEW n \in Nat \ {0}
  PROVE  Columns(n) \in 1..n /\ Columns(n) * Columns(n) >= n
<1> DEFINE S == {c \in Nat : c * c >= n}
<1>1. n \in S
  BY n * n >= n * 1
<1>2. PICK c \in S : \A k \in S : c <= k
  BY <1>1, LeastOf
<1>3. c \in 1..n /\ c * c >= n
  BY <1>1, <1>2
<1>4. (c - 1) * (c - 1) < n
  BY <1>2, <1>3
<1> HIDE DEF S
<1> QED BY <1>3, <1>4 DEF Columns

(* What is divided is n or more, once it is d * k or more.                 *)
LEMMA QuotientBelow ==
  ASSUME NEW n \in Nat, NEW d \in Nat \ {0}, NEW k \in Nat, n < k * d
  PROVE  n \div d < k
<1> DEFINE q == n \div d
<1>1. q \in Nat /\ q * d <= n
  BY DivMod, Quotient
<1> HIDE DEF q
<1>2. q * d < k * d
  BY <1>1
<1>3. CASE k <= q
  BY <1>1, <1>2, <1>3, Grows
<1> QED BY <1>1, <1>3 DEF q

-----------------------------------------------------------------------------
(***************************************************************************)
(* Monitors.                                                               *)
(***************************************************************************)
LEMMA MonitorCount == Len(Monitors) \in Nat \ {0} /\ DOMAIN Monitors = 1..Len(Monitors)
BY TilingAssumption

(* The monitors before m have Before windows, m has OnMonitor.             *)
LEMMA Shares ==
  ASSUME NEW count \in Nat, NEW m \in DOMAIN Monitors
  PROVE  OnMonitor(count, m) \in Nat /\ Before(count, m) \in Nat
<1> DEFINE q == count \div Len(Monitors)
           e == count % Len(Monitors)
<1>1. q \in Nat /\ e \in Nat
  <2>1. Len(Monitors) \in Nat \ {0}
    BY MonitorCount
  <2>2. q \in Nat /\ e \in 0..(Len(Monitors) - 1)
    BY <2>1, DivMod
  <2> HIDE DEF q, e
  <2> QED BY <2>1, <2>2
<1>2. m \in Nat \ {0}
  BY MonitorCount
<1> HIDE DEF q, e
<1>3. (m - 1) * q \in Nat
  BY <1>1, <1>2
<1> QED BY <1>1, <1>2, <1>3 DEF OnMonitor, Before, AtMost, q, e

(* Every window is on a monitor.                                           *)
LEMMA OnSomeMonitor ==
  ASSUME NEW count \in Nat, NEW k \in 0..(count - 1)
  PROVE  \E m \in DOMAIN Monitors : IsOn(count, k, m)
<1> DEFINE n == Len(Monitors)
           q == count \div n
           e == count % n
<1>1. n \in Nat \ {0} /\ DOMAIN Monitors = 1..n
  BY MonitorCount
<1>2. q \in Nat /\ e \in 0..(n - 1) /\ count = q * n + e
  BY <1>1, DivMod, GivesBack
<1>3. \A m \in DOMAIN Monitors :
        /\ OnMonitor(count, m) = q + (IF m <= e THEN 1 ELSE 0)
        /\ Before(count, m) = (m - 1) * q + (IF m - 1 > e THEN e ELSE m - 1)
  BY DEF OnMonitor, Before, AtMost
<1> HIDE DEF n, q, e
<1>4. CASE k < e * (q + 1)
  <2> DEFINE i == k \div (q + 1)
  <2>1. i \in Nat /\ i * (q + 1) <= k /\ k < i * (q + 1) + (q + 1)
    <3>1. k \in Nat /\ k \in Int /\ q + 1 \in Nat \ {0}
      BY <1>2
    <3>2. k \div (q + 1) \in Nat
      BY <3>1, DivMod
    <3>3. (k \div (q + 1)) * (q + 1) <= k /\ k < (k \div (q + 1)) * (q + 1) + (q + 1)
      BY <3>1, Quotient
    <3> QED BY <3>2, <3>3
  <2>2. i < e
    <3>1. k \in Nat /\ q + 1 \in Nat \ {0} /\ e \in Nat
      BY <1>2
    <3> QED BY <1>4, <3>1, QuotientBelow
  <2> HIDE DEF i
  <2>3. i + 1 \in DOMAIN Monitors /\ (i + 1) - 1 = i
    BY <1>1, <1>2, <2>1, <2>2
  <2>4. i * (q + 1) = i * q + i
    BY <1>2, <2>1
  <2>5. Before(count, i + 1) = i * q + i /\ OnMonitor(count, i + 1) = q + 1
    BY <1>2, <1>3, <2>1, <2>2, <2>3
  <2> QED BY <1>2, <2>1, <2>3, <2>4, <2>5 DEF IsOn
<1>5. CASE ~(k < e * (q + 1))
  <2> DEFINE j == k - e * (q + 1)
             i == j \div q
  <2>1. e * (q + 1) = e * q + e /\ e * (q + 1) \in Nat
    BY <1>2
  <2>2. j \in Nat /\ k = j + (e * q + e)
    BY <1>2, <1>5, <2>1
  <2> HIDE DEF j
  <2>3. q # 0
    BY <1>1, <1>2, <1>5, <2>1, <2>2
  <2>4. i \in Nat /\ i * q <= j /\ j < i * q + q
    <3>1. j \in Nat /\ j \in Int /\ q \in Nat \ {0}
      BY <1>2, <2>2, <2>3
    <3>2. j \div q \in Nat
      BY <3>1, DivMod
    <3>3. (j \div q) * q <= j /\ j < (j \div q) * q + q
      BY <3>1, Quotient
    <3> QED BY <3>2, <3>3
  <2>5. j < (n - e) * q
    <3>1. (n - e) * q = n * q - e * q /\ n * q = q * n
      BY <1>1, <1>2
    <3> QED BY <1>1, <1>2, <2>1, <2>2, <3>1
  <2>6. i < n - e
    BY <1>1, <1>2, <2>2, <2>3, <2>5, QuotientBelow
  <2> HIDE DEF i
  <2> DEFINE m == e + i + 1
  <2>7. m \in DOMAIN Monitors /\ m - 1 = e + i /\ ~(m <= e)
    BY <1>1, <1>2, <2>4, <2>6
  <2>8. (e + i) * q = e * q + i * q
    BY <1>2, <2>4
  <2>9. Before(count, m) = e * q + i * q + e /\ OnMonitor(count, m) = q
    BY <1>2, <1>3, <2>4, <2>7, <2>8
  <2> QED BY <1>2, <2>2, <2>4, <2>7, <2>9 DEF IsOn
<1> QED BY <1>4, <1>5

-----------------------------------------------------------------------------
(***************************************************************************)
(* Tiles on a monitor.                                                     *)
(***************************************************************************)
(* The grid of n windows has a row and a column for each.                  *)
LEMMA Grid ==
  ASSUME NEW n \in Nat \ {0}, NEW i \in 0..(n - 1)
  PROVE  /\ Columns(n) \in Nat \ {0} /\ Rows(n) \in Nat \ {0}
         /\ i \div Columns(n) \in 0..(Rows(n) - 1)
         /\ i % Columns(n) \in 0..(Columns(n) - 1)
         /\ i = (i \div Columns(n)) * Columns(n) + (i % Columns(n))
<1> DEFINE cols == Columns(n)
           rows == Rows(n)
<1>1. cols \in Nat \ {0} /\ cols <= n
  BY ColumnsOf
<1>2. rows = (n + cols - 1) \div cols
  BY DEF Rows
<1> HIDE DEF cols, rows
<1>3. n + cols - 1 \in Nat /\ n + cols - 1 \in Int /\ i \in Nat
  BY <1>1
<1>4. rows \in Nat
  BY <1>1, <1>2, <1>3, DivMod
<1>5. n + cols - 1 < rows * cols + cols
  BY <1>1, <1>2, <1>3, Quotient
<1>6. rows * cols \in Nat /\ i < rows * cols
  BY <1>1, <1>4, <1>5
<1>7. rows # 0
  BY <1>1, <1>3, <1>4, <1>6
<1>8. i \div cols < rows
  BY <1>1, <1>3, <1>4, <1>6, QuotientBelow
<1>9. i \div cols \in Nat /\ i % cols \in 0..(cols - 1)
  BY <1>1, <1>3, DivMod
<1>10. i = (i \div cols) * cols + (i % cols)
  BY <1>1, <1>3, GivesBack
<1>11. i \div cols \in 0..(rows - 1)
  BY <1>4, <1>8, <1>9
<1> QED BY <1>1, <1>4, <1>7, <1>9, <1>10, <1>11 DEF cols, rows

(* A window has a size.                                                    *)
LEMMA ShareSize ==
  ASSUME NEW extent \in Nat, NEW parts \in Nat \ {0}, NEW least \in Nat
  PROVE  /\ Share(extent, parts, least) \in Nat
         /\ (extent - (parts + 1) * Margin) \div parts >= least =>
              parts * Share(extent, parts, least) + (parts + 1) * Margin <= extent
<1> DEFINE rest == extent - (parts + 1) * Margin
           share == rest \div parts
<1>1. Margin \in Nat
  BY TilingAssumption
<1>2. (parts + 1) * Margin \in Nat
  BY <1>1
<1>3. rest \in Int /\ extent = rest + (parts + 1) * Margin
  BY <1>2
<1>4. Share(extent, parts, least) = IF share < least THEN least ELSE share
  BY DEF Share, AtLeast
<1> HIDE DEF rest
<1>5. share \in Int /\ share * parts <= rest
  BY <1>3, Quotient
<1> HIDE DEF share
<1>6. Share(extent, parts, least) \in Nat
  BY <1>4, <1>5
<1>7. ASSUME share >= least
      PROVE  parts * Share(extent, parts, least) + (parts + 1) * Margin <= extent
  <2>1. Share(extent, parts, least) = share
    BY <1>4, <1>5, <1>7
  <2>2. parts * share = share * parts
    BY <1>5
  <2> QED BY <1>2, <1>3, <1>5, <2>1, <2>2
<1> QED BY <1>6, <1>7 DEF share, rest

LEMMA MonitorFields ==
  ASSUME NEW m \in DOMAIN Monitors
  PROVE  /\ Monitors[m].x \in Int /\ Monitors[m].y \in Int
         /\ Monitors[m].width \in Nat /\ Monitors[m].height \in Nat
<1> DEFINE Area == [x : Int, y : Int, width : Nat \ {0}, height : Nat \ {0}]
<1>1. Monitors \in Seq(Area)
  BY TilingAssumption
<1> HIDE DEF Area
<1>2. Monitors[m] \in Area
  BY <1>1
<1> QED BY <1>2 DEF Area

(* A step in one direction leaves room for a window.                       *)
LEMMA StepsApart ==
  ASSUME NEW a \in Nat, NEW b \in Nat, a < b, NEW size \in Nat, NEW gap \in Nat
  PROVE  a * (size + gap) + size <= b * (size + gap)
<1>1. (a + 1) * (size + gap) <= b * (size + gap)
  BY Grows
<1>2. (a + 1) * (size + gap) = a * (size + gap) + (size + gap)
  OBVIOUS
<1>3. a * (size + gap) \in Nat /\ b * (size + gap) \in Nat
  OBVIOUS
<1> QED BY <1>1, <1>2, <1>3

(* The visible part of a cell: where it begins and ends.                   *)
LEMMA Visible ==
  ASSUME NEW m \in DOMAIN Monitors, NEW n \in Nat \ {0}, NEW i \in 0..(n - 1),
         NEW cols, cols = Columns(n), NEW rows, rows = Rows(n),
         NEW row, row = i \div cols, NEW col, col = i % cols,
         NEW w, w = Share(Monitors[m].width, cols, MinWidth),
         NEW h, h = Share(Monitors[m].height, rows, MinHeight),
         NEW c, c = Cell(m, n, i)
  PROVE  /\ c.x \in Int /\ c.y \in Int /\ c.width \in Int /\ c.height \in Int
         /\ c.x + Border >= Monitors[m].x + Margin + col * (w + Margin)
         /\ c.y = Monitors[m].y + Margin + row * (h + Margin)
         /\ c.x + c.width - Border <= Monitors[m].x + Margin + col * (w + Margin) + w
         /\ c.y + c.height - Border <= Monitors[m].y + Margin + row * (h + Margin) + h
<1>1. Margin \in Nat /\ Border \in Nat /\ MinWidth \in Nat /\ MinHeight \in Nat
  BY TilingAssumption
<1>2. /\ cols \in Nat \ {0} /\ rows \in Nat \ {0}
      /\ row \in 0..(rows - 1) /\ col \in 0..(cols - 1)
  BY Grid
<1>3. w \in Nat /\ h \in Nat
  BY <1>1, <1>2, MonitorFields, ShareSize
<1>4. col * (w + Margin) \in Nat /\ row * (h + Margin) \in Nat
  BY <1>1, <1>2, <1>3
<1> DEFINE left == IF col > 0 THEN Border ELSE 0
           right == IF col < cols - 1 THEN Border ELSE 0
           bottom == IF row < rows - 1 THEN Border ELSE 0
<1>5. left \in 0..Border /\ right \in 0..Border /\ bottom \in 0..Border
  BY <1>1, <1>2
<1>6. /\ c.x = Monitors[m].x + Margin + col * (w + Margin) - left
      /\ c.y = Monitors[m].y + Margin + row * (h + Margin)
      /\ c.width = w + left + right
      /\ c.height = h + bottom
  BY DEF Cell
<1> HIDE DEF left, right, bottom
<1> DEFINE colPlace == col * (w + Margin)
           rowPlace == row * (h + Margin)
<1>7. colPlace \in Nat /\ rowPlace \in Nat
  BY <1>4
<1> HIDE DEF colPlace, rowPlace
<1>8. /\ c.x = Monitors[m].x + Margin + colPlace - left
      /\ c.y = Monitors[m].y + Margin + rowPlace
  BY <1>6 DEF colPlace, rowPlace
<1>9. /\ c.x \in Int /\ c.y \in Int /\ c.width \in Int /\ c.height \in Int
      /\ c.x + Border >= Monitors[m].x + Margin + colPlace
      /\ c.x + c.width - Border <= Monitors[m].x + Margin + colPlace + w
      /\ c.y + c.height - Border <= Monitors[m].y + Margin + rowPlace + h
  BY <1>1, <1>3, <1>5, <1>6, <1>7, <1>8, MonitorFields
<1> QED BY <1>8, <1>9 DEF colPlace, rowPlace

(* Two windows of a monitor are in different rows or columns.              *)
LEMMA SameMonitor ==
  ASSUME NEW m \in DOMAIN Monitors, NEW n \in Nat \ {0},
         NEW i \in 0..(n - 1), NEW j \in 0..(n - 1), i # j
  PROVE  Disjoint(Cell(m, n, i), Cell(m, n, j))
<1> DEFINE cols == Columns(n)
           rows == Rows(n)
           w == Share(Monitors[m].width, cols, MinWidth)
           h == Share(Monitors[m].height, rows, MinHeight)
           X == Monitors[m].x + Margin
           Y == Monitors[m].y + Margin
           Col(k) == k % cols
           Row(k) == k \div cols
<1>1. /\ Margin \in Nat /\ Border \in Nat /\ MinWidth \in Nat /\ MinHeight \in Nat
      /\ X \in Int /\ Y \in Int
  <2>1. Margin \in Nat /\ Border \in Nat /\ MinWidth \in Nat /\ MinHeight \in Nat
    BY TilingAssumption
  <2>2. Monitors[m].x \in Int /\ Monitors[m].y \in Int
    BY MonitorFields
  <2> QED BY <2>1, <2>2
<1>2. cols \in Nat \ {0} /\ rows \in Nat \ {0}
  BY Grid
<1>3. w \in Nat /\ h \in Nat
  BY <1>1, <1>2, MonitorFields, ShareSize
<1>4. \A k \in 0..(n - 1) :
        /\ Row(k) \in Nat /\ Col(k) \in Nat
        /\ k = Row(k) * cols + Col(k)
  <2> SUFFICES ASSUME NEW k \in 0..(n - 1)
               PROVE  Row(k) \in Nat /\ Col(k) \in Nat /\ k = Row(k) * cols + Col(k)
    OBVIOUS
  <2>1. /\ Row(k) \in 0..(rows - 1) /\ Col(k) \in 0..(cols - 1)
        /\ k = Row(k) * cols + Col(k)
    BY Grid
  <2> HIDE DEF Row, Col, rows, cols
  <2> QED BY <1>2, <2>1
<1>5. \A k \in 0..(n - 1) :
        LET c == Cell(m, n, k) IN
        /\ c.x \in Int /\ c.y \in Int /\ c.width \in Int /\ c.height \in Int
        /\ c.x + Border >= X + Col(k) * (w + Margin)
        /\ c.y = Y + Row(k) * (h + Margin)
        /\ c.x + c.width - Border <= X + Col(k) * (w + Margin) + w
        /\ c.y + c.height - Border <= Y + Row(k) * (h + Margin) + h
  BY Visible
<1> DEFINE s == Cell(m, n, i)
           t == Cell(m, n, j)
<1> HIDE DEF cols, rows, w, h, X, Y, Row, Col
<1>6. Row(i) # Row(j) \/ Col(i) # Col(j)
  BY <1>4
(* Whoever comes first in a direction ends before the other begins.        *)
<1>7. \A a, b \in 0..(n - 1) :
        /\ Col(a) < Col(b) =>
             Cell(m, n, a).x + Cell(m, n, a).width - Border <= Cell(m, n, b).x + Border
        /\ Row(a) < Row(b) =>
             Cell(m, n, a).y + Cell(m, n, a).height - Border <= Cell(m, n, b).y
  <2> SUFFICES ASSUME NEW a \in 0..(n - 1), NEW b \in 0..(n - 1)
               PROVE  /\ Col(a) < Col(b) =>
                           Cell(m, n, a).x + Cell(m, n, a).width - Border
                             <= Cell(m, n, b).x + Border
                      /\ Row(a) < Row(b) =>
                           Cell(m, n, a).y + Cell(m, n, a).height - Border
                             <= Cell(m, n, b).y
    OBVIOUS
  <2> DEFINE cell == Cell(m, n, a)
             other == Cell(m, n, b)
             colA == Col(a) * (w + Margin)
             colB == Col(b) * (w + Margin)
             rowA == Row(a) * (h + Margin)
             rowB == Row(b) * (h + Margin)
  <2>1. /\ cell.x \in Int /\ cell.y \in Int /\ cell.width \in Int /\ cell.height \in Int
        /\ cell.x + cell.width - Border <= X + colA + w
        /\ cell.y + cell.height - Border <= Y + rowA + h
    BY <1>5
  <2>2. /\ other.x \in Int /\ other.y \in Int
        /\ other.x + Border >= X + colB /\ other.y = Y + rowB
    BY <1>5
  <2>3. Row(a) \in Nat /\ Col(a) \in Nat /\ Row(b) \in Nat /\ Col(b) \in Nat
    BY <1>4
  <2>4. Col(a) < Col(b) => colA + w <= colB
    BY <1>1, <1>3, <2>3, StepsApart
  <2>5. Row(a) < Row(b) => rowA + h <= rowB
    BY <1>1, <1>3, <2>3, StepsApart
  <2>6. colA \in Nat /\ colB \in Nat /\ rowA \in Nat /\ rowB \in Nat
    BY <1>1, <1>3, <2>3
  <2> HIDE DEF cell, other, colA, colB, rowA, rowB
  <2>7. /\ Col(a) < Col(b) => cell.x + cell.width - Border <= other.x + Border
        /\ Row(a) < Row(b) => cell.y + cell.height - Border <= other.y
    BY <1>1, <1>3, <2>1, <2>2, <2>4, <2>5, <2>6
  <2> QED BY <2>7 DEF cell, other
<1>8. Col(i) < Col(j) \/ Col(j) < Col(i) \/ Row(i) < Row(j) \/ Row(j) < Row(i)
  BY <1>4, <1>6
<1> QED BY <1>7, <1>8 DEF Disjoint

-----------------------------------------------------------------------------
(***************************************************************************)
(* Tiles on different monitors.                                            *)
(***************************************************************************)
(* No two monitors show the same pixel.                                    *)
MonitorsApart ==
  \A m1, m2 \in DOMAIN Monitors :
    m1 # m2 =>
      LET a == Monitors[m1]
          b == Monitors[m2]
      IN \/ a.x + a.width <= b.x \/ b.x + b.width <= a.x
         \/ a.y + a.height <= b.y \/ b.y + b.height <= a.y

(* The smallest size of a window does not exceed its share of a monitor    *)
(* with n windows, so that they stay inside it.                            *)
RoomFor(m, n) ==
  LET Fits(extent, parts, least) ==
        (extent - (parts + 1) * Margin) \div parts >= least
  IN n # 0 => /\ Fits(Monitors[m].width, Columns(n), MinWidth)
              /\ Fits(Monitors[m].height, Rows(n), MinHeight)

(* A single monitor has no neighbour to reach into.                        *)
HasRoom(count) ==
  \/ Len(Monitors) = 1
  \/ \A m \in DOMAIN Monitors : RoomFor(m, OnMonitor(count, m))

(* The visible part of a cell is on its monitor.                           *)
LEMMA Inside ==
  ASSUME NEW m \in DOMAIN Monitors, NEW n \in Nat \ {0}, NEW i \in 0..(n - 1),
         RoomFor(m, n), NEW c, c = Cell(m, n, i)
  PROVE  /\ c.x \in Int /\ c.y \in Int /\ c.width \in Int /\ c.height \in Int
         /\ c.x + Border >= Monitors[m].x
         /\ c.y >= Monitors[m].y
         /\ c.x + c.width - Border <= Monitors[m].x + Monitors[m].width
         /\ c.y + c.height - Border <= Monitors[m].y + Monitors[m].height
<1> DEFINE cols == Columns(n)
           rows == Rows(n)
           row == i \div cols
           col == i % cols
           w == Share(Monitors[m].width, cols, MinWidth)
           h == Share(Monitors[m].height, rows, MinHeight)
<1>1. Margin \in Nat /\ Border \in Nat /\ MinWidth \in Nat /\ MinHeight \in Nat
  BY TilingAssumption
<1>2. /\ cols \in Nat \ {0} /\ rows \in Nat \ {0}
      /\ row \in 0..(rows - 1) /\ col \in 0..(cols - 1)
  BY Grid
<1>3. /\ w \in Nat /\ cols * w + (cols + 1) * Margin <= Monitors[m].width
      /\ h \in Nat /\ rows * h + (rows + 1) * Margin <= Monitors[m].height
  BY <1>1, <1>2, MonitorFields, ShareSize DEF RoomFor
<1>4. /\ c.x \in Int /\ c.y \in Int /\ c.width \in Int /\ c.height \in Int
      /\ c.x + Border >= Monitors[m].x + Margin + col * (w + Margin)
      /\ c.y = Monitors[m].y + Margin + row * (h + Margin)
      /\ c.x + c.width - Border <= Monitors[m].x + Margin + col * (w + Margin) + w
      /\ c.y + c.height - Border <= Monitors[m].y + Margin + row * (h + Margin) + h
  BY Visible
<1> HIDE DEF cols, rows, row, col, w, h
<1>5. \A size, parts, place \in Nat : place < parts =>
        /\ place * (size + Margin) \in Nat
        /\ Margin + place * (size + Margin) + size <= parts * size + (parts + 1) * Margin
  <2> SUFFICES ASSUME NEW size \in Nat, NEW parts \in Nat, NEW place \in Nat,
                      place < parts
               PROVE  /\ place * (size + Margin) \in Nat
                      /\ Margin + place * (size + Margin) + size
                           <= parts * size + (parts + 1) * Margin
    OBVIOUS
  <2>1. place * (size + Margin) + size <= parts * (size + Margin)
    BY <1>1, StepsApart
  <2>2. parts * (size + Margin) = parts * size + parts * Margin
    BY <1>1
  <2>3. (parts + 1) * Margin = parts * Margin + Margin
    BY <1>1
  <2>4. /\ place * (size + Margin) \in Nat /\ parts * size \in Nat
        /\ parts * Margin \in Nat
    BY <1>1
  <2> QED BY <1>1, <2>1, <2>2, <2>3, <2>4
<1> DEFINE colPlace == col * (w + Margin)
           rowPlace == row * (h + Margin)
           colsTake == cols * w + (cols + 1) * Margin
           rowsTake == rows * h + (rows + 1) * Margin
<1>6. colPlace \in Nat /\ Margin + colPlace + w <= colsTake
  BY <1>2, <1>3, <1>5
<1>7. rowPlace \in Nat /\ Margin + rowPlace + h <= rowsTake
  BY <1>2, <1>3, <1>5
<1>8. colsTake \in Nat /\ rowsTake \in Nat
  BY <1>1, <1>2, <1>3
<1> HIDE DEF colPlace, rowPlace, colsTake, rowsTake
<1>9. /\ c.x + Border >= Monitors[m].x + Margin + colPlace
      /\ c.y = Monitors[m].y + Margin + rowPlace
      /\ c.x + c.width - Border <= Monitors[m].x + Margin + colPlace + w
      /\ c.y + c.height - Border <= Monitors[m].y + Margin + rowPlace + h
      /\ colsTake <= Monitors[m].width /\ rowsTake <= Monitors[m].height
  BY <1>3, <1>4 DEF colPlace, rowPlace, colsTake, rowsTake
<1> QED BY <1>1, <1>3, <1>4, <1>6, <1>7, <1>8, <1>9, MonitorFields

(* Window k is one of its monitor's.                                       *)
LEMMA TileOf ==
  ASSUME NEW count \in Nat, NEW k \in 0..(count - 1),
         NEW m, m = MonitorOf(count, k)
  PROVE  /\ m \in DOMAIN Monitors
         /\ OnMonitor(count, m) \in Nat \ {0} /\ Before(count, m) \in Nat
         /\ k - Before(count, m) \in 0..(OnMonitor(count, m) - 1)
         /\ Tile(count, k) = Cell(m, OnMonitor(count, m), k - Before(count, m))
<1>1. m \in DOMAIN Monitors /\ IsOn(count, k, m)
  BY OnSomeMonitor DEF MonitorOf
<1>2. OnMonitor(count, m) \in Nat /\ Before(count, m) \in Nat
  BY <1>1, Shares
<1>3. k >= Before(count, m) /\ k < Before(count, m) + OnMonitor(count, m)
  BY <1>1 DEF IsOn
<1>4. OnMonitor(count, m) # 0 /\ k - Before(count, m) \in 0..(OnMonitor(count, m) - 1)
  BY <1>2, <1>3
<1> QED BY <1>1, <1>2, <1>4 DEF Tile

(* Tiles of one count of windows are clear of each other, on monitors that *)
(* are themselves apart and, where there are several, have room for their  *)
(* share of the windows (compute_tile_positions; max(win_w, 400) makes a   *)
(* window wider than its share where there is none).                       *)
THEOREM TilesDisjoint ==
  ASSUME MonitorsApart, NEW count \in Nat, HasRoom(count),
         NEW k \in 0..(count - 1), NEW l \in 0..(count - 1), k # l
  PROVE  Disjoint(Tile(count, k), Tile(count, l))
<1> DEFINE m1 == MonitorOf(count, k)
           m2 == MonitorOf(count, l)
           n1 == OnMonitor(count, m1)
           n2 == OnMonitor(count, m2)
<1>1. /\ m1 \in DOMAIN Monitors /\ n1 \in Nat \ {0} /\ Before(count, m1) \in Nat
      /\ k - Before(count, m1) \in 0..(n1 - 1)
      /\ Tile(count, k) = Cell(m1, n1, k - Before(count, m1))
  BY TileOf
<1>2. /\ m2 \in DOMAIN Monitors /\ n2 \in Nat \ {0} /\ Before(count, m2) \in Nat
      /\ l - Before(count, m2) \in 0..(n2 - 1)
      /\ Tile(count, l) = Cell(m2, n2, l - Before(count, m2))
  BY TileOf
<1> HIDE DEF m1, m2
<1>3. CASE m1 = m2
  <2>1. k - Before(count, m1) # l - Before(count, m1)
    BY <1>1
  <2> QED BY <1>1, <1>2, <1>3, <2>1, SameMonitor
<1>4. CASE m1 # m2
  <2>1. Len(Monitors) # 1
    BY <1>1, <1>2, <1>4, MonitorCount
  <2>2. RoomFor(m1, n1) /\ RoomFor(m2, n2)
    BY <1>1, <1>2, <2>1 DEF HasRoom
  <2> DEFINE s == Tile(count, k)
             t == Tile(count, l)
  <2>3. /\ s.x \in Int /\ s.y \in Int /\ s.width \in Int /\ s.height \in Int
        /\ s.x + Border >= Monitors[m1].x
        /\ s.y >= Monitors[m1].y
        /\ s.x + s.width - Border <= Monitors[m1].x + Monitors[m1].width
        /\ s.y + s.height - Border <= Monitors[m1].y + Monitors[m1].height
    BY <1>1, <2>2, Inside
  <2>4. /\ t.x \in Int /\ t.y \in Int /\ t.width \in Int /\ t.height \in Int
        /\ t.x + Border >= Monitors[m2].x
        /\ t.y >= Monitors[m2].y
        /\ t.x + t.width - Border <= Monitors[m2].x + Monitors[m2].width
        /\ t.y + t.height - Border <= Monitors[m2].y + Monitors[m2].height
    BY <1>2, <2>2, Inside
  <2>5. /\ Monitors[m1].x \in Int /\ Monitors[m1].y \in Int
        /\ Monitors[m1].width \in Nat /\ Monitors[m1].height \in Nat
        /\ Monitors[m2].x \in Int /\ Monitors[m2].y \in Int
        /\ Monitors[m2].width \in Nat /\ Monitors[m2].height \in Nat
        /\ Border \in Nat
    BY <1>1, <1>2, MonitorFields, TilingAssumption
  <2>6. \/ Monitors[m1].x + Monitors[m1].width <= Monitors[m2].x
        \/ Monitors[m2].x + Monitors[m2].width <= Monitors[m1].x
        \/ Monitors[m1].y + Monitors[m1].height <= Monitors[m2].y
        \/ Monitors[m2].y + Monitors[m2].height <= Monitors[m1].y
    BY <1>1, <1>2, <1>4 DEF MonitorsApart
  <2> HIDE DEF s, t
  <2>7. Disjoint(s, t)
    BY <2>3, <2>4, <2>5, <2>6 DEF Disjoint
  <2> QED BY <2>7 DEF s, t
<1> QED BY <1>3, <1>4
=============================================================================
