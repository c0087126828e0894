------------------------------- MODULE MCServer -------------------------------
(***************************************************************************)
(* Server for TLC: two monitors, two executions and two run ids, which     *)
(* ask for windows among all others or for their part of a common layout.  *)
(***************************************************************************)
EXTENDS Server

CONSTANTS e1, e2, h, a, b, L

MCMonitors ==
  <<[x |-> 0, y |-> 0, width |-> 1920, height |-> 1040],
    [x |-> 1920, y |-> 0, width |-> 1280, height |-> 984]>>

MCCalls == {e1, e2, h}

MCRequests ==
  {[run |-> a, count |-> 2, layout |-> NoLayout, total |-> 0, offset |-> 0],
   [run |-> a, count |-> 1, layout |-> L, total |-> 2, offset |-> 0],
   [run |-> b, count |-> 1, layout |-> L, total |-> 2, offset |-> 1],
   [run |-> b, count |-> 1, layout |-> NoLayout, total |-> 2, offset |-> 0]}

(* The docstring of /api/close-all-windows: "Stop active runs and close    *)
(* every currently open browser window."                                   *)
NoWindowLeft == swept = "yes" /\ ~reused => ~lost
=============================================================================
