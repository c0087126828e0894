------------------------------ MODULE RunLedger ------------------------------
(***************************************************************************)
(* What the checkpoint of a run promises: a durable ledger of the run's    *)
(* batches.  It is written batch by batch, holds exactly one result of     *)
(* every prompt and turn of the batches it counts and none of the others,  *)
(* never loses a batch, and is closed only when it is full.  The user may  *)
(* discard it; the next write then starts a new one, which may count any   *)
(* number of batches (those the live run has finished).                    *)
(***************************************************************************)
EXTENDS Integers

CONSTANTS Slot,   \* a prompt's turn: a record with a field `batch`
          Total   \* number of batches

VARIABLES exists, \* whether there is a ledger
          counted,\* batches it counts
          held,   \* how many results it holds for each slot
          closed  \* whether the run is over

vars == <<exists, counted, held, closed>>

Holding(n) == [s \in Slot |-> IF s.batch < n THEN 1 ELSE 0]

Init ==
  /\ exists = FALSE
  /\ counted = 0
  /\ held = Holding(0)
  /\ closed = FALSE

(* An existing ledger is rewritten as it is or gains the next batch.       *)
Write(n) ==
  /\ exists => n \in {counted, counted + 1}
  /\ exists'  = TRUE
  /\ counted' = n
  /\ held'    = Holding(n)
  /\ closed'  = FALSE

Close ==
  /\ exists
  /\ counted = Total
  /\ closed' = TRUE
  /\ UNCHANGED <<exists, counted, held>>

Discard ==
  /\ exists'  = FALSE
  /\ counted' = 0
  /\ held'    = Holding(0)
  /\ closed'  = FALSE

Next == (\E n \in 0..Total : Write(n)) \/ Close \/ Discard

Spec == Init /\ [][Next]_vars

=============================================================================
