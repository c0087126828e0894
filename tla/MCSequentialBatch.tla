-------------------------- MODULE MCSequentialBatch --------------------------
(***************************************************************************)
(* SequentialBatch for TLC, and what the README says of this mode that the *)
(* code does not do.                                                       *)
(***************************************************************************)
EXTENDS SequentialBatch

(* README: "Sequential submission with configurable gap timing" and        *)
(* "Parallel response polling across all windows".  A run whose prompts    *)
(* were submitted goes on to poll for the answers.                         *)
SubmittedIsPolled == phase = "raised" => sent = {}

=============================================================================
