---------------------------- MODULE MCArenaWorker ----------------------------
(***************************************************************************)
(* ArenaWorker for TLC, and what a comment says of it that the code does   *)
(* not keep.                                                               *)
(***************************************************************************)
EXTENDS ArenaWorker

(* session_rules.py: "Model selection should happen once per session", and *)
(* after it "the models are already chosen".  The answer to a prompt comes *)
(* from a chat whose models were chosen.  A follow-up prompt that is       *)
(* replayed in a fresh window is sent to whatever models that window shows.*)
ModelsChosen == at = "answered" => chat.models

=============================================================================
