--------------------------- MODULE MCResponsePoller ---------------------------
(***************************************************************************)
(* ResponsePoller for TLC: a call that starts after a turn whose answers   *)
(* are still shown (with or without their texts as a baseline), or in a    *)
(* new chat.                                                               *)
(***************************************************************************)
EXTENDS ResponsePoller, TLC

(* The call treats both slides alike.                                      *)
Symmetry == Permutations(Slides)

=============================================================================
