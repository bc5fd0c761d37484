--------------------------- MODULE MCPenaltyWindow ---------------------------
(***************************************************************************)
(* Three violations with a threshold of two, so that a third one comes     *)
(* while a penalty runs; a window that can end before the penalty does.    *)
(***************************************************************************)
EXTENDS PenaltyWindow, TLC

MCReservations == 1..3

(* Requests of administrators are told apart by nothing but their name.    *)
AdminSymmetry == Permutations(Activations) \cup Permutations(Releases)
=============================================================================
