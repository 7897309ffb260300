------------------------------ MODULE MCTurns ------------------------------
(* Turns with a few cores, short turns and short quanta. *)
EXTENDS Turns
=============================================================================
