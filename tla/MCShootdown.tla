---------------------------- MODULE MCShootdown ----------------------------
(* Shootdown on a few cores. *)
EXTENDS Shootdown
=============================================================================
