------------------------------- MODULE MCFifo -------------------------------
(* A FIFO with one task at each end. *)
EXTENDS LinuxPipes

Spec == LpInit /\ [][LpNext]_lpVars
=============================================================================
