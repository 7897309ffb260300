------------------------------- MODULE MCHost -------------------------------
(***************************************************************************)
(* What the host keeps and carries for the guest: the disk's overlay and   *)
(* the snapshot store, a TCP connection of the gateway, and a recording.   *)
(* A behaviour exercises one of them.                                      *)
(***************************************************************************)
EXTENDS Persistence, TcpLink, Replay

VARIABLE part

vars == <<part, persistVars, tcpVars, rpVars>>

Init ==
    /\ part \in {"store", "tcp", "replay"}
    /\ PersistInit /\ TcpInit /\ RpInit
    /\ part # "tcp" => tEnd = NewEnd

Next ==
    /\ UNCHANGED part
    /\ \/ part = "store" /\ PersistNext /\ UNCHANGED <<tcpVars, rpVars>>
       \/ part = "tcp" /\ TcpNext /\ UNCHANGED <<persistVars, rpVars>>
       \/ part = "replay" /\ RpNext /\ UNCHANGED <<persistVars, tcpVars>>

Spec == Init /\ [][Next]_vars
=============================================================================
