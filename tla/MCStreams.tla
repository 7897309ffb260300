----------------------------- MODULE MCStreams -----------------------------
(***************************************************************************)
(* Two streams with flow control: vsock on a pair of ports, with counters  *)
(* that wrap at VsWrap, and the pieces of a deferred save on their way to  *)
(* the saver.  A behaviour exercises one of them.                          *)
(***************************************************************************)
EXTENDS Vsock, BackgroundSave

VARIABLE part

vars == <<part, vsVars, bsVars>>

Init == part \in {"vsock", "save"} /\ VsInit /\ BsInit

Next ==
    /\ UNCHANGED part
    /\ \/ part = "vsock" /\ VsNext /\ UNCHANGED bsVars
       \/ part = "save" /\ BsNext /\ UNCHANGED vsVars

OfVsock(A) == part = "vsock" /\ A
OfSave(A) == part = "save" /\ A

\* The device is serviced, the queues move, and both programs go on reading,
\* closing and accepting.  The machine's loop pumps between its slices, and
\* both Workers take their messages.
Spec ==
    /\ Init /\ [][Next]_vars
    /\ WF_vsVars(OfVsock(VsDevice))
    /\ WF_vsVars(OfVsock(TransmitQueue))
    /\ WF_vsVars(OfVsock(ReceiveQueue))
    /\ WF_vsVars(OfVsock(Recv))
    /\ WF_vsVars(OfVsock(GuestRead))
    /\ WF_vsVars(OfVsock(GuestDone))
    /\ WF_vsVars(OfVsock(GuestReceive))
    /\ WF_vsVars(OfVsock(Accept))
    /\ WF_bsVars(OfSave(BsPump))
    /\ WF_bsVars(OfSave(BsReply))
    /\ WF_bsVars(OfSave(BsHandle))
=============================================================================
