----------------------------- MODULE MCDevices -----------------------------
(***************************************************************************)
(* The modules of the disk's path side by side: the registers of a virtio  *)
(* transport, the block device's queue and the disk behind it.  A          *)
(* behaviour exercises one of them, so that their states add up.           *)
(***************************************************************************)
EXTENDS MmioRegs, VirtioBlk, BlkDisk

VARIABLE part

vars == <<part, xT, blkVars, diskVars>>

\* The requests of the guest: within a cluster, across two, past the end.
MCRequests ==
    {[out |-> TRUE, first |-> 1, count |-> 2], [out |-> TRUE, first |-> 0, count |-> 1],
     [out |-> FALSE, first |-> 0, count |-> 2], [out |-> FALSE, first |-> 1, count |-> 2],
     [out |-> FALSE, first |-> 2, count |-> 2]}

Init == part \in {"regs", "blk", "disk"} /\ MmioInit /\ BlkInit /\ DiskInit

Next ==
    /\ UNCHANGED part
    /\ \/ part = "regs" /\ MmioNext /\ UNCHANGED <<blkVars, diskVars>>
       \/ part = "blk" /\ BlkNext /\ UNCHANGED <<xT, diskVars>>
       \/ part = "disk" /\ DiskNext /\ UNCHANGED <<xT, blkVars>>

Blk(A) == part = "blk" /\ A /\ UNCHANGED <<part, xT, vReloads, diskVars>>
Disk(A) == part = "disk" /\ A /\ UNCHANGED <<part, xT, blkVars>>

\* The machine services its devices, the driver and the host go on, and the
\* feeder answers what it was asked.
Spec ==
    /\ Init /\ [][Next]_vars
    /\ WF_vars(Blk(BlkDevice)) /\ SF_vars(Blk(BlkDriver)) /\ SF_vars(Blk(BlkHost))
    /\ WF_vars(Disk(Attempt)) /\ WF_vars(Disk(Feeder))
=============================================================================
