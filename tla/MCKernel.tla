------------------------------ MODULE MCKernel ------------------------------
(***************************************************************************)
(* What a guest's kernel and the programs of the user-mode Linux layer     *)
(* rely on: the interrupt controller, descriptor chains, processes,        *)
(* signals and record locks.  A behaviour exercises one of them.           *)
(***************************************************************************)
EXTENDS Gic, ChainWalk, LinuxProc, LinuxSignals, LinuxLocks, TLC

VARIABLE part

vars == <<part, gicVars, chainVars, lkVars, sgVars, llVars>>

\* The triggers of a device's line: edge and level, for used buffers.
MCTriggers == {<<TRUE, {"vring"}>>, <<FALSE, {"vring"}>>}

\* An edge for used buffers and configuration changes, as the device tree has it.
MCTriggersConfig == {<<TRUE, {"vring", "config"}>>}

\* Actions with and without SA_RESTART, and SIG_IGN.
MCActions ==
    {[h |-> "handler", restart |-> r, mask |-> {}] : r \in BOOLEAN}
        \cup {[h |-> "ign", restart |-> FALSE, mask |-> {}]}
MCMasks == {{}, {1, 2}}

\* Three processes whose exclusive locks can close a cycle, one that also
\* shares the whole file, and a description that shares its end.
Region(s, e, k) == [start |-> s, end |-> e, kind |-> k]
MCOfds == {-2}
MCLocks ==
    (1 :> {Region(0, 1, "wr"), Region(1, 2, "wr"), Region(0, 3, "rd")})
    @@ (2 :> {Region(1, 2, "wr"), Region(2, 3, "wr")})
    @@ (3 :> {Region(2, 3, "wr"), Region(0, 1, "wr")})
    @@ (-2 :> {Region(1, 3, "rd")})

Init ==
    /\ part \in {"gic", "chain", "proc", "sig", "lock"}
    /\ IF part = "gic" THEN GicInit
       ELSE GicInitAs(CHOOSE t \in GicTriggers : TRUE, CHOOSE p \in GicPrios : TRUE, FALSE, FALSE)
    /\ SgInit /\ (part # "sig" => sgCur = CHOOSE t \in SgThreads : TRUE)
    /\ ChainInit /\ LkInit /\ LlInit

Next ==
    /\ UNCHANGED part
    /\ \/ part = "gic" /\ GicNext /\ UNCHANGED <<chainVars, lkVars, sgVars, llVars>>
       \/ part = "chain" /\ ChainNext /\ UNCHANGED <<gicVars, lkVars, sgVars, llVars>>
       \/ part = "proc" /\ LkNext /\ UNCHANGED <<gicVars, chainVars, sgVars, llVars>>
       \/ part = "sig" /\ SgNext /\ UNCHANGED <<gicVars, chainVars, lkVars, llVars>>
       \/ part = "lock" /\ LlNext /\ UNCHANGED <<gicVars, chainVars, lkVars, sgVars>>

Spec == Init /\ [][Next]_vars
=============================================================================
