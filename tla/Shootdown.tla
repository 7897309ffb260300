----------------------------- MODULE Shootdown -----------------------------
(***************************************************************************)
(* Broadcast TLBI between cores in parallel: the requests of module Cores  *)
(* carrying invalidations of one page's translation.  A core that changes  *)
(* the page's entry in the guest's tables executes a TLBI of the Inner     *)
(* Shareable domain and, once past it, relies on no core translating with  *)
(* the old entry.                                                          *)
(***************************************************************************)
EXTENDS Cores

CONSTANT MaxEntry \* bound on the changes of the table entry

ASSUME MaxEntryAssumption == MaxEntry \in Nat \ {0}

VARIABLES entry, \* the page's entry in the guest's tables: how often it changed
          tlb,   \* each core's cached translation of the page, 0 for none
          need,  \* the entry each core's last TLBI was for
          gone   \* the newest entry some core's completed TLBI was for

tlbVars == <<entry, tlb, need, gone>>
vars == <<coreVars, tlbVars>>

TypeOK ==
    /\ CoresTypeOK
    /\ entry \in 1 .. MaxEntry
    /\ tlb \in [Core -> 0 .. MaxEntry]
    /\ need \in [Core -> 0 .. MaxEntry]
    /\ gone \in 0 .. MaxEntry

Init ==
    /\ CoresInit
    /\ entry = 1
    /\ tlb = [c \in Core |-> 0]
    /\ need = [c \in Core |-> 0]
    /\ gone = 0

\* The TLB without the page's translation.
Invalidate(c) == tlb' = [tlb EXCEPT ![c] = 0]

-----------------------------------------------------------------------------
\* A translation of the page: the cached one, else a walk that is cached.
Translate(c) ==
    /\ pc[c] = "exec"
    /\ tlb[c] = 0
    /\ tlb' = [tlb EXCEPT ![c] = entry]
    /\ UNCHANGED <<coreVars, entry, need, gone>>

\* A store to the table entry, by any core.
Remap(c) ==
    /\ pc[c] = "exec"
    /\ entry < MaxEntry
    /\ entry' = entry + 1
    /\ UNCHANGED <<coreVars, tlb, need, gone>>

\* MmuBus::tlbi: the core's own TLB, then the broadcast.
Tlbi(c) ==
    /\ Broadcast(c)
    /\ Invalidate(c)
    /\ need' = [need EXCEPT ![c] = entry]
    /\ UNCHANGED <<entry, gone>>

\* Seeded fault: acknowledged and not applied.
ApplyNothing(c) == UNCHANGED tlb

\* ParCore::service: the requests taken are applied, then acknowledged.
ApplyTaken(c) == IF inbox[c] = 0 THEN UNCHANGED tlb ELSE Invalidate(c)

TopService(c) == RunService(c) /\ ApplyTaken(c) /\ UNCHANGED <<entry, need, gone>>

WaitService(c) == AcksService(c) /\ ApplyTaken(c) /\ UNCHANGED <<entry, need, gone>>

\* The issuer is past its TLBI: nobody was on to be asked, or all answered.
Past(c) == gone' = IF need[c] > gone THEN need[c] ELSE gone

TlbiAlone(c) == BroadcastEnd(c) /\ waits[c] = {} /\ Past(c) /\ UNCHANGED <<entry, tlb, need>>

TlbiPosted(c) == BroadcastEnd(c) /\ waits[c] # {} /\ UNCHANGED tlbVars

TlbiDone(c) == AcksDone(c) /\ Past(c) /\ UNCHANGED <<entry, tlb, need>>

\* ParCore::power_on: the reset state, with an empty TLB.
PowerOnReset(c) == PowerOn(c) /\ Invalidate(c) /\ UNCHANGED <<entry, need, gone>>

\* Machine::stop_parallel: one TLB again, flushed.  The cores go on in turns,
\* past every TLBI they executed.
Rejoin ==
    /\ StopParallel
    /\ tlb' = [c \in Core |-> 0]
    /\ gone' = entry
    /\ UNCHANGED <<entry, need>>

\* Machine::start_parallel: new MMUs for the others; core 0 keeps what it
\* translated in turns.
Split ==
    /\ StartParallel
    /\ tlb' \in {[c \in Core |-> IF c = 0 THEN v ELSE 0] : v \in {0, entry}}
    /\ UNCHANGED <<entry, need, gone>>

\* Steps that concern neither the tables nor a TLB.
Thread(c) ==
    /\ \/ RunEnter(c) \/ RunHalted(c) \/ RunServed(c) \/ RunReturn(c) \/ RunBlocked(c)
       \/ RunOff(c) \/ RunGuest(c) \/ StretchEnd(c) \/ StretchRun(c) \/ ExecEnd(c)
       \/ BroadcastSlot(c) \/ AcksServed(c) \/ AcksPoll(c)
       \/ (\E i \in Core : CpuOn(c, i)) \/ CpuOff(c) \/ ScanSlot(c) \/ ScanAllOff(c)
       \/ SystemHalt(c)
    /\ UNCHANGED tlbVars

Host == RequestStop /\ UNCHANGED tlbVars

Step(c) ==
    \/ Translate(c) \/ Remap(c) \/ Tlbi(c) \/ TopService(c) \/ WaitService(c)
    \/ TlbiAlone(c) \/ TlbiPosted(c) \/ TlbiDone(c) \/ PowerOnReset(c) \/ Thread(c)

Next == (\E c \in Core : Step(c)) \/ Host \/ Rejoin \/ Split

Spec == Init /\ [][Next]_vars

\* What a core's thread does by itself.  The guest's choices (which
\* instruction comes next) and the host's stop are not promised.
Progress(c) ==
    \/ TopService(c) \/ WaitService(c) \/ TlbiAlone(c) \/ TlbiPosted(c)
    \/ TlbiDone(c) \/ PowerOnReset(c)
    \/ /\ \/ RunEnter(c) \/ RunHalted(c) \/ RunServed(c) \/ RunReturn(c) \/ RunBlocked(c)
          \/ RunOff(c) \/ RunGuest(c) \/ StretchEnd(c) \/ StretchRun(c) \/ ExecEnd(c)
          \/ BroadcastSlot(c) \/ AcksServed(c) \/ AcksPoll(c)
          \/ ScanSlot(c) \/ ScanAllOff(c)
       /\ UNCHANGED tlbVars

\* Every core has a host thread that keeps running it (Worker or std::thread;
\* the host calls Machine::run again for core 0); a JIT run is bounded by SLICE
\* and ended by a kick, a nap by its timeout.  The host completes the disk
\* requests core 0 is blocked on, so core 0 gets past them again and again; once it
\* asked for the cores back it calls stop_parallel when it has them.
Fairness ==
    /\ \A c \in Core : WF_vars(Progress(c)) /\ SF_vars(PowerOnReset(c))
    /\ SF_vars(Rejoin)

FairSpec == Spec /\ Fairness
-----------------------------------------------------------------------------
\* parallel.rs: "a broadcast TLBI is applied by every other core (kicked,
\* between two runs) before the issuer goes on".  Once a core is past its
\* TLBI, no core that executes still holds a translation from before it.
NoStaleTranslation ==
    \A c \in Core : Live(c) /\ tlb[c] # 0 => tlb[c] >= gone

\* machine.rs on Stop::PowerOff: "PSCI SYSTEM_OFF (or CPU_OFF of the only
\* CPU)": when a core's CPU_OFF powers the machine off, no core is on.
OnlyLastOffHalts ==
    [][\A c \in Core : pc[c] = "scan" /\ pc'[c] = "top" /\ halt = 0 /\ halt' = 1
          => \A i \in Core : ~on[i]]_vars

\* No core waits forever for acknowledgements, whoever else waits for it
\* meanwhile (wait_acks: "two cores may wait for each other").
AcksEnd == \A c \in Core : pc[c] = "acks" ~> pc[c] \in {"chk", "gate"}

\* request_stop: "their Core::run returns soon".
StopReturns == stop ~> \A c \in Core : pc[c] = "out"

\* A CPU_ON that returned SUCCESS starts its core, also when it raced with the
\* core's own CPU_OFF, unless the machine halts first.
CpuOnStarts == \A c \in Core : start[c] ~> ~start[c] \/ halt # 0
=============================================================================
