------------------------------ MODULE WfiClock ------------------------------
(***************************************************************************)
(* Waiting in WFI with the cores in parallel (machine/parallel.rs, flush,  *)
(* sync, wait, wake_due; board.rs, update_irqs, lines_changed, kick): the  *)
(* cores share one clock, which their instructions advance; a core in WFI  *)
(* sleeps until its interrupt line rises, its timer's deadline passes or   *)
(* it is kicked; the last core to wait moves the clock to the earliest     *)
(* deadline, but not past the end of the host's quantum.                   *)
(*                                                                         *)
(* Clock values are kept as what is left until them (0 is passed), so the  *)
(* clock needs no bound.  Every core runs in the loop of module Cores;     *)
(* requests, stops and halts are its subject and left out here, as are the *)
(* network stack's deadline and the conversion between clock steps and     *)
(* counter ticks.  A kick is one step: its target looks at the kick count  *)
(* and goes to sleep under the lock the kick notifies under.               *)
(***************************************************************************)
EXTENDS Integers, FiniteSets, FiniteSetsExt

CONSTANTS N,         \* cores
          MaxAlarm,  \* farthest timer deadline
          MaxBudget  \* largest budget the host gives to Machine::run

ASSUME NAssumption == N \in Nat \ {0}
ASSUME MaxAlarmAssumption == MaxAlarm \in Nat \ {0}
ASSUME MaxBudgetAssumption == MaxBudget \in Nat \ {0}

Core == 0 .. N - 1

\* u64::MAX: no deadline, no end of the quantum.
Never == MaxAlarm + MaxBudget

VARIABLES on,      \* Slot::on
          dev,     \* an SGI or a device interrupt pending in the GIC
          line,    \* Slot::irq
          alarm,   \* the core's timer
          kicked,  \* Slot::kick is not what wait read
          until,   \* Slot::wait_until
          horizon, \* Cores::horizon
          limit,   \* the horizon wait read
          wfi,     \* ParCore::wfi_pending
          pc       \* where the core's thread is

vars == <<on, dev, line, alarm, kicked, until, horizon, limit, wfi, pc>>

NotWaiting == -1

(***************************************************************************)
(* The values of pc.                                                       *)
(* "out": core 0, in the host.  "off": powered off.  "run": in the loop of *)
(* ParCore::run.  "flush", "due": an instruction done, its step not yet on *)
(* the clock, the sleepers not yet looked at.  "sync" .. "left": in wait.  *)
(***************************************************************************)

\* start_parallel with every core on, before core 0 runs.
Init ==
    /\ on = [c \in Core |-> TRUE]
    /\ dev = [c \in Core |-> FALSE]
    /\ line = [c \in Core |-> FALSE]
    /\ alarm = [c \in Core |-> Never]
    /\ kicked = [c \in Core |-> FALSE]
    /\ until = [c \in Core |-> NotWaiting]
    /\ horizon = 0
    /\ limit = [c \in Core |-> 0]
    /\ wfi = [c \in Core |-> FALSE]
    /\ pc = [c \in Core |-> IF c = 0 THEN "out" ELSE "run"]

-----------------------------------------------------------------------------
Goto(c, l) == pc' = [pc EXCEPT ![c] = l]

\* d steps are added to the clock.
After(x, d) == IF x \in {Never, NotWaiting} THEN x ELSE Max({0, x - d})

Advance(d) ==
    /\ alarm' = [c \in Core |-> After(alarm[c], d)]
    /\ until' = [c \in Core |-> After(until[c], d)]
    /\ limit' = [c \in Core |-> After(limit[c], d)]
    /\ horizon' = After(horizon, d)

\* Board::update_irqs: the line of every core, and a kick where it rises.
UpdateIrqs(pending, deadline) ==
    /\ dev' = pending
    /\ alarm' = deadline
    /\ line' = [c \in Core |-> pending[c] \/ deadline[c] = 0]
    /\ kicked' = [c \in Core |-> kicked[c] \/ (line'[c] /\ ~line[c])]

\* wake_due.
WakeDue == kicked' = [c \in Core |-> kicked[c] \/ until[c] = 0]

\* Cores::idle: the cores between wait's fetch_add and fetch_sub.
Idle == {c \in Core : pc[c] \in {"jump", "jumped", "loop", "nap", "asleep", "left"}}

On == {c \in Core : on[c]}

-----------------------------------------------------------------------------
(* The guest *)

\* ParCore::stretch: a passed deadline reaches the lines first (sync).
Guest(c) ==
    /\ pc[c] = "run"
    /\ on[c]
    /\ ~wfi[c]
    /\ c = 0 => horizon > 0

StretchSync(c) ==
    /\ Guest(c)
    /\ alarm[c] = 0 /\ ~line[c]
    /\ UpdateIrqs(dev, alarm)
    /\ UNCHANGED <<on, until, horizon, limit, wfi, pc>>

\* An instruction that leaves the lines and the timers alone, or one that
\* programs the core's timer, ends its interrupt or sends an SGI.
Instruction(c) ==
    /\ Guest(c)
    /\ alarm[c] = 0 => line[c]
    /\ \/ UNCHANGED <<dev, alarm, line, kicked>>
       \/ \E a \in 1 .. MaxAlarm \cup {Never} :
             UpdateIrqs([dev EXCEPT ![c] = FALSE], [alarm EXCEPT ![c] = a])
       \/ \E i \in Core \ {c} : UpdateIrqs([dev EXCEPT ![i] = TRUE], alarm)
    /\ Goto(c, "flush")
    /\ UNCHANGED <<on, until, horizon, limit, wfi>>

Wfi(c) ==
    /\ Guest(c)
    /\ alarm[c] = 0 => line[c]
    /\ wfi' = [wfi EXCEPT ![c] = TRUE]
    /\ Goto(c, "flush")
    /\ UNCHANGED <<on, dev, line, alarm, kicked, until, horizon, limit>>

\* Event::Off of a core that is not the last one.
CpuOff(c) ==
    /\ Guest(c)
    /\ On # {c}
    /\ on' = [on EXCEPT ![c] = FALSE]
    /\ Goto(c, "off")
    /\ UNCHANGED <<dev, line, alarm, kicked, until, horizon, limit, wfi>>

CpuOn(c, i) ==
    /\ Guest(c)
    /\ ~on[i]
    /\ on' = [on EXCEPT ![i] = TRUE]
    /\ kicked' = [kicked EXCEPT ![i] = TRUE]
    /\ Goto(c, "flush")
    /\ UNCHANGED <<dev, line, alarm, until, horizon, limit, wfi>>

PowerOn(c) ==
    /\ pc[c] = "off"
    /\ on[c]
    /\ Goto(c, "run")
    /\ UNCHANGED <<on, dev, line, alarm, kicked, until, horizon, limit, wfi>>

\* ParCore::flush, the clock ...
Flush(c) ==
    /\ pc[c] = "flush"
    /\ Advance(1)
    /\ Goto(c, "due")
    /\ UNCHANGED <<on, dev, line, kicked, wfi>>

\* Seeded fault: nobody is woken.
FlushOnly(c) ==
    /\ pc[c] = "due"
    /\ Goto(c, "run")
    /\ UNCHANGED <<on, dev, line, alarm, kicked, until, horizon, limit, wfi>>

\* ... and then the sleepers it reached.
FlushWake(c) ==
    /\ pc[c] = "due"
    /\ IF Idle # {} THEN WakeDue ELSE UNCHANGED kicked
    /\ Goto(c, "run")
    /\ UNCHANGED <<on, dev, line, alarm, until, horizon, limit, wfi>>

-----------------------------------------------------------------------------
(* ParCore::wait *)

\* The kick count, before the line is looked at.
WaitBegin(c) ==
    /\ pc[c] = "run"
    /\ on[c]
    /\ wfi[c]
    /\ c = 0 => horizon > 0
    /\ kicked' = [kicked EXCEPT ![c] = FALSE]
    /\ Goto(c, "sync")
    /\ UNCHANGED <<on, dev, line, alarm, until, horizon, limit, wfi>>

WaitSync(c) ==
    /\ pc[c] = "sync"
    /\ UpdateIrqs(dev, alarm)
    /\ Goto(c, "look")
    /\ UNCHANGED <<on, until, horizon, limit, wfi>>

\* Its line is up: the WFI ends.
WaitAwake(c) ==
    /\ pc[c] = "look"
    /\ line[c]
    /\ wfi' = [wfi EXCEPT ![c] = FALSE]
    /\ Goto(c, "run")
    /\ UNCHANGED <<on, dev, line, alarm, kicked, until, horizon, limit>>

\* The deadline it waits for; core 0's is at most the end of the quantum.
WaitUntil(c) ==
    /\ pc[c] = "look"
    /\ ~line[c]
    /\ limit' = [limit EXCEPT ![c] = horizon]
    /\ until' = [until EXCEPT ![c] = IF c = 0 THEN Min({alarm[c], horizon}) ELSE alarm[c]]
    /\ Goto(c, "count")
    /\ UNCHANGED <<on, dev, line, alarm, kicked, horizon, wfi>>

Count(c) ==
    /\ pc[c] = "count"
    /\ Goto(c, IF Cardinality(Idle) + 1 >= Cardinality(On) THEN "jump" ELSE "loop")
    /\ UNCHANGED <<on, dev, line, alarm, kicked, until, horizon, limit, wfi>>

\* The earliest deadline, up to the horizon.
Earliest(c) == Min({limit[c]} \cup {until[i] : i \in {j \in On : until[j] # NotWaiting}})

Jump(c) ==
    /\ pc[c] = "jump"
    /\ Earliest(c) # Never
    /\ Advance(Earliest(c))
    /\ Goto(c, "jumped")
    /\ UNCHANGED <<on, dev, line, kicked, wfi>>

JumpWake(c) ==
    /\ pc[c] = "jumped"
    /\ WakeDue
    /\ Goto(c, "loop")
    /\ UNCHANGED <<on, dev, line, alarm, until, horizon, limit, wfi>>

\* Nothing can wake a core: core 0 returns Wait::Idle, the others sleep.
JumpNowhere(c) ==
    /\ pc[c] = "jump"
    /\ Earliest(c) = Never
    /\ until' = [until EXCEPT ![c] = IF c = 0 THEN NotWaiting ELSE @]
    /\ Goto(c, IF c = 0 THEN "left" ELSE "loop")
    /\ UNCHANGED <<on, dev, line, alarm, kicked, horizon, limit, wfi>>

\* Seeded fault: wait_until stays.
LeaveUntil(c, woken) ==
    /\ wfi' = [wfi EXCEPT ![c] = ~woken]
    /\ Goto(c, "left")
    /\ UNCHANGED <<on, dev, line, alarm, kicked, until, horizon, limit>>

\* wait returns Woken, or (core 0) Later: the WFI goes on at its next run.
Leave(c, woken) ==
    /\ until' = [until EXCEPT ![c] = NotWaiting]
    /\ wfi' = [wfi EXCEPT ![c] = ~woken]
    /\ Goto(c, "left")
    /\ UNCHANGED <<on, dev, line, alarm, kicked, horizon, limit>>

\* The deadline passed; for core 0 it may have been the end of the quantum.
LoopDue(c) ==
    /\ pc[c] = "loop"
    /\ until[c] = 0
    /\ \E woken \in BOOLEAN : /\ ~woken => c = 0 /\ limit[c] = 0
                              /\ Leave(c, woken)

LoopKicked(c) ==
    /\ pc[c] = "loop"
    /\ until[c] # 0
    /\ kicked[c] \/ line[c]
    /\ Leave(c, TRUE)

\* MAIN_WAIT is over: core 0 looks at the host.
LoopLater(c) ==
    /\ pc[c] = "loop"
    /\ c = 0
    /\ until[c] # 0
    /\ ~kicked[c] /\ ~line[c]
    /\ Leave(c, FALSE)

LoopOn(c) ==
    /\ pc[c] = "loop"
    /\ until[c] # 0
    /\ ~kicked[c] /\ ~line[c]
    /\ Goto(c, "nap")
    /\ UNCHANGED <<on, dev, line, alarm, kicked, until, horizon, limit, wfi>>

\* Under the lock of Slot::sleep, once more.
Nap(c) ==
    /\ pc[c] = "nap"
    /\ Goto(c, IF kicked[c] \/ until[c] = 0 THEN "loop" ELSE "asleep")
    /\ UNCHANGED <<on, dev, line, alarm, kicked, until, horizon, limit, wfi>>

\* Notified, or the nap is over.
Awake(c) ==
    /\ pc[c] = "asleep"
    /\ Goto(c, "loop")
    /\ UNCHANGED <<on, dev, line, alarm, kicked, until, horizon, limit, wfi>>

\* idle.fetch_sub; core 0 returns to the host unless it was woken.
WaitEnd(c) ==
    /\ pc[c] = "left"
    /\ Goto(c, IF wfi[c] THEN "out" ELSE "run")
    /\ UNCHANGED <<on, dev, line, alarm, kicked, until, horizon, limit, wfi>>

-----------------------------------------------------------------------------
(* The host *)

\* The end of core 0's quantum.
RunReturn ==
    /\ pc[0] = "run"
    /\ horizon = 0
    /\ Goto(0, "out")
    /\ UNCHANGED <<on, dev, line, alarm, kicked, until, horizon, limit, wfi>>

\* Machine::run_parallel and its par_sync; while core 0 is off it only looks
\* at the host now and then.
RunParallel(b) ==
    /\ pc[0] \in {"out", "off"}
    /\ horizon' = b
    /\ UpdateIrqs(dev, alarm)
    /\ Goto(0, IF pc[0] = "out" THEN "run" ELSE "off")
    /\ UNCHANGED <<on, until, limit, wfi>>

\* The host's input reaches a device, between two runs.
Input(c) ==
    /\ pc[0] = "out"
    /\ UpdateIrqs([dev EXCEPT ![c] = TRUE], alarm)
    /\ UNCHANGED <<on, until, horizon, limit, wfi, pc>>

-----------------------------------------------------------------------------
Wait(c) ==
    \/ WaitBegin(c) \/ WaitSync(c) \/ WaitAwake(c) \/ WaitUntil(c) \/ Count(c)
    \/ Jump(c) \/ JumpWake(c) \/ JumpNowhere(c)
    \/ LoopDue(c) \/ LoopKicked(c) \/ LoopLater(c) \/ LoopOn(c)
    \/ Nap(c) \/ WaitEnd(c)

Thread(c) ==
    \/ StretchSync(c) \/ Instruction(c) \/ Wfi(c) \/ CpuOff(c) \/ PowerOn(c)
    \/ Flush(c) \/ FlushWake(c)
    \/ \E i \in Core : CpuOn(c, i)
    \/ Wait(c)

Host ==
    \/ RunReturn
    \/ \E b \in 1 .. MaxBudget \cup {Never} : RunParallel(b)

Next ==
    \/ \E c \in Core : Thread(c) \/ Awake(c) \/ Input(c)
    \/ Host

Spec == Init /\ [][Next]_vars

(***************************************************************************)
(* The threads run, and the host runs the machine again and again, in      *)
(* quanta (millions of steps) that core 0 gets to use before the others    *)
(* have spent them.  A nap ends when notified; without, only core 0 counts *)
(* on its being short.                                                     *)
(***************************************************************************)
Fairness ==
    /\ \A c \in Core : WF_vars(Thread(c))
    /\ \A c \in Core : WF_vars(Awake(c) /\ (kicked[c] \/ c = 0))
    /\ SF_vars(LoopLater(0))
    /\ SF_vars(WaitBegin(0))
    /\ WF_vars(Host)

FairSpec == Spec /\ Fairness

-----------------------------------------------------------------------------
\* No wakeup is lost: a core asleep that nobody has kicked has its line low and
\* its deadline ahead, or the core that moved the clock has yet to look at the
\* sleepers (the order of the loads in wait, flush and kick).
NoLostWakeup ==
    \A c \in Core : pc[c] = "asleep" /\ ~kicked[c] =>
        /\ ~line[c]
        /\ until[c] = 0 => \E i \in Core : pc[i] \in {"due", "jumped"}

\* A core not waiting is never taken for one: what it last waited for plays no
\* part in a jump of time (wait_until is cleared before wait returns).
WaitsAreReal ==
    \A c \in Core : until[c] # NotWaiting =>
        on[c] /\ wfi[c] /\ pc[c] \in {"count", "jump", "jumped", "loop", "nap", "asleep"}

\* Who sleeps can be woken, and who does not wait is not counted.
WaitsSound == NoLostWakeup /\ WaitsAreReal

\* A core in WFI with its timer set wakes up, whoever has to move the clock
\* there (wait's jump, flush's wake_due, core 0's return to the host).
DeadlineComes == \A c \in Core : wfi[c] /\ alarm[c] # Never ~> ~wfi[c]

\* It does if core 0 is on for good from some time on: then core 0 is there to
\* jump, or to return to the host at the end of its quantum.
DeadlineComesBootOn == <>[]on[0] => DeadlineComes

\* Time jumps "when every core waits in WFI": the clock does not leap while
\* another core executes, or core 0 is out in the host.
JumpsWhenAllWait ==
    [][\A c \in Core : pc[c] = "jump" /\ pc'[c] = "jumped" /\ Earliest(c) > 0 =>
          \A i \in On \ {c} : wfi[i] /\ pc[i] # "out"]_vars
=============================================================================
