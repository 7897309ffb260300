------------------------------- MODULE Replay -------------------------------
(***************************************************************************)
(* Record and replay (vetro-machine machine/record.rs over machine.rs's    *)
(* run, one core).  The guest is a program chosen as it is executed; what  *)
(* it has noticed, in order and with the step, stands for its registers    *)
(* and memory.  The host records it under any quanta, inputs and disk      *)
(* delays, and replays the log from its start or a keyframe under others.  *)
(***************************************************************************)
EXTENDS Naturals, Sequences, FiniteSets

CONSTANTS
    RpEnd,        \* the longest recording, in steps
    RpInputs,     \* most inputs of a recording
    RpBudgets,    \* the quanta the host gives
    RpNap,        \* how far ahead the guest sets its timer
    RpEvery,      \* keyframe_every
    RpOps,        \* the guest's instructions, among Instructions
    RpAgain,      \* the host runs an idle machine again without an input
    RpCut         \* the host stops a recording while a disk is waited for

VARIABLES
    rpProg,     \* the instruction executed at each step
    rpM,        \* the machine
    rpMode,     \* "rec", "rep", "over"
    rpPc,       \* "host", "enter", "loop", "stop", "events"
    rpQuantum,  \* the end of run_quantum
    rpBudget,   \* the end of run_replay
    rpStop,     \* what run_quantum returned last
    rpLog,      \* Log
    rpDeferred, \* Recorder::deferred
    rpKey,      \* Recorder::next_keyframe
    rpNext,     \* Replayer::next
    rpStatus    \* ReplayStatus

rpVars == <<rpProg, rpM, rpMode, rpPc, rpQuantum, rpBudget, rpStop, rpLog,
            rpDeferred, rpKey, rpNext, rpStatus>>

Instructions == {"op", "nap", "wfi", "disk", "off"}
Unknown == "?"
NoAlarm == RpEnd + RpNap + 1

RpMax(a, b) == IF a > b THEN a ELSE b
RpMin(a, b) == IF a < b THEN a ELSE b

\* The state a log starts from.
Booted == [steps |-> 0, seen |-> <<>>, data |-> <<>>, irq |-> FALSE, alarm |-> NoAlarm,
           disk |-> "none", wfi |-> FALSE]

RpInit ==
    /\ rpProg = [s \in 0 .. RpEnd - 1 |-> Unknown]
    /\ rpM = Booted
    /\ rpMode = "rec" /\ rpPc = "host" /\ rpStop = "none"
    /\ rpQuantum = 0 /\ rpBudget = 0
    /\ rpLog = [events |-> <<>>, keyframes |-> <<Booted>>, end |-> Booted]
    /\ rpDeferred = <<>> /\ rpKey = RpEvery
    /\ rpNext = 1 /\ rpStatus = "none"

-----------------------------------------------------------------------------
\* apply, to inputs in order: bytes for the UART, whose interrupt is off, or
\* keys, which raise theirs.
IsByte(i) == i # "key"
Apply(m, is) ==
    [m EXCEPT !.irq = @ \/ \E j \in 1 .. Len(is) : ~IsByte(is[j]),
              !.data = @ \o SelectSeq(is, IsByte)]

\* cpu_hash, and digest: the pending WFI is in neither.
CpuHash(m) == m.seen
Digest(m) == [m EXCEPT !.wfi = FALSE]

\* sync_irqs: the timer that is due, and the disk, which is ready or not.
SyncIrqs(m, ready) ==
    LET t == IF m.steps >= m.alarm THEN [m EXCEPT !.irq = TRUE, !.alarm = NoAlarm] ELSE m
    IN  IF t.disk = "none" THEN t
        ELSE IF ready THEN [t EXCEPT !.disk = "none", !.irq = TRUE]
        ELSE [t EXCEPT !.disk = "pending"]

Blocked(m) == m.disk = "pending"

Continue(m) == rpM' = m /\ rpPc' = "loop" /\ UNCHANGED rpStop
Return(m, stop) == rpM' = m /\ rpPc' = "stop" /\ rpStop' = stop

\* wait_for_interrupt, after its sync_irqs.
Wait(m, end) ==
    IF Blocked(m) THEN Return([m EXCEPT !.wfi = TRUE], "Blocked")
    ELSE IF m.irq THEN Continue(m)
    ELSE IF m.alarm = NoAlarm THEN Return(m, "Idle")
    ELSE IF m.alarm > end
         THEN Return([m EXCEPT !.steps = RpMax(@, end), !.wfi = TRUE], "Budget")
         ELSE Continue(SyncIrqs([m EXCEPT !.steps = RpMax(@, m.alarm)], FALSE))

\* run_cpu: up to its loop.
Enter(ready) ==
    /\ rpPc = "enter"
    /\ LET m == SyncIrqs(rpM, ready)
       IN  IF Blocked(m) THEN Return(m, "Blocked")
           ELSE IF m.wfi THEN Wait([m EXCEPT !.wfi = FALSE], rpQuantum)
           ELSE Continue(m)
    /\ UNCHANGED <<rpProg, rpMode, rpQuantum, rpBudget, rpLog, rpDeferred, rpKey, rpNext, rpStatus>>

\* step_system: an interrupt is taken in place of the instruction; an
\* instruction that reads the UART takes what is there.
Executed(m, op) ==
    LET n == [m EXCEPT !.steps = @ + 1]
    IN  IF m.irq THEN [n EXCEPT !.irq = FALSE, !.seen = Append(@, <<m.steps, "irq">>)]
        ELSE CASE op = "nap" -> [n EXCEPT !.alarm = n.steps + RpNap]
               [] op = "disk" -> [n EXCEPT !.disk = "asked"]
               [] op = "op" /\ m.data # <<>> ->
                    [n EXCEPT !.data = <<>>, !.seen = Append(@, <<m.steps, m.data>>)]
               [] OTHER -> n

\* One iteration of run_cpu's loop.
Loop(ready) ==
    /\ rpPc = "loop"
    /\ LET m == SyncIrqs(rpM, ready)
       IN  IF m.steps >= rpQuantum THEN Return(rpM, "Budget") /\ UNCHANGED rpProg
           ELSE IF Blocked(m) THEN Return(m, "Blocked") /\ UNCHANGED rpProg
           ELSE IF m.irq THEN Continue(Executed(m, Unknown)) /\ UNCHANGED rpProg
           ELSE \E op \in RpOps :
                  /\ rpProg[m.steps] \in {Unknown, op}
                  /\ rpProg' = [rpProg EXCEPT ![m.steps] = op]
                  /\ LET n == Executed(m, op)
                     IN  CASE op \in {"nap", "wfi"} -> Wait(n, rpQuantum)
                           [] op = "off" -> Return(n, "PowerOff")
                           [] OTHER -> Continue(n)
    /\ UNCHANGED <<rpMode, rpQuantum, rpBudget, rpLog, rpDeferred, rpKey, rpNext, rpStatus>>

-----------------------------------------------------------------------------
\* log_event, for inputs that come together: an input changes no register.
Logged(log, m, is) ==
    [log EXCEPT !.events =
        @ \o [j \in 1 .. Len(is) |-> [step |-> m.steps, cpu |-> CpuHash(m), input |-> is[j]]]]

\* input, while recording: kept for later while the machine waits for a disk.
RpInput(i) ==
    /\ rpMode = "rec" /\ rpPc = "host" /\ rpStop # "PowerOff"
    /\ Len(rpLog.events) + Len(rpDeferred) < RpInputs
    /\ IF Blocked(rpM)
       THEN rpDeferred' = Append(rpDeferred, i) /\ UNCHANGED <<rpLog, rpM>>
       ELSE rpLog' = Logged(rpLog, rpM, <<i>>) /\ rpM' = Apply(rpM, <<i>>) /\ UNCHANGED rpDeferred
    /\ rpStop' = "none"
    /\ UNCHANGED <<rpProg, rpMode, rpPc, rpQuantum, rpBudget, rpKey, rpNext, rpStatus>>

\* run, while recording.
Run(b) ==
    /\ rpMode = "rec" /\ rpPc = "host"
    /\ rpStop # "PowerOff" /\ (rpStop = "Idle" => RpAgain)
    /\ rpM.steps + b <= RpEnd
    /\ rpQuantum' = rpM.steps + b
    /\ rpPc' = "enter"
    /\ UNCHANGED <<rpProg, rpM, rpMode, rpBudget, rpStop, rpLog, rpDeferred, rpKey, rpNext, rpStatus>>

\* The events of an instant come after its keyframe.
Due ==
    /\ rpM.steps >= rpKey
    /\ rpLog.events = <<>> \/ rpLog.events[Len(rpLog.events)].step < rpM.steps

\* after_quantum: keyframe, then the inputs that were kept.
AfterQuantum ==
    /\ rpMode = "rec" /\ rpPc = "stop"
    /\ rpPc' = "host"
    /\ IF Blocked(rpM) THEN UNCHANGED <<rpLog, rpM, rpDeferred, rpKey>>
       ELSE LET log == IF Due THEN [rpLog EXCEPT !.keyframes = Append(@, rpM)] ELSE rpLog
            IN  /\ rpLog' = Logged(log, rpM, rpDeferred)
                /\ rpM' = Apply(rpM, rpDeferred)
                /\ rpDeferred' = <<>>
                /\ rpKey' = IF Due THEN rpM.steps + RpEvery ELSE rpKey
    /\ rpStop' = IF rpStop = "Idle" /\ rpDeferred # <<>> THEN "none" ELSE rpStop
    /\ UNCHANGED <<rpProg, rpMode, rpQuantum, rpBudget, rpNext, rpStatus>>

-----------------------------------------------------------------------------
\* Seeded fault: the events of the keyframe's own step are passed over.
FirstEventAfter(k) ==
    Cardinality({j \in 1 .. Len(rpLog.events) : rpLog.events[j].step <= k.steps}) + 1

\* replay_from: the first event that is not before the keyframe.
FirstEvent(k) ==
    Cardinality({j \in 1 .. Len(rpLog.events) : rpLog.events[j].step < k.steps}) + 1

\* stop_recording, then start_replay or replay_from on a machine of its own.
StopRecording(k) ==
    /\ rpMode = "rec" /\ rpPc = "host"
    /\ Blocked(rpM) => RpCut
    /\ rpLog' = [rpLog EXCEPT !.end = Digest(rpM)]
    /\ rpMode' = "rep"
    /\ rpM' = rpLog.keyframes[k]
    /\ rpNext' = FirstEvent(rpLog.keyframes[k])
    /\ rpStatus' = "running"
    /\ UNCHANGED <<rpProg, rpPc, rpQuantum, rpBudget, rpStop, rpDeferred, rpKey>>

\* run, while replaying; a host that ran into a disk runs again.
RunReplay(b) ==
    /\ rpMode = "rep" /\ rpPc = "host"
    /\ rpBudget' = rpM.steps + b
    /\ rpPc' = "events"
    /\ UNCHANGED <<rpProg, rpM, rpMode, rpQuantum, rpStop, rpLog, rpDeferred, rpKey, rpNext, rpStatus>>

\* diverge and finish_replay.
Over(status) == rpStatus' = status /\ rpMode' = "over" /\ rpPc' = "host"

Compared == IF Digest(rpM) = rpLog.end THEN "finished" ELSE "diverged"

\* run_replay's loop up to run_quantum: the events of this instant, the end of
\* the recording, the end of the budget, or the next quantum.
Events ==
    /\ rpMode = "rep" /\ rpPc = "events"
    /\ LET more == rpNext <= Len(rpLog.events)
           e == rpLog.events[rpNext]
           last == rpLog.end.steps
       IN  IF more /\ e.step <= rpM.steps
           THEN IF e.step < rpM.steps \/ e.cpu # CpuHash(rpM)
                THEN Over("diverged") /\ UNCHANGED <<rpM, rpNext, rpQuantum>>
                ELSE /\ rpM' = Apply(rpM, <<e.input>>) /\ rpNext' = rpNext + 1
                     /\ UNCHANGED <<rpStatus, rpMode, rpPc, rpQuantum>>
           ELSE /\ UNCHANGED <<rpM, rpNext>>
                /\ IF ~more /\ rpM.steps = last THEN Over(Compared) /\ UNCHANGED rpQuantum
                   ELSE IF rpM.steps > last THEN Over("diverged") /\ UNCHANGED rpQuantum
                   ELSE IF rpM.steps >= rpBudget
                   THEN rpPc' = "host" /\ UNCHANGED <<rpStatus, rpMode, rpQuantum>>
                   ELSE /\ rpPc' = "enter"
                        /\ rpQuantum' = RpMin(rpBudget, IF more THEN e.step ELSE last)
                        /\ UNCHANGED <<rpStatus, rpMode>>
    /\ UNCHANGED <<rpProg, rpBudget, rpStop, rpLog, rpDeferred, rpKey>>

\* run_replay, after run_quantum.
Stopped ==
    /\ rpMode = "rep" /\ rpPc = "stop"
    /\ LET more == rpNext <= Len(rpLog.events)
           step == IF more THEN rpLog.events[rpNext].step ELSE rpLog.end.steps
       IN  CASE rpStop = "Budget" -> rpPc' = "events" /\ UNCHANGED <<rpStatus, rpMode>>
             [] rpStop = "Blocked" -> rpPc' = "host" /\ UNCHANGED <<rpStatus, rpMode>>
             [] more /\ step = rpM.steps /\ rpStop = "Idle" ->
                    rpPc' = "events" /\ UNCHANGED <<rpStatus, rpMode>>
             [] ~more /\ step = rpM.steps -> Over(Compared)
             [] OTHER -> Over("diverged")
    /\ UNCHANGED <<rpProg, rpM, rpQuantum, rpBudget, rpStop, rpLog, rpDeferred, rpKey, rpNext>>

RpNext ==
    \/ \E ready \in BOOLEAN : Enter(ready) \/ Loop(ready)
    \/ \E i \in {"byte", "key"} : RpInput(i)
    \/ \E b \in RpBudgets : Run(b) \/ RunReplay(b)
    \/ AfterQuantum
    \/ \E k \in 1 .. Len(rpLog.keyframes) : StopRecording(k)
    \/ Events \/ Stopped

-----------------------------------------------------------------------------
\* A recording replays: under other quanta and disk delays, from its start or
\* any keyframe, the replay passes every event and ends in the recorded state
\* (machine/record.rs: "an input applied between two quanta at the same
\* instruction number gives the same result whatever the host's quantum").
RpReplays == rpStatus # "diverged"
=============================================================================
