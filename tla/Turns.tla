------------------------------- MODULE Turns -------------------------------
(***************************************************************************)
(* Several cores on one thread (machine/smp.rs, machine.rs run_smp,        *)
(* run_cpu, wait_for_interrupt): one core runs at a time, in turns of at   *)
(* most QUANTUM clock steps, in round robin over the cores that are on.    *)
(* The host runs the machine in quanta of its own, which cut turns and     *)
(* WFIs anywhere.                                                          *)
(*                                                                         *)
(* Clock values are kept as what is left until them, so the clock itself   *)
(* needs no bound.  The network stack's deadline and the conversion        *)
(* between steps and counter ticks are left out.                           *)
(***************************************************************************)
EXTENDS Integers, FiniteSets

CONSTANTS N,         \* cores, at least 2
          Quantum,   \* QUANTUM: the steps of a turn
          MaxBudget, \* largest budget the host gives to Machine::run
          MaxAlarm   \* farthest timer deadline

ASSUME NAssumption == N \in Nat \ {0, 1}
ASSUME QuantumAssumption == Quantum \in Nat \ {0}
ASSUME MaxBudgetAssumption == MaxBudget \in Nat \ {0}
ASSUME MaxAlarmAssumption == MaxAlarm \in Nat \ {0}

Core == 0 .. N - 1

VARIABLES cur,    \* Smp::cur, the running core
          on,     \* Vcpu::on
          wfi,    \* wfi_pending, of the running core and of the parked ones
          turn,   \* steps to Smp::turn_end
          budget, \* steps to the end of the host's quantum
          alarm,  \* steps to each core's timer deadline: 0 is passed
          irq,    \* another interrupt (SGI, device) pending for the core
          wait,   \* Board::host_wait: a disk request only the host completes
          pc,     \* "host", or where Machine::run is
          last    \* the Stop it returned last; "none" once the host went on

NoAlarm == -1

\* The stops the host does not run the machine again after.
Final == {"PowerOff", "Reset", "Unimplemented"}

vars == <<cur, on, wfi, turn, budget, alarm, irq, wait, pc, last>>

Init ==
    /\ cur = 0
    /\ on = [c \in Core |-> c = 0]
    /\ wfi = [c \in Core |-> FALSE]
    /\ turn = Quantum
    /\ budget = 0
    /\ alarm = [c \in Core |-> NoAlarm]
    /\ irq = [c \in Core |-> FALSE]
    /\ wait = FALSE
    /\ pc = "host"
    /\ last = "none"

-----------------------------------------------------------------------------
\* Virt::irq_line_of, the lines brought up to date (sync_irqs).
Line(c) == irq[c] \/ alarm[c] = 0

\* GenericTimer::next_deadline.
Deadline(c) == alarm[c] > 0

\* Where run_smp has run_cpu stop: the end of the turn or of the quantum.
Limit == IF budget < turn THEN budget ELSE turn

\* The clock goes on by k steps.
Advance(k) ==
    /\ turn' = turn - k
    /\ budget' = budget - k
    /\ alarm' = [c \in Core |-> IF alarm[c] > k THEN alarm[c] - k
                                ELSE IF alarm[c] = NoAlarm THEN NoAlarm ELSE 0]

Stop(s) == pc' = "host" /\ last' = s

Wait(b) == wfi' = [wfi EXCEPT ![cur] = b]

-----------------------------------------------------------------------------
(* The host *)

\* Machine::run.
Run(b) ==
    /\ pc = "host"
    /\ last \notin Final
    /\ budget' = b
    /\ pc' = "loop"
    /\ last' = "none"
    /\ UNCHANGED <<cur, on, wfi, turn, alarm, irq, wait>>

\* An input between two runs interrupts a core.
Input(c) ==
    /\ pc = "host"
    /\ last \notin Final
    /\ irq' = [irq EXCEPT ![c] = TRUE]
    /\ last' = "none"
    /\ UNCHANGED <<cur, on, wfi, turn, budget, alarm, wait, pc>>

\* The host completes the disk request.
Complete ==
    /\ pc = "host"
    /\ wait
    /\ wait' = FALSE
    /\ UNCHANGED <<cur, on, wfi, turn, budget, alarm, irq, pc, last>>

-----------------------------------------------------------------------------
(* run_smp *)

BudgetSpent ==
    /\ pc = "loop"
    /\ budget = 0
    /\ Stop("Budget")
    /\ UNCHANGED <<cur, on, wfi, turn, budget, alarm, irq, wait>>

TurnOver == turn = 0 \/ ~on[cur]

\* Smp::next_on: the first core that is on, from the one after cur round to
\* cur itself.
After(d) == (cur + d) % N

IsNextOn(d) == on[After(d)] /\ \A e \in 1 .. d - 1 : ~on[After(e)]

AllOff ==
    /\ pc = "loop"
    /\ budget > 0
    /\ TurnOver
    /\ \A c \in Core : ~on[c]
    /\ Stop("PowerOff")
    /\ UNCHANGED <<cur, on, wfi, turn, budget, alarm, irq, wait>>

\* Seeded fault: the search starts at core 0.
SwitchToFirst ==
    /\ pc = "loop"
    /\ budget > 0
    /\ TurnOver
    /\ \E c \in Core : on[c] /\ (\A e \in 0 .. c - 1 : ~on[e]) /\ cur' = c
    /\ turn' = Quantum
    /\ pc' = "enter"
    /\ UNCHANGED <<on, wfi, budget, alarm, irq, wait, last>>

\* switch_to.
SwitchTo ==
    /\ pc = "loop"
    /\ budget > 0
    /\ TurnOver
    /\ \E d \in 1 .. N : IsNextOn(d) /\ cur' = After(d)
    /\ turn' = Quantum
    /\ pc' = "enter"
    /\ UNCHANGED <<on, wfi, budget, alarm, irq, wait, last>>

Continue ==
    /\ pc = "loop"
    /\ budget > 0
    /\ ~TurnOver
    /\ pc' = "enter"
    /\ UNCHANGED <<cur, on, wfi, turn, budget, alarm, irq, wait, last>>

-----------------------------------------------------------------------------
(* run_cpu *)

\* A pending WFI goes on, unless the machine is blocked on a disk.
Enter ==
    /\ pc = "enter"
    /\ IF wait THEN Stop("Blocked") /\ UNCHANGED wfi
       ELSE pc' = (IF wfi[cur] THEN "wfi" ELSE "cpu") /\ Wait(FALSE) /\ UNCHANGED last
    /\ UNCHANGED <<cur, on, turn, budget, alarm, irq, wait>>

LimitReached ==
    /\ pc = "cpu"
    /\ Limit = 0
    /\ pc' = "loop"
    /\ UNCHANGED <<cur, on, wfi, turn, budget, alarm, irq, wait, last>>

\* A disk request the host must complete, seen before the next instruction.
BlockedInLoop ==
    /\ pc = "cpu"
    /\ Limit > 0
    /\ wait
    /\ Stop("Blocked")
    /\ UNCHANGED <<cur, on, wfi, turn, budget, alarm, irq, wait>>

\* An instruction is about to execute; the clock counts it.
Instruction ==
    /\ pc = "cpu"
    /\ Limit > 0
    /\ ~wait

\* An instruction with no effect on the others, an interrupt taken, or one
\* that starts a disk request.
Execute ==
    /\ Instruction
    /\ Advance(1)
    /\ irq' \in {irq, [irq EXCEPT ![cur] = FALSE]}
    /\ wait' \in BOOLEAN
    /\ UNCHANGED <<cur, on, wfi, pc, last>>

\* An SGI, or a device that interrupts core i.
Send(i) ==
    /\ Instruction
    /\ Advance(1)
    /\ irq' = [irq EXCEPT ![i] = TRUE]
    /\ UNCHANGED <<cur, on, wfi, wait, pc, last>>

\* The core programs its timer.
SetTimer(a) ==
    /\ Instruction
    /\ turn' = turn - 1
    /\ budget' = budget - 1
    /\ alarm' = [c \in Core |-> IF c = cur THEN a
                                ELSE IF alarm[c] > 0 THEN alarm[c] - 1 ELSE alarm[c]]
    /\ UNCHANGED <<cur, on, wfi, irq, wait, pc, last>>

\* WFE or YIELD (Exit::Yield): the turn ends at this clock value.
Yield ==
    /\ Instruction
    /\ budget' = budget - 1
    /\ turn' = 0
    /\ alarm' = [c \in Core |-> IF alarm[c] > 0 THEN alarm[c] - 1 ELSE alarm[c]]
    /\ pc' = "loop"
    /\ UNCHANGED <<cur, on, wfi, irq, wait, last>>

\* CPU_OFF (Exit::Off).
CpuOff ==
    /\ Instruction
    /\ budget' = budget - 1
    /\ turn' = 0
    /\ alarm' = [c \in Core |-> IF alarm[c] > 0 THEN alarm[c] - 1 ELSE alarm[c]]
    /\ on' = [on EXCEPT ![cur] = FALSE]
    /\ pc' = "loop"
    /\ UNCHANGED <<cur, wfi, irq, wait, last>>

\* psci_cpu_on: a core that is off, in its reset state.
CpuOn(i) ==
    /\ Instruction
    /\ Advance(1)
    /\ on' = [on EXCEPT ![i] = TRUE]
    /\ wfi' = [wfi EXCEPT ![i] = @ /\ on[i]]
    /\ UNCHANGED <<cur, irq, wait, pc, last>>

\* SYSTEM_OFF, SYSTEM_RESET.
SystemOff ==
    /\ Instruction
    /\ Advance(1)
    /\ \E s \in {"PowerOff", "Reset"} : Stop(s)
    /\ UNCHANGED <<cur, on, wfi, irq, wait>>

\* SysEvent::Unimplemented: not executed.
Unimplemented ==
    /\ Instruction
    /\ Stop("Unimplemented")
    /\ UNCHANGED <<cur, on, wfi, turn, budget, alarm, irq, wait>>

\* sync_irqs in wait_for_interrupt runs the devices if the network stack is
\* due, and may find a disk request not yet notified.
Wfi ==
    /\ Instruction
    /\ Advance(1)
    /\ wait' \in BOOLEAN
    /\ pc' = "wfi"
    /\ UNCHANGED <<cur, on, wfi, irq, last>>

-----------------------------------------------------------------------------
(* wait_for_interrupt *)

\* Seeded fault: a parked core with an interrupt counts as idle.
OthersWait == \A c \in Core \ {cur} : on[c] => wfi[c] /\ ~Deadline(c)

\* others_idle.
OthersIdle == \A c \in Core \ {cur} : on[c] => wfi[c] /\ ~Line(c) /\ ~Deadline(c)

Quiet == pc = "wfi" /\ ~wait /\ ~Line(cur)

WfiBlocked ==
    /\ pc = "wfi"
    /\ wait
    /\ Wait(TRUE)
    /\ Stop("Blocked")
    /\ UNCHANGED <<cur, on, turn, budget, alarm, irq, wait>>

WfiEnds ==
    /\ pc = "wfi"
    /\ ~wait
    /\ Line(cur)
    /\ pc' = "cpu"
    /\ UNCHANGED <<cur, on, wfi, turn, budget, alarm, irq, wait, last>>

\* Time jumps to the core's deadline, within the quantum and the turn.
WfiJump ==
    /\ Quiet
    /\ Deadline(cur)
    /\ alarm[cur] <= Limit
    /\ Advance(alarm[cur])
    /\ pc' = "cpu"
    /\ UNCHANGED <<cur, on, wfi, irq, wait, last>>

\* Seeded fault: a WFI cut by the end of the quantum or of the turn is over.
WfiDropped ==
    /\ Quiet
    /\ IF Deadline(cur) THEN alarm[cur] > Limit ELSE ~OthersIdle
    /\ Advance(Limit)
    /\ pc' = "loop"
    /\ UNCHANGED <<cur, on, wfi, irq, wait, last>>

\* The end of the quantum or of the turn comes first, or others may run.
WfiCut ==
    /\ Quiet
    /\ IF Deadline(cur) THEN alarm[cur] > Limit ELSE ~OthersIdle
    /\ Advance(Limit)
    /\ Wait(TRUE)
    /\ pc' = "loop"
    /\ UNCHANGED <<cur, on, irq, wait, last>>

WfiIdle ==
    /\ Quiet
    /\ ~Deadline(cur)
    /\ OthersIdle
    /\ Stop("Idle")
    /\ UNCHANGED <<cur, on, wfi, turn, budget, alarm, irq, wait>>

-----------------------------------------------------------------------------
Guest ==
    \/ Execute \/ Yield \/ CpuOff \/ SystemOff \/ Unimplemented \/ Wfi
    \/ \E i \in Core : Send(i) \/ CpuOn(i)
    \/ \E a \in NoAlarm .. MaxAlarm : SetTimer(a)

Machine ==
    \/ BudgetSpent \/ AllOff \/ SwitchTo \/ Continue
    \/ Enter \/ LimitReached \/ BlockedInLoop \/ Guest
    \/ WfiBlocked \/ WfiEnds \/ WfiJump \/ WfiCut \/ WfiIdle

RunAgain == \E b \in 1 .. MaxBudget : Run(b)

Next == Machine \/ RunAgain \/ Complete \/ \E c \in Core : Input(c)

Spec == Init /\ [][Next]_vars

\* The thread runs what it was given, the host gives it the next quantum and
\* completes the disk requests.
Fairness == WF_vars(Machine) /\ WF_vars(RunAgain) /\ SF_vars(Complete)

FairSpec == Spec /\ Fairness

-----------------------------------------------------------------------------
Halted == last \in Final

Waiting(c) == wfi[c] \/ (c = cur /\ pc = "wfi")

\* machine.rs, wait_for_interrupt: "the machine is idle only when every core
\* that is on waits with no interrupt and no deadline".
IdleIsIdle ==
    last = "Idle" => \A c \in Core : on[c] => /\ ~Line(c)
                                              /\ ~Deadline(c)
                                              /\ c = cur \/ wfi[c]

\* A WFI cut short by the end of the quantum, by the end of the turn or by a
\* disk goes on where it was (wfi_pending): it ends with an interrupt for its
\* core, unless the machine is idle or the core is turned on afresh.
WfiSurvivesCuts ==
    [][\A c \in Core : Waiting(c) /\ ~Waiting(c)'
          => Line(c)' \/ last' = "Idle" \/ (~on[c] /\ on'[c])]_vars

\* machine.rs, wait_for_interrupt: "Like a real CPU, WFI ends only with an
\* interrupt".
WfiEndsWithInterrupt ==
    [][\A c \in Core : Waiting(c) /\ ~Waiting(c)'
          => Line(c)' \/ (~on[c] /\ on'[c])]_vars

\* snapshot.rs, Machine::save: "it can be called between any two
\* Machine::run"; Smp::restore refuses a file whose running core is off.  With
\* a core on, the file of a machine between two runs can be restored.
SavedRestores == pc = "host" /\ ~Halted /\ (\E c \in Core : on[c]) => on[cur]

\* Round robin: a core that is on gets its turn, whatever the others do.
TurnComes == \A c \in Core : on[c] ~> (cur = c /\ pc = "enter") \/ ~on[c] \/ Halted

\* An interrupt for a core that waits wakes it.
InterruptWakes ==
    \A c \in Core : Waiting(c) /\ on[c] /\ Line(c) ~> ~Waiting(c) \/ ~on[c] \/ Halted
=============================================================================
