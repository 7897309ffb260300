---------------------------- MODULE TurnsProofs ----------------------------
(***************************************************************************)
(* Several cores on one thread: what Stop::Idle says and that a WFI is     *)
(* never dropped, for every number of cores, turn, quantum and deadline.   *)
(***************************************************************************)
EXTENDS Turns, TLAPS

TypeOK ==
    /\ cur \in Core
    /\ on \in [Core -> BOOLEAN]
    /\ wfi \in [Core -> BOOLEAN]
    /\ turn \in Nat
    /\ budget \in Nat
    /\ alarm \in [Core -> Nat \cup {NoAlarm}]
    /\ irq \in [Core -> BOOLEAN]
    /\ wait \in BOOLEAN

\* Machine::run returned Idle: the host has not gone on since, and the machine
\* is as it was.
IdleInHost == last = "Idle" => pc = "host"

\* run_cpu takes wfi_pending of the running core as it enters, and sets it only
\* as it leaves.
OneWfi == pc \in {"cpu", "wfi"} => ~wfi[cur]

IInv == TypeOK /\ IdleInHost /\ OneWfi /\ IdleIsIdle

\* A remainder is within the cores.
LEMMA AfterIsCore == ASSUME TypeOK, NEW d \in 1 .. N PROVE After(d) \in Core
<1>1. cur + d \in Nat /\ N \in Nat /\ N > 0
  BY NAssumption DEF TypeOK, Core
<1>2. \A a \in Nat, n \in Nat : n > 0 => a % n \in 0 .. n - 1
  OBVIOUS
<1> QED
  BY <1>1, <1>2 DEF After, Core

\* The clock goes on within the turn and the budget.
LEMMA AdvanceTypes ==
    ASSUME TypeOK, NEW k \in Nat, k <= turn, k <= budget, Advance(k)
    PROVE  turn' \in Nat /\ budget' \in Nat /\ alarm' \in [Core -> Nat \cup {NoAlarm}]
BY DEF TypeOK, Advance, NoAlarm

\* An instruction executes within the turn and the quantum.
LEMMA InstructionLimit == ASSUME TypeOK, Instruction PROVE turn >= 1 /\ budget >= 1
BY DEF TypeOK, Instruction, Limit

\* A step that counts one clock step keeps the clock's types.
LEMMA TickTypes ==
    ASSUME TypeOK, Instruction,
           budget' = budget - 1, turn' \in {0, turn - 1},
           alarm' = [c \in Core |-> IF alarm[c] > 0 THEN alarm[c] - 1 ELSE alarm[c]]
    PROVE  turn' \in Nat /\ budget' \in Nat /\ alarm' \in [Core -> Nat \cup {NoAlarm}]
BY InstructionLimit DEF TypeOK, NoAlarm

-----------------------------------------------------------------------------
\* Core 0 is on, nothing has run.
LEMMA InitInv == Init => IInv
<1> SUFFICES ASSUME Init PROVE IInv
  OBVIOUS
<1>1. TypeOK
  <2>1. /\ on \in [Core -> BOOLEAN] /\ wfi \in [Core -> BOOLEAN] /\ irq \in [Core -> BOOLEAN]
        /\ wait \in BOOLEAN
    BY Zenon DEF Init
  <2>2. cur \in Core /\ turn \in Nat /\ budget \in Nat /\ alarm \in [Core -> Nat \cup {NoAlarm}]
    BY NAssumption, QuantumAssumption DEF Init, Core
  <2> QED
    BY <2>1, <2>2 DEF TypeOK
<1>2. IdleInHost /\ OneWfi /\ IdleIsIdle
  BY DEF Init, IdleInHost, OneWfi, IdleIsIdle
<1> QED
  BY <1>1, <1>2 DEF IInv

\* The host's steps.
LEMMA HostInv ==
    ASSUME IInv, RunAgain \/ Complete \/ \E c \in Core : Input(c)
    PROVE  IInv'
<1> USE DEF IInv
<1>1. CASE RunAgain
  BY <1>1, MaxBudgetAssumption DEF RunAgain, Run, TypeOK, IdleInHost, OneWfi, IdleIsIdle
<1>2. CASE Complete
  <2>1. UNCHANGED <<cur, on, wfi, turn, budget, alarm, irq, pc, last>> /\ wait' \in BOOLEAN
    BY <1>2, Zenon DEF Complete
  <2> QED
    BY <2>1 DEF TypeOK, IdleInHost, OneWfi, IdleIsIdle, Line, Deadline
<1>3. ASSUME NEW c \in Core, Input(c) PROVE IInv'
  <2>1. /\ UNCHANGED <<cur, on, wfi, turn, budget, alarm, wait, pc>> /\ pc = "host"
        /\ last' = "none"
    BY <1>3 DEF Input
  <2>2. irq' \in [Core -> BOOLEAN]
    BY <1>3, Zenon DEF Input, TypeOK
  <2> QED
    BY <2>1, <2>2 DEF TypeOK, IdleInHost, OneWfi, IdleIsIdle
<1> QED
  BY <1>1, <1>2, <1>3

\* run_smp, and run_cpu up to the next instruction.
LEMMA LoopInv ==
    ASSUME IInv,
           BudgetSpent \/ AllOff \/ SwitchTo \/ Continue \/ Enter \/ LimitReached \/ BlockedInLoop
    PROVE  IInv'
<1> USE DEF IInv
<1>1. /\ UNCHANGED <<on, budget, alarm, irq, wait>> /\ pc \in {"loop", "enter", "cpu"}
      /\ last' # "Idle"
  BY DEF BudgetSpent, AllOff, SwitchTo, Continue, Enter, LimitReached, BlockedInLoop, Stop, IdleInHost
<1>2. cur' \in Core /\ turn' \in Nat
  <2>1. CASE SwitchTo
    BY <2>1, AfterIsCore, QuantumAssumption DEF SwitchTo
  <2>2. CASE BudgetSpent \/ AllOff \/ Continue \/ Enter \/ LimitReached \/ BlockedInLoop
    BY <2>2 DEF BudgetSpent, AllOff, Continue, Enter, LimitReached, BlockedInLoop, TypeOK
  <2> QED
    BY <2>1, <2>2
<1>3. wfi' \in [Core -> BOOLEAN]
  <2>1. wfi' = wfi \/ wfi' = [wfi EXCEPT ![cur] = FALSE]
    BY DEF BudgetSpent, AllOff, SwitchTo, Continue, Enter, LimitReached, BlockedInLoop, Wait
  <2> QED
    BY <2>1, Zenon DEF TypeOK
<1>4. OneWfi'
  BY DEF BudgetSpent, AllOff, SwitchTo, Continue, Enter, LimitReached, BlockedInLoop, Stop, Wait,
         OneWfi, TypeOK
<1>5. TypeOK'
  BY <1>1, <1>2, <1>3 DEF TypeOK
<1> QED
  BY <1>1, <1>4, <1>5 DEF IdleInHost, IdleIsIdle

\* The instructions.
LEMMA GuestInv == ASSUME IInv, Guest PROVE IInv'
<1> USE DEF IInv
<1>0. Instruction /\ pc = "cpu" /\ UNCHANGED cur
  BY DEF Guest, Execute, Send, SetTimer, Yield, CpuOff, CpuOn, SystemOff, Unimplemented, Wfi,
         Instruction
<1>1. last' # "Idle"
  BY <1>0 DEF Guest, Execute, Send, SetTimer, Yield, CpuOff, CpuOn, SystemOff, Unimplemented, Wfi,
              Stop, IdleInHost
<1>2. turn' \in Nat /\ budget' \in Nat /\ alarm' \in [Core -> Nat \cup {NoAlarm}]
  <2>1. CASE Advance(1)
    BY <1>0, <2>1, InstructionLimit, AdvanceTypes DEF TypeOK
  <2>2. CASE Yield \/ CpuOff
    BY <2>2, <1>0, TickTypes DEF Yield, CpuOff
  <2>3. CASE Unimplemented
    BY <2>3 DEF Unimplemented, TypeOK
  <2>4. ASSUME NEW a \in NoAlarm .. MaxAlarm, SetTimer(a)
        PROVE  turn' \in Nat /\ budget' \in Nat /\ alarm' \in [Core -> Nat \cup {NoAlarm}]
    BY <1>0, <2>4, InstructionLimit, MaxAlarmAssumption DEF SetTimer, TypeOK, NoAlarm
  <2> QED
    BY <2>1, <2>2, <2>3, <2>4 DEF Guest, Execute, Send, CpuOn, SystemOff, Wfi
<1>3. /\ on' \in [Core -> BOOLEAN] /\ wfi' \in [Core -> BOOLEAN]
      /\ irq' \in [Core -> BOOLEAN] /\ wait' \in BOOLEAN
  <2>1. CASE Execute \/ Yield \/ CpuOff
    BY <2>1, Zenon DEF Execute, Yield, CpuOff, TypeOK
  <2>2. CASE SystemOff \/ Unimplemented \/ Wfi
    BY <2>2, Zenon DEF SystemOff, Unimplemented, Wfi, TypeOK
  <2>3. ASSUME NEW i \in Core, Send(i) \/ CpuOn(i)
        PROVE  /\ on' \in [Core -> BOOLEAN] /\ wfi' \in [Core -> BOOLEAN]
               /\ irq' \in [Core -> BOOLEAN] /\ wait' \in BOOLEAN
    BY <2>3, Zenon DEF Send, CpuOn, TypeOK
  <2>4. ASSUME NEW a \in NoAlarm .. MaxAlarm, SetTimer(a)
        PROVE  UNCHANGED <<on, wfi, irq, wait>>
    BY <2>4 DEF SetTimer
  <2> QED
    BY <2>1, <2>2, <2>3, <2>4 DEF Guest, TypeOK
<1>4. TypeOK'
  BY <1>0, <1>2, <1>3 DEF TypeOK
<1>5. OneWfi'
  <2>1. wfi'[cur] => wfi[cur]
    <3>1. CASE \E i \in Core : CpuOn(i)
      BY <3>1 DEF CpuOn, TypeOK
    <3>2. CASE ~ \E i \in Core : CpuOn(i)
      BY <3>2 DEF Guest, Execute, Send, SetTimer, Yield, CpuOff, SystemOff, Unimplemented, Wfi
    <3> QED
      BY <3>1, <3>2
  <2> QED
    BY <1>0, <2>1 DEF OneWfi
<1> QED
  BY <1>1, <1>4, <1>5 DEF IdleInHost, IdleIsIdle

\* wait_for_interrupt: it returns Idle only where others_idle says so.
LEMMA WaitInv ==
    ASSUME IInv, WfiBlocked \/ WfiEnds \/ WfiJump \/ WfiCut \/ WfiIdle
    PROVE  IInv'
<1> USE DEF IInv
<1>0. pc = "wfi" /\ last # "Idle" /\ UNCHANGED <<cur, on, irq, wait>>
  BY DEF WfiBlocked, WfiEnds, WfiJump, WfiCut, WfiIdle, Quiet, IdleInHost
<1>1. turn' \in Nat /\ budget' \in Nat /\ alarm' \in [Core -> Nat \cup {NoAlarm}]
  <2>1. Limit \in Nat /\ Limit <= turn /\ Limit <= budget
    BY DEF Limit, TypeOK
  <2>2. CASE WfiJump
    <3>1. alarm[cur] \in Nat /\ alarm[cur] <= turn /\ alarm[cur] <= budget
      BY <2>1, <2>2 DEF WfiJump, Deadline, TypeOK, NoAlarm
    <3> QED
      BY <2>2, <3>1, AdvanceTypes DEF WfiJump
  <2>3. CASE WfiCut
    BY <2>1, <2>3, AdvanceTypes DEF WfiCut
  <2>4. CASE WfiBlocked \/ WfiEnds \/ WfiIdle
    BY <2>4 DEF WfiBlocked, WfiEnds, WfiIdle, TypeOK
  <2> QED
    BY <2>2, <2>3, <2>4
<1>2. wfi' = wfi \/ (wfi' = [wfi EXCEPT ![cur] = TRUE] /\ pc' \notin {"cpu", "wfi"})
  BY DEF WfiBlocked, WfiEnds, WfiJump, WfiCut, WfiIdle, Wait, Stop
<1>3. wfi' \in [Core -> BOOLEAN]
  BY <1>2, Zenon DEF TypeOK
<1>4. TypeOK'
  BY <1>0, <1>1, <1>3 DEF TypeOK
<1>5. OneWfi'
  BY <1>0, <1>2 DEF OneWfi
<1>6. CASE last' # "Idle"
  BY <1>4, <1>5, <1>6 DEF IdleInHost, IdleIsIdle
<1>7. CASE last' = "Idle"
  <2>1. WfiIdle
    BY <1>0, <1>7 DEF WfiBlocked, WfiEnds, WfiJump, WfiCut, Stop
  <2>2. IdleIsIdle'
    BY <2>1 DEF WfiIdle, Quiet, OthersIdle, IdleIsIdle, Line, Deadline
  <2> QED
    BY <1>4, <1>5, <2>1, <2>2 DEF WfiIdle, Stop, IdleInHost
<1> QED
  BY <1>6, <1>7

-----------------------------------------------------------------------------
\* Every step keeps the invariant.
LEMMA NextInv == ASSUME IInv, [Next]_vars PROVE IInv'
<1>1. CASE UNCHANGED vars
  BY <1>1 DEF vars, IInv, TypeOK, IdleInHost, OneWfi, IdleIsIdle, Line, Deadline
<1> QED
  BY <1>1, HostInv, LoopInv, GuestInv, WaitInv DEF Next, Machine

\* wait_for_interrupt: "the machine is idle only when every core that is on
\* waits with no interrupt and no deadline", for every number of cores, turn,
\* budget and deadline.
THEOREM Idleness == Spec => []IdleIsIdle
<1>1. IInv => IdleIsIdle
  BY DEF IInv
<1> QED
  BY InitInv, NextInv, <1>1, PTL DEF Spec

-----------------------------------------------------------------------------
\* What a step may do to a WFI.
Survives == \A c \in Core : Waiting(c) /\ ~Waiting(c)'
                => Line(c)' \/ last' = "Idle" \/ (~on[c] /\ on'[c])

\* Outside wait_for_interrupt a WFI is what wfi_pending says; only CPU_ON of a
\* core that is off clears it.
LEMMA MachineSurvives ==
    ASSUME IInv, pc # "wfi", Machine \/ RunAgain \/ Complete \/ \E c \in Core : Input(c)
    PROVE  Survives
<1> USE DEF IInv
<1> SUFFICES ASSUME NEW c \in Core, wfi[c]
             PROVE  Waiting(c)' \/ (~on[c] /\ on'[c])
  BY DEF Survives, Waiting
<1>1. CASE Enter
  BY <1>1 DEF Enter, Wait, Waiting, TypeOK
<1>2. ASSUME NEW i \in Core, CpuOn(i)
      PROVE  Waiting(c)' \/ (~on[c] /\ on'[c])
  BY <1>2 DEF CpuOn, Waiting, TypeOK
<1>3. CASE UNCHANGED wfi
  BY <1>3 DEF Waiting
<1>4. Enter \/ (\E i \in Core : CpuOn(i)) \/ UNCHANGED wfi
  BY DEF Machine, BudgetSpent, AllOff, SwitchTo, Continue, LimitReached, BlockedInLoop, Guest,
         Execute, Send, SetTimer, Yield, CpuOff, SystemOff, Unimplemented, Wfi, WfiBlocked,
         WfiEnds, WfiJump, WfiCut, WfiIdle, Quiet, RunAgain, Run, Complete, Input
<1> QED
  BY <1>1, <1>2, <1>3, <1>4

\* In wait_for_interrupt the running core's WFI ends with its line, is kept in
\* wfi_pending, or is over because the machine is idle.
LEMMA WaitSurvives ==
    ASSUME IInv, pc = "wfi", WfiBlocked \/ WfiEnds \/ WfiJump \/ WfiCut \/ WfiIdle
    PROVE  Survives
<1> USE DEF IInv
<1> SUFFICES ASSUME NEW c \in Core, Waiting(c)
             PROVE  Waiting(c)' \/ Line(c)' \/ last' = "Idle"
  BY DEF Survives
<1>1. CASE wfi[c]
  <2>1. wfi' = wfi \/ wfi' = [wfi EXCEPT ![cur] = TRUE]
    BY DEF WfiBlocked, WfiEnds, WfiJump, WfiCut, WfiIdle, Wait
  <2> QED
    BY <1>1, <2>1 DEF Waiting, TypeOK
<1>2. CASE c = cur
  <2>1. CASE WfiBlocked \/ WfiCut
    BY <1>2, <2>1 DEF WfiBlocked, WfiCut, Wait, Waiting, TypeOK
  <2>2. CASE WfiEnds
    BY <1>2, <2>2 DEF WfiEnds, Line
  <2>3. CASE WfiJump
    <3>1. alarm'[cur] = 0
      BY <2>3 DEF WfiJump, Advance, Deadline, NoAlarm, TypeOK
    <3> QED
      BY <1>2, <3>1 DEF Line
  <2>4. CASE WfiIdle
    BY <2>4 DEF WfiIdle, Stop
  <2> QED
    BY <2>1, <2>2, <2>3, <2>4
<1> QED
  BY <1>1, <1>2 DEF Waiting

\* A WFI cut short by the end of the quantum, of the turn or by a disk goes on
\* (wfi_pending), for every number of cores and all deadlines.
THEOREM WfiSurvival == Spec => WfiSurvivesCuts
<1>1. ASSUME IInv, [Next]_vars PROVE [Survives]_vars
  <2>1. CASE pc # "wfi" /\ Next
    BY <1>1, <2>1, MachineSurvives DEF Next
  <2>2. CASE pc = "wfi" /\ Next
    <3>1. WfiBlocked \/ WfiEnds \/ WfiJump \/ WfiCut \/ WfiIdle
      BY <2>2 DEF Next, Machine, BudgetSpent, AllOff, SwitchTo, Continue, Enter, LimitReached,
                  BlockedInLoop, Guest, Execute, Send, SetTimer, Yield, CpuOff, CpuOn, SystemOff,
                  Unimplemented, Wfi, Instruction, RunAgain, Run, Complete, Input
    <3> QED
      BY <1>1, <2>2, <3>1, WaitSurvives
  <2> QED
    BY <1>1, <2>1, <2>2
<1> QED
  BY InitInv, NextInv, <1>1, PTL DEF Spec, WfiSurvivesCuts, Survives
=============================================================================
