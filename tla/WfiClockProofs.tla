-------------------------- MODULE WfiClockProofs ---------------------------
(***************************************************************************)
(* Sleeping in WFI loses no wakeup, for every number of cores and every    *)
(* deadline: the order in which wait reads the kick count, looks at the    *)
(* line, publishes its deadline and sleeps is what the invariant records.  *)
(***************************************************************************)
EXTENDS WfiClock, TLAPS

\* In wait, before the WFI is over.
InWait == {"sync", "look", "count", "jump", "jumped", "loop", "nap", "asleep"}

PC == InWait \cup {"out", "off", "run", "flush", "due", "left"}

\* The types that matter: what an instruction writes is read back.
TypeOK ==
    /\ on \in [Core -> BOOLEAN]
    /\ line \in [Core -> BOOLEAN]
    /\ kicked \in [Core -> BOOLEAN]
    /\ wfi \in [Core -> BOOLEAN]
    /\ pc \in [Core -> PC]
    /\ until = [c \in Core |-> until[c]]

\* A core in wait is on and in its WFI; it has published a deadline only while
\* wait counts on it.
Published ==
    \A c \in Core :
        /\ pc[c] \in InWait => on[c] /\ wfi[c]
        /\ until[c] # NotWaiting => pc[c] \in InWait \ {"sync", "look"}

\* A core past its last look at the line was kicked, or the line is low: it
\* cannot rise without a kick.
LowOrKicked == \A c \in Core : pc[c] \in {"nap", "asleep"} /\ ~kicked[c] => ~line[c]

\* A core asleep past its deadline was kicked, or will be.
DueOrKicked ==
    \A c \in Core : pc[c] = "asleep" /\ ~kicked[c] /\ until[c] = 0 =>
        \E i \in Core : pc[i] \in {"due", "jumped"}

IInv == TypeOK /\ Published /\ LowOrKicked /\ DueOrKicked

-----------------------------------------------------------------------------
\* Nobody waits when the cores start.
LEMMA InitInv == Init => IInv
<1> SUFFICES ASSUME Init PROVE IInv
  OBVIOUS
<1>1. TypeOK
  <2>1. /\ on \in [Core -> BOOLEAN] /\ line \in [Core -> BOOLEAN]
        /\ kicked \in [Core -> BOOLEAN] /\ wfi \in [Core -> BOOLEAN]
    BY Zenon DEF Init
  <2>2. pc \in [Core -> PC] /\ until = [c \in Core |-> until[c]]
    BY DEF Init, PC
  <2> QED
    BY <2>1, <2>2 DEF TypeOK
<1>2. Published /\ LowOrKicked /\ DueOrKicked
  BY DEF Init, Published, LowOrKicked, DueOrKicked, InWait
<1> QED
  BY <1>1, <1>2 DEF IInv

\* The lines are brought up to date: the cores whose line rises are kicked.
LEMMA LinesKept ==
    ASSUME IInv, NEW pending, NEW deadline, UpdateIrqs(pending, deadline),
           UNCHANGED <<on, until, wfi>>, pc' \in [Core -> PC],
           \A c \in Core : \/ pc'[c] = pc[c]
                           \/ /\ pc[c] \notin {"due", "jumped"}
                              /\ pc'[c] \notin {"count", "jump", "jumped", "loop", "nap", "asleep"}
                              /\ pc'[c] = "look" => pc[c] = "sync"
                              /\ pc'[c] # "sync"
                              /\ until[c] = NotWaiting
    PROVE  IInv'
<1> USE DEF IInv
<1>1. line' = [c \in Core |-> pending[c] \/ deadline[c] = 0]
  BY DEF UpdateIrqs
<1>2. kicked' = [c \in Core |-> kicked[c] \/ (line'[c] /\ ~line[c])]
  BY DEF UpdateIrqs
<1>3. TypeOK'
  <2>1. line' \in [Core -> BOOLEAN] /\ kicked' \in [Core -> BOOLEAN]
    BY <1>1, <1>2, Zenon
  <2> QED
    BY <2>1 DEF TypeOK
<1>4. Published'
  BY DEF Published, InWait
<1>5. LowOrKicked'
  BY <1>2 DEF LowOrKicked
<1>6. DueOrKicked'
  BY <1>2 DEF DueOrKicked
<1> QED
  BY <1>3, <1>4, <1>5, <1>6

\* The clock moves on: only the core that moved it looks at the sleepers, and
\* it has yet to.
LEMMA AdvanceKept ==
    ASSUME IInv, NEW c \in Core, NEW d, Advance(d), UNCHANGED <<on, line, kicked, wfi>>,
           NEW l \in {"due", "jumped"}, pc' = [pc EXCEPT ![c] = l],
           l = "due" => pc[c] = "flush", l = "jumped" => pc[c] = "jump"
    PROVE  IInv'
<1> USE DEF IInv
<1>1. until' = [i \in Core |-> After(until[i], d)]
  BY DEF Advance
<1>2. \A i \in Core : until[i] = NotWaiting => until'[i] = NotWaiting
  BY <1>1 DEF After
<1>3. TypeOK'
  BY <1>1 DEF TypeOK, PC, InWait
<1>4. Published'
  BY <1>2 DEF Published, TypeOK, InWait
<1>5. LowOrKicked'
  BY DEF LowOrKicked, TypeOK
<1>6. DueOrKicked'
  <2>1. pc'[c] \in {"due", "jumped"}
    BY DEF TypeOK
  <2> QED
    BY <2>1 DEF DueOrKicked
<1> QED
  BY <1>3, <1>4, <1>5, <1>6

\* It looks at them: everybody past the deadline is kicked.
LEMMA WakeKept ==
    ASSUME IInv, NEW c \in Core, FlushWake(c) \/ JumpWake(c)
    PROVE  IInv'
<1> USE DEF IInv
<1>1. PICK l \in {"run", "loop"} :
         /\ pc' = [pc EXCEPT ![c] = l]
         /\ l = "run" => pc[c] = "due"
         /\ l = "loop" => pc[c] = "jumped"
         /\ UNCHANGED <<on, line, until, wfi>>
  BY DEF FlushWake, JumpWake, Goto
<1>2. /\ \A i \in Core : kicked[i] => kicked'[i]
      /\ \A i \in Core : pc[i] = "asleep" /\ until[i] = 0 => kicked'[i]
      /\ kicked' \in [Core -> BOOLEAN]
  <2>1. CASE Idle = {} /\ kicked' = kicked
    BY <2>1 DEF Idle, TypeOK
  <2>2. CASE WakeDue
    <3>1. kicked' = [i \in Core |-> kicked[i] \/ until[i] = 0]
      BY <2>2 DEF WakeDue
    <3>2. kicked' \in [Core -> BOOLEAN]
      BY <3>1, Zenon
    <3> QED
      BY <3>1, <3>2
  <2> QED
    BY <2>1, <2>2 DEF FlushWake, JumpWake
<1>3. TypeOK'
  BY <1>1, <1>2 DEF TypeOK, PC, InWait
<1>4. Published'
  BY <1>1 DEF Published, TypeOK, InWait
<1>5. LowOrKicked'
  BY <1>1, <1>2 DEF LowOrKicked, TypeOK
<1>6. DueOrKicked'
  BY <1>1, <1>2 DEF DueOrKicked, TypeOK
<1> QED
  BY <1>3, <1>4, <1>5, <1>6

\* A step of one core that moves no clock and no line.
LEMMA StepKept ==
    ASSUME IInv, NEW c \in Core, UNCHANGED line,
           NEW l \in PC \ {"due", "jumped"}, pc' = [pc EXCEPT ![c] = l],
           pc[c] \notin {"due", "jumped"},
           on' \in [Core -> BOOLEAN], wfi' \in [Core -> BOOLEAN], kicked' \in [Core -> BOOLEAN],
           until' = [i \in Core |-> until'[i]],
           \A i \in Core \ {c} : /\ on[i] => on'[i]
                                 /\ wfi'[i] = wfi[i] /\ until'[i] = until[i]
                                 /\ kicked[i] => kicked'[i],
           l \in InWait => on'[c] /\ wfi'[c],
           until'[c] # NotWaiting => l \in InWait \ {"sync", "look"},
           l \in {"nap", "asleep"} /\ ~kicked'[c] => ~line[c],
           l = "asleep" => kicked'[c] \/ until'[c] # 0
    PROVE  IInv'
<1> USE DEF IInv
<1>1. TypeOK'
  BY DEF TypeOK
<1>2. \A i \in Core : i # c => pc'[i] = pc[i]
  BY DEF TypeOK
<1>3. pc'[c] = l
  BY DEF TypeOK
<1>4. Published'
  BY <1>2, <1>3 DEF Published
<1>5. LowOrKicked'
  BY <1>2, <1>3 DEF LowOrKicked, TypeOK
<1>6. DueOrKicked'
  BY <1>2, <1>3 DEF DueOrKicked, TypeOK
<1> QED
  BY <1>1, <1>4, <1>5, <1>6

-----------------------------------------------------------------------------
\* The guest's instructions, and the lines that follow them.
LEMMA GuestInv ==
    ASSUME IInv, NEW c \in Core,
           \/ StretchSync(c) \/ Instruction(c) \/ Wfi(c) \/ CpuOff(c) \/ PowerOn(c) \/ Flush(c)
           \/ \E i \in Core : CpuOn(c, i)
    PROVE  IInv'
<1> USE DEF IInv, Goto, Guest
<1>0. pc[c] \in {"run", "off", "flush"} /\ until[c] = NotWaiting
  BY DEF StretchSync, Instruction, Wfi, CpuOff, PowerOn, Flush, CpuOn, Published, InWait
<1>1. CASE StretchSync(c)
  <2>1. UpdateIrqs(dev, alarm) /\ UNCHANGED <<on, until, wfi, pc>>
    BY <1>1 DEF StretchSync
  <2> QED
    BY <2>1, LinesKept DEF TypeOK
<1>2. CASE Instruction(c)
  <2>1. UNCHANGED <<on, until, wfi>> /\ pc' = [pc EXCEPT ![c] = "flush"] /\ pc[c] = "run"
    BY <1>2 DEF Instruction
  <2>2. pc' \in [Core -> PC]
    BY <2>1 DEF TypeOK, PC
  <2>3. \A i \in Core : pc'[i] = IF i = c THEN "flush" ELSE pc[i]
    BY <2>1 DEF TypeOK
  <2>4. CASE UNCHANGED <<dev, alarm, line, kicked>>
    BY <1>0, <2>1, <2>4, StepKept DEF TypeOK, PC, InWait
  <2>5. ASSUME NEW p, NEW a, UpdateIrqs(p, a) PROVE IInv'
    BY <1>0, <2>1, <2>2, <2>3, <2>5, LinesKept
  <2> QED
    BY <1>2, <2>4, <2>5 DEF Instruction
<1>3. CASE Wfi(c)
  <2>1. /\ UNCHANGED <<on, line, kicked, until>> /\ pc' = [pc EXCEPT ![c] = "flush"]
        /\ wfi' = [wfi EXCEPT ![c] = TRUE] /\ pc[c] = "run"
    BY <1>3 DEF Wfi
  <2>2. wfi' \in [Core -> BOOLEAN]
    BY <2>1, Zenon DEF TypeOK
  <2> QED
    BY <1>0, <2>1, <2>2, StepKept DEF TypeOK, PC, InWait
<1>4. CASE CpuOff(c)
  <2>1. /\ UNCHANGED <<line, kicked, until, wfi>> /\ pc' = [pc EXCEPT ![c] = "off"]
        /\ on' = [on EXCEPT ![c] = FALSE] /\ pc[c] = "run"
    BY <1>4 DEF CpuOff
  <2>2. on' \in [Core -> BOOLEAN]
    BY <2>1, Zenon DEF TypeOK
  <2> QED
    BY <1>0, <2>1, <2>2, StepKept DEF TypeOK, PC, InWait
<1>5. CASE PowerOn(c)
  <2>1. UNCHANGED <<on, line, kicked, until, wfi>> /\ pc' = [pc EXCEPT ![c] = "run"]
    BY <1>5 DEF PowerOn
  <2> QED
    BY <1>0, <2>1, StepKept DEF TypeOK, PC, InWait
<1>6. CASE Flush(c)
  <2>1. /\ Advance(1) /\ pc' = [pc EXCEPT ![c] = "due"] /\ pc[c] = "flush"
        /\ UNCHANGED <<on, line, kicked, wfi>>
    BY <1>6 DEF Flush
  <2> QED
    BY <2>1, AdvanceKept
<1>7. ASSUME NEW i \in Core, CpuOn(c, i) PROVE IInv'
  <2>1. /\ UNCHANGED <<line, until, wfi>> /\ pc' = [pc EXCEPT ![c] = "flush"] /\ pc[c] = "run"
        /\ on' = [on EXCEPT ![i] = TRUE] /\ kicked' = [kicked EXCEPT ![i] = TRUE]
    BY <1>7 DEF CpuOn
  <2>2. on' \in [Core -> BOOLEAN] /\ kicked' \in [Core -> BOOLEAN]
    BY <2>1, Zenon DEF TypeOK
  <2>3. \A j \in Core : (on[j] => on'[j]) /\ (kicked[j] => kicked'[j])
    BY <2>1 DEF TypeOK
  <2> QED
    BY <1>0, <2>1, <2>2, <2>3, StepKept DEF TypeOK, PC, InWait
<1> QED
  BY <1>1, <1>2, <1>3, <1>4, <1>5, <1>6, <1>7

\* ParCore::wait up to the deadline it publishes.
LEMMA WaitEntryInv ==
    ASSUME IInv, NEW c \in Core, WaitBegin(c) \/ WaitSync(c) \/ WaitAwake(c) \/ WaitUntil(c)
    PROVE  IInv'
<1> USE DEF IInv, Goto
<1>0. pc[c] \in {"run", "sync", "look"} /\ until[c] = NotWaiting
  BY DEF WaitBegin, WaitSync, WaitAwake, WaitUntil, Published, InWait
<1>1. CASE WaitBegin(c)
  <2>1. /\ UNCHANGED <<on, line, until, wfi>> /\ pc' = [pc EXCEPT ![c] = "sync"]
        /\ kicked' = [kicked EXCEPT ![c] = FALSE] /\ on[c] /\ wfi[c]
    BY <1>1 DEF WaitBegin
  <2>2. kicked' \in [Core -> BOOLEAN] /\ \A i \in Core \ {c} : kicked'[i] = kicked[i]
    BY <2>1, Zenon DEF TypeOK
  <2> QED
    BY <1>0, <2>1, <2>2, StepKept DEF TypeOK, PC, InWait
<1>2. CASE WaitSync(c)
  <2>1. /\ UpdateIrqs(dev, alarm) /\ UNCHANGED <<on, until, wfi>>
        /\ pc' = [pc EXCEPT ![c] = "look"] /\ pc[c] = "sync"
    BY <1>2 DEF WaitSync
  <2>2. pc' \in [Core -> PC]
    BY <2>1 DEF TypeOK, PC, InWait
  <2>3. \A i \in Core : pc'[i] = IF i = c THEN "look" ELSE pc[i]
    BY <2>1 DEF TypeOK
  <2> QED
    BY <1>0, <2>1, <2>2, <2>3, LinesKept
<1>3. CASE WaitAwake(c)
  <2>1. /\ UNCHANGED <<on, line, kicked, until>> /\ pc' = [pc EXCEPT ![c] = "run"]
        /\ wfi' = [wfi EXCEPT ![c] = FALSE]
    BY <1>3 DEF WaitAwake
  <2>2. wfi' \in [Core -> BOOLEAN] /\ \A i \in Core \ {c} : wfi'[i] = wfi[i]
    BY <2>1, Zenon DEF TypeOK
  <2> QED
    BY <1>0, <2>1, <2>2, StepKept DEF TypeOK, PC, InWait
<1>4. CASE WaitUntil(c)
  <2>1. /\ UNCHANGED <<on, line, kicked, wfi>> /\ pc' = [pc EXCEPT ![c] = "count"]
        /\ pc[c] = "look" /\ on[c] /\ wfi[c]
    BY <1>4 DEF WaitUntil, Published, InWait
  <2>2. \E u : until' = [until EXCEPT ![c] = u]
    BY <1>4 DEF WaitUntil
  <2>3. until' = [i \in Core |-> until'[i]] /\ \A i \in Core \ {c} : until'[i] = until[i]
    BY <2>2 DEF TypeOK
  <2> QED
    BY <1>0, <2>1, <2>3, StepKept DEF TypeOK, PC, InWait
<1> QED
  BY <1>1, <1>2, <1>3, <1>4

\* wait past that: count, jump, sleep and return.
LEMMA WaitLoopInv ==
    ASSUME IInv, NEW c \in Core,
           \/ Count(c) \/ Jump(c) \/ JumpNowhere(c)
           \/ LoopDue(c) \/ LoopKicked(c) \/ LoopLater(c) \/ LoopOn(c)
           \/ Nap(c) \/ Awake(c) \/ WaitEnd(c)
    PROVE  IInv'
<1> USE DEF IInv, Goto
<1>1. CASE Count(c) \/ LoopOn(c) \/ Nap(c) \/ Awake(c)
  <2>1. PICK l \in {"jump", "loop", "nap", "asleep"} :
           /\ pc' = [pc EXCEPT ![c] = l]
           /\ UNCHANGED <<on, line, kicked, until, wfi>>
           /\ pc[c] \in {"count", "loop", "nap", "asleep"}
           /\ l = "nap" => ~line[c]
           /\ l = "asleep" => pc[c] = "nap" /\ ~kicked[c] /\ until[c] # 0
    BY <1>1 DEF Count, LoopOn, Nap, Awake
  <2>2. on[c] /\ wfi[c] /\ (l \in {"nap", "asleep"} /\ ~kicked[c] => ~line[c])
    BY <2>1 DEF Published, LowOrKicked, InWait
  <2> QED
    BY <2>1, <2>2, StepKept DEF TypeOK, PC, InWait
<1>2. CASE Jump(c)
  <2>1. /\ Advance(Earliest(c)) /\ pc' = [pc EXCEPT ![c] = "jumped"] /\ pc[c] = "jump"
        /\ UNCHANGED <<on, line, kicked, wfi>>
    BY <1>2 DEF Jump
  <2> QED
    BY <2>1, AdvanceKept
<1>3. CASE JumpNowhere(c)
  <2>1. /\ UNCHANGED <<on, line, kicked, wfi>> /\ pc[c] = "jump" /\ on[c] /\ wfi[c]
        /\ until' = [until EXCEPT ![c] = IF c = 0 THEN NotWaiting ELSE @]
        /\ pc' = [pc EXCEPT ![c] = IF c = 0 THEN "left" ELSE "loop"]
    BY <1>3 DEF JumpNowhere, Published, InWait
  <2>2. /\ until' = [i \in Core |-> until'[i]] /\ \A i \in Core \ {c} : until'[i] = until[i]
        /\ c = 0 => until'[c] = NotWaiting
    BY <2>1 DEF TypeOK
  <2>3. CASE c = 0
    BY <2>1, <2>2, <2>3, StepKept DEF TypeOK, PC, InWait
  <2>4. CASE c # 0
    BY <2>1, <2>2, <2>4, StepKept DEF TypeOK, PC, InWait
  <2> QED
    BY <2>3, <2>4
<1>4. CASE LoopDue(c) \/ LoopKicked(c) \/ LoopLater(c)
  <2>1. PICK woken \in BOOLEAN : Leave(c, woken)
    BY <1>4 DEF LoopDue, LoopKicked, LoopLater
  <2>2. /\ until' = [until EXCEPT ![c] = NotWaiting] /\ wfi' = [wfi EXCEPT ![c] = ~woken]
        /\ pc' = [pc EXCEPT ![c] = "left"] /\ UNCHANGED <<on, line, kicked>>
        /\ pc[c] = "loop"
    BY <1>4, <2>1 DEF Leave, LoopDue, LoopKicked, LoopLater
  <2>3. wfi' \in [Core -> BOOLEAN] /\ \A i \in Core \ {c} : wfi'[i] = wfi[i]
    BY <2>2, Zenon DEF TypeOK
  <2>4. /\ until' = [i \in Core |-> until'[i]] /\ \A i \in Core \ {c} : until'[i] = until[i]
        /\ until'[c] = NotWaiting
    BY <2>2 DEF TypeOK
  <2> QED
    BY <2>2, <2>3, <2>4, StepKept DEF TypeOK, PC, InWait
<1>5. CASE WaitEnd(c)
  <2>1. PICK l \in {"out", "run"} :
           /\ pc' = [pc EXCEPT ![c] = l] /\ pc[c] = "left"
           /\ UNCHANGED <<on, line, kicked, until, wfi>>
    BY <1>5 DEF WaitEnd
  <2>2. until[c] = NotWaiting
    BY <2>1 DEF Published, InWait
  <2> QED
    BY <2>1, <2>2, StepKept DEF TypeOK, PC, InWait
<1> QED
  BY <1>1, <1>2, <1>3, <1>4, <1>5

\* The host's quanta and input.
LEMMA HostInv ==
    ASSUME IInv, Host \/ \E c \in Core : Input(c)
    PROVE  IInv'
<1> USE DEF IInv, Goto
<1>0. 0 \in Core
  BY NAssumption DEF Core
<1>1. CASE RunReturn
  <2>1. /\ pc' = [pc EXCEPT ![0] = "out"] /\ pc[0] = "run"
        /\ UNCHANGED <<on, line, kicked, until, wfi>>
    BY <1>1 DEF RunReturn
  <2>2. until[0] = NotWaiting
    BY <1>0, <2>1 DEF Published, InWait
  <2> QED
    BY <1>0, <2>1, <2>2, StepKept DEF TypeOK, PC, InWait
<1>2. ASSUME NEW b, RunParallel(b) PROVE IInv'
  <2>1. /\ UpdateIrqs(dev, alarm) /\ UNCHANGED <<on, until, wfi>>
        /\ pc' = [pc EXCEPT ![0] = IF pc[0] = "out" THEN "run" ELSE "off"]
        /\ pc[0] \in {"out", "off"}
    BY <1>2 DEF RunParallel
  <2>2. pc' \in [Core -> PC]
    BY <2>1 DEF TypeOK, PC
  <2>3. \A i \in Core : pc'[i] = pc[i] \/ (i = 0 /\ pc'[i] = "run")
    BY <1>0, <2>1 DEF TypeOK
  <2>4. until[0] = NotWaiting
    BY <1>0, <2>1 DEF Published, InWait
  <2> QED
    BY <2>1, <2>2, <2>3, <2>4, LinesKept
<1>3. ASSUME NEW c \in Core, Input(c) PROVE IInv'
  <2>1. UpdateIrqs([dev EXCEPT ![c] = TRUE], alarm) /\ UNCHANGED <<on, until, wfi, pc>>
    BY <1>3 DEF Input
  <2> QED
    BY <2>1, LinesKept DEF TypeOK
<1> QED
  BY <1>1, <1>2, <1>3 DEF Host

-----------------------------------------------------------------------------
\* Every step keeps the invariant.
LEMMA NextInv == ASSUME IInv, [Next]_vars PROVE IInv'
<1>1. ASSUME NEW c \in Core, Thread(c) \/ Awake(c)
      PROVE  IInv'
  BY <1>1, GuestInv, WakeKept, WaitEntryInv, WaitLoopInv DEF Thread, Wait
<1>2. CASE UNCHANGED vars
  BY <1>2 DEF vars, IInv, TypeOK, Published, LowOrKicked, DueOrKicked
<1> QED
  BY <1>1, <1>2, HostInv DEF Next

\* ParCore::wait: "a kick from here on (an interrupt raised meanwhile) ends the
\* wait".  For every number of cores and all deadlines and quanta, a core
\* asleep that nobody kicked has its line low and its deadline ahead, or is
\* about to be kicked; and only a core in its WFI has a deadline that a jump
\* of time looks at.
THEOREM NoWakeupLost == Spec => []WaitsSound
<1>1. IInv => WaitsSound
  BY DEF IInv, Published, LowOrKicked, DueOrKicked, WaitsSound, NoLostWakeup, WaitsAreReal, InWait
<1> QED
  BY InitInv, NextInv, <1>1, PTL DEF Spec
=============================================================================
