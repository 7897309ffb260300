-------------------------- MODULE ShootdownProofs --------------------------
(***************************************************************************)
(* TLB shootdown proved for every number of cores: no core that executes   *)
(* translates with an entry that a completed TLBI was for.  First what the *)
(* loop of ParCore::run keeps, one lemma per action of module Cores; then  *)
(* the invariant that follows a TLBI in flight: a core that may still hold *)
(* a stale translation is one the broadcast has yet to reach, or one the   *)
(* issuer is waiting for.                                                  *)
(***************************************************************************)
EXTENDS Shootdown, TLAPS

(* The loop of the cores.                                                  *)

\* In wait_acks.
Waiting == {"runacks", "acks", "acksdone", "poll"}

\* What a core holds depends on where it is: requests taken only while it
\* applies them, a cursor only in a scan of the slots; it waits for
\* acknowledgements only of what it broadcast, and leaves wait_acks without
\* them only on the way out.  CPU_ON and CPU_OFF of a core never overlap.
Shape ==
    /\ \A c \in Core : taken[c] # 0 => pc[c] \in {"topdone", "acksdone"}
    /\ \A c \in Core : cursor[c] # 0 => pc[c] \in {"bcast", "scan"}
    /\ \A c \in Core : pc[c] \in Waiting => waits[c] # {}
    /\ \A c \in Core : waits[c] # {} =>
           /\ Live(c)
           /\ pc[c] \in Waiting \cup {"bcast"} \/ (Ending /\ pc[c] # "exec")
    /\ \A c \in Core : start[c] => on[c]

\* With the cores in turns every thread has returned its core.
InTurns ==
    ~par => \A c \in Core : /\ pc[c] = "out"
                            /\ waits[c] = {}
                            /\ inbox[c] = 0
                            /\ ~start[c]

CInv == CoresTypeOK /\ Shape /\ InTurns /\ Accounting /\ OffIsQuiet /\ AllOffHalts

\* NoGuestBeforeAcks is a consequence.
LEMMA CInvAcks == CInv => NoGuestBeforeAcks
BY DEF CInv, Shape, NoGuestBeforeAcks, Waiting

\* start_parallel leaves the slots and threads consistent.
LEMMA CoresInitCInv == CoresInit => CInv
<1> SUFFICES ASSUME CoresInit PROVE CInv
  OBVIOUS
<1> USE NAssumption
<1>1. CoresTypeOK
  <2>1. on \in [Core -> BOOLEAN] /\ start \in [Core -> BOOLEAN]
    BY Zenon DEF CoresInit
  <2>2. stop \in BOOLEAN /\ par \in BOOLEAN
    BY Zenon DEF CoresInit
  <2>3. /\ inbox \in [Core -> Nat] /\ posted \in [Core -> Nat] /\ applied \in [Core -> Nat]
        /\ taken \in [Core -> Nat] /\ cursor \in [Core -> 0 .. N] /\ halt \in 0 .. 2
    BY DEF CoresInit
  <2>4. /\ pc \in [Core -> PC] /\ ret \in [Core -> {"gate", "chk"}]
        /\ waits \in [Core -> SUBSET (Core \X Nat)]
    BY DEF CoresInit, PC
  <2> QED
    BY <2>1, <2>2, <2>3, <2>4 DEF CoresTypeOK
<1>2. Shape
  BY DEF CoresInit, Shape, Waiting
<1>3. InTurns
  BY DEF CoresInit, InTurns
<1>4. Accounting
  BY DEF CoresInit, Accounting
<1>5. OffIsQuiet
  BY DEF CoresInit, OffIsQuiet
<1>6. AllOffHalts
  BY DEF CoresInit, AllOffHalts, Core
<1> QED
  BY <1>1, <1>2, <1>3, <1>4, <1>5, <1>6 DEF CInv

-----------------------------------------------------------------------------
\* A core goes from one place to another and nothing else happens.
LEMMA Move ==
    ASSUME CInv, NEW c \in Core, NEW l \in PC, Goto(c, l),
           UNCHANGED <<slots, stop, halt, par, ret, cursor, taken, waits>>,
           par,
           taken[c] = 0,
           cursor[c] = 0,
           pc[c] # "scan",
           l \in Waiting => waits[c] # {},
           waits[c] # {} => l \in Waiting \cup {"bcast"} \/ (Ending /\ l # "exec"),
           ~Live(c) => l \notin {"chk", "exec", "bcast", "acks", "acksdone", "poll"}
    PROVE  CInv'
<1> USE DEF CInv, Goto, slots
<1>1. CoresTypeOK'
  BY DEF CoresTypeOK
<1>2. Shape'
  BY DEF Shape, CoresTypeOK, Live, Ending
<1>3. InTurns'
  BY DEF InTurns
<1>4. Accounting'
  BY DEF Accounting
<1>5. OffIsQuiet'
  BY DEF OffIsQuiet, Live, CoresTypeOK
<1>6. AllOffHalts'
  BY DEF AllOffHalts, CoresTypeOK
<1> QED
  BY <1>1, <1>2, <1>3, <1>4, <1>5, <1>6

\* The steps that only move the core.
LEMMA MovesCInv ==
    ASSUME CInv, NEW c \in Core,
           \/ RunEnter(c) \/ RunHalted(c) \/ RunReturn(c) \/ RunBlocked(c) \/ RunOff(c)
           \/ RunGuest(c) \/ StretchEnd(c) \/ StretchRun(c) \/ Broadcast(c)
    PROVE  CInv'
<1> USE DEF CInv
<1>0. /\ pc[c] \in {"out", "top", "gate", "chk", "exec"} => taken[c] = 0 /\ cursor[c] = 0
      /\ pc[c] \in {"top", "gate", "chk", "exec"} => par
      /\ pc[c] \in {"out", "top", "gate", "chk", "exec"} /\ waits[c] # {} => Ending /\ pc[c] # "exec"
      /\ pc[c] \in {"chk", "exec"} => Live(c)
  BY DEF Shape, InTurns, OffIsQuiet, Waiting
<1>1. CASE RunEnter(c)
  BY <1>0, <1>1, Move DEF RunEnter, PC, Waiting
<1>2. CASE RunHalted(c)
  BY <1>0, <1>2, Move DEF RunHalted, PC, Waiting
<1>3. CASE RunReturn(c)
  BY <1>0, <1>3, Move DEF RunReturn, PC, Waiting
<1>4. CASE RunBlocked(c)
  BY <1>0, <1>4, Move DEF RunBlocked, PC, Waiting
<1>5. CASE RunOff(c)
  BY <1>0, <1>5, Move DEF RunOff, PC, Waiting
<1>6. CASE RunGuest(c)
  BY <1>0, <1>6, Move DEF RunGuest, PC, Waiting, Live
<1>7. CASE StretchEnd(c)
  BY <1>0, <1>7, Move DEF StretchEnd, PC, Waiting
<1>8. CASE StretchRun(c)
  BY <1>0, <1>8, Move DEF StretchRun, PC, Waiting
<1>9. CASE Broadcast(c)
  BY <1>0, <1>9, Move DEF Broadcast, PC, Waiting
<1> QED
  BY <1>1, <1>2, <1>3, <1>4, <1>5, <1>6, <1>7, <1>8, <1>9

-----------------------------------------------------------------------------
\* Requests: taken ...
LEMMA TakeCInv ==
    ASSUME CInv, NEW c \in Core, RunService(c) \/ AcksService(c)
    PROVE  CInv'
<1> USE DEF CInv
<1>0. /\ par /\ taken[c] = 0 /\ cursor[c] = 0
      /\ pc[c] \in {"acks", "runacks"} => waits[c] # {}
      /\ waits[c] # {} => Live(c)
      /\ pc[c] = "top" /\ waits[c] # {} => Ending
  BY DEF Shape, InTurns, Waiting, RunService, AcksService
<1>1. /\ taken' = [taken EXCEPT ![c] = inbox[c]]
      /\ inbox' = [inbox EXCEPT ![c] = 0]
      /\ UNCHANGED <<on, start, posted, applied, stop, halt, par, ret, cursor, waits>>
  BY DEF RunService, AcksService, Take
<1>2. PICK l \in PC : /\ pc' = [pc EXCEPT ![c] = l]
                      /\ l \in {"gate", "runacks", "topdone", "poll", "acksdone"}
                      /\ inbox[c] # 0 => l \in {"topdone", "acksdone"}
                      /\ l \in Waiting => waits[c] # {}
                      /\ waits[c] # {} => l \in Waiting \/ (Ending /\ l = "topdone")
                      /\ pc[c] # "scan"
  BY <1>0 DEF RunService, AcksService, AfterTopService, Goto, PC, Waiting
<1>3. CoresTypeOK'
  BY <1>1, <1>2 DEF CoresTypeOK
<1>4. Shape'
  <2>1. \A d \in Core : taken'[d] # 0 => pc'[d] \in {"topdone", "acksdone"}
    BY <1>1, <1>2 DEF Shape, CoresTypeOK
  <2>2. \A d \in Core : cursor'[d] # 0 => pc'[d] \in {"bcast", "scan"}
    BY <1>0, <1>1, <1>2 DEF Shape, CoresTypeOK
  <2>3. \A d \in Core : pc'[d] \in Waiting => waits'[d] # {}
    BY <1>1, <1>2 DEF Shape, CoresTypeOK
  <2>4. \A d \in Core : waits'[d] # {} =>
           /\ Live(d)'
           /\ pc'[d] \in Waiting \cup {"bcast"} \/ (Ending' /\ pc'[d] # "exec")
    BY <1>1, <1>2 DEF Shape, CoresTypeOK, Live, Ending
  <2> QED
    BY <1>1, <2>1, <2>2, <2>3, <2>4 DEF Shape
<1>5. InTurns'
  BY <1>0, <1>1 DEF InTurns
<1>6. Accounting'
  BY <1>0, <1>1 DEF Accounting, CoresTypeOK
<1>7. OffIsQuiet'
  BY <1>0, <1>1, <1>2 DEF OffIsQuiet, Live, CoresTypeOK, Waiting
<1>8. AllOffHalts'
  BY <1>1, <1>2 DEF AllOffHalts, CoresTypeOK
<1> QED
  BY <1>3, <1>4, <1>5, <1>6, <1>7, <1>8

\* ... and acknowledged.
LEMMA ServedCInv ==
    ASSUME CInv, NEW c \in Core, RunServed(c) \/ AcksServed(c)
    PROVE  CInv'
<1> USE DEF CInv
<1>0. /\ par /\ cursor[c] = 0
      /\ pc[c] = "acksdone" => waits[c] # {}
      /\ waits[c] # {} => Live(c)
  BY DEF Shape, InTurns, Waiting, RunServed, AcksServed
<1>1. /\ applied' = [applied EXCEPT ![c] = @ + taken[c]]
      /\ taken' = [taken EXCEPT ![c] = 0]
      /\ UNCHANGED <<on, start, inbox, posted, stop, halt, par, ret, cursor, waits>>
  BY DEF RunServed, AcksServed
<1>2. PICK l \in PC : /\ pc' = [pc EXCEPT ![c] = l]
                      /\ l \in {"gate", "runacks", "poll"}
                      /\ l \in Waiting <=> waits[c] # {}
                      /\ pc[c] # "scan"
  BY <1>0 DEF RunServed, AcksServed, AfterTopService, Goto, PC, Waiting
<1>3. CoresTypeOK'
  BY <1>1, <1>2 DEF CoresTypeOK
<1>4. Shape'
  <2>1. \A d \in Core : taken'[d] # 0 => pc'[d] \in {"topdone", "acksdone"}
    BY <1>1, <1>2 DEF Shape, CoresTypeOK
  <2>2. \A d \in Core : cursor'[d] # 0 => pc'[d] \in {"bcast", "scan"}
    BY <1>0, <1>1, <1>2 DEF Shape, CoresTypeOK
  <2>3. \A d \in Core : pc'[d] \in Waiting => waits'[d] # {}
    BY <1>1, <1>2 DEF Shape, CoresTypeOK
  <2>4. \A d \in Core : waits'[d] # {} =>
           /\ Live(d)'
           /\ pc'[d] \in Waiting \cup {"bcast"} \/ (Ending' /\ pc'[d] # "exec")
    BY <1>1, <1>2 DEF Shape, CoresTypeOK, Live, Ending
  <2> QED
    BY <1>1, <2>1, <2>2, <2>3, <2>4 DEF Shape
<1>5. InTurns'
  BY <1>0, <1>1 DEF InTurns
<1>6. Accounting'
  <2>1. \A d \in Core : applied'[d] + taken'[d] = applied[d] + taken[d]
    BY <1>1 DEF CoresTypeOK
  <2> QED
    BY <1>0, <1>1, <2>1 DEF Accounting, CoresTypeOK
<1>7. OffIsQuiet'
  BY <1>0, <1>1, <1>2 DEF OffIsQuiet, Live, CoresTypeOK, Waiting
<1>8. AllOffHalts'
  BY <1>1, <1>2 DEF AllOffHalts, CoresTypeOK
<1> QED
  BY <1>3, <1>4, <1>5, <1>6, <1>7, <1>8

\* A core leaves the guest, or wait_acks: with everything acknowledged, or on
\* the way out.
LEMMA LeaveCInv ==
    ASSUME CInv, NEW c \in Core, ExecEnd(c) \/ BroadcastEnd(c) \/ AcksDone(c) \/ AcksPoll(c)
    PROVE  CInv'
<1> USE DEF CInv
<1>0. /\ par /\ taken[c] = 0
      /\ pc[c] # "bcast" => cursor[c] = 0
      /\ pc[c] \in Waiting => waits[c] # {}
      /\ waits[c] # {} => Live(c)
      /\ pc[c] # "runacks" => Live(c)
      /\ pc[c] # "scan"
  BY DEF Shape, InTurns, Waiting, OffIsQuiet, ExecEnd, BroadcastEnd, AcksDone, AcksPoll
<1>1. UNCHANGED <<slots, stop, halt, par, taken>>
  BY DEF ExecEnd, BroadcastEnd, AcksDone, AcksPoll
<1>2. /\ cursor' \in [Core -> 0 .. N] /\ cursor'[c] = 0
      /\ \A d \in Core \ {c} : cursor'[d] = cursor[d]
  <2>1. CASE BroadcastEnd(c)
    BY <2>1, NAssumption DEF BroadcastEnd, CoresTypeOK
  <2>2. CASE ~BroadcastEnd(c)
    <3>1. cursor' = cursor /\ cursor[c] = 0
      BY <1>0, <2>2 DEF ExecEnd, AcksDone, AcksPoll
    <3> QED
      BY <3>1 DEF CoresTypeOK
  <2> QED
    BY <2>1, <2>2
<1>3. ret' \in [Core -> {"gate", "chk"}]
  BY DEF ExecEnd, BroadcastEnd, AcksDone, AcksPoll, Leave, CoresTypeOK
<1>4. /\ waits' \in [Core -> SUBSET (Core \X Nat)] /\ waits'[c] \in {waits[c], {}}
      /\ \A d \in Core \ {c} : waits'[d] = waits[d]
  BY DEF ExecEnd, BroadcastEnd, AcksDone, AcksPoll, CoresTypeOK
<1>5. PICK l \in PC : /\ pc' = [pc EXCEPT ![c] = l]
                      /\ l \in {"gate", "chk", "acks"}
                      /\ l = "acks" => waits'[c] # {}
                      /\ waits'[c] # {} => l = "acks" \/ Ending
  BY <1>0 DEF ExecEnd, BroadcastEnd, AcksDone, AcksPoll, Leave, Goto, PC, Waiting, CoresTypeOK
<1>6. CoresTypeOK'
  BY <1>1, <1>2, <1>3, <1>4, <1>5 DEF CoresTypeOK, slots
<1>7. Shape'
  <2>1. \A d \in Core : taken'[d] # 0 => pc'[d] \in {"topdone", "acksdone"}
    BY <1>0, <1>1, <1>5 DEF Shape, CoresTypeOK
  <2>2. \A d \in Core : cursor'[d] # 0 => pc'[d] \in {"bcast", "scan"}
    BY <1>2, <1>5 DEF Shape, CoresTypeOK
  <2>3. \A d \in Core : pc'[d] \in Waiting => waits'[d] # {}
    BY <1>4, <1>5 DEF Shape, CoresTypeOK, Waiting
  <2>4. \A d \in Core : waits'[d] # {} =>
           /\ Live(d)'
           /\ pc'[d] \in Waiting \cup {"bcast"} \/ (Ending' /\ pc'[d] # "exec")
    BY <1>0, <1>1, <1>4, <1>5 DEF Shape, CoresTypeOK, Live, Ending, Waiting, slots
  <2> QED
    BY <1>1, <2>1, <2>2, <2>3, <2>4 DEF Shape, slots
<1>8. InTurns' /\ Accounting'
  BY <1>0, <1>1 DEF InTurns, Accounting, slots
<1>9. OffIsQuiet'
  <2>1. Live(c)
    BY <1>0 DEF Waiting, AcksDone
  <2> QED
    BY <1>1, <1>5, <2>1 DEF OffIsQuiet, Live, CoresTypeOK, slots
<1>10. AllOffHalts'
  BY <1>0, <1>1, <1>5 DEF AllOffHalts, CoresTypeOK, slots
<1> QED
  BY <1>6, <1>7, <1>8, <1>9, <1>10

-----------------------------------------------------------------------------
\* A CPU_ON is obeyed by a core that held nothing of its earlier context.
LEMMA PowerOnCInv ==
    ASSUME CInv, NEW c \in Core, PowerOn(c)
    PROVE  CInv'
<1> USE DEF CInv
<1>0. /\ par /\ taken[c] = 0 /\ cursor[c] = 0 /\ waits[c] = {} /\ on[c] /\ pc[c] = "gate"
  BY DEF Shape, InTurns, PowerOn, Live
<1>1. /\ start' = [start EXCEPT ![c] = FALSE]
      /\ UNCHANGED <<on, inbox, posted, applied, stop, halt, par, ret, cursor, taken, waits>>
  BY DEF PowerOn
<1>2. PICK l \in {"top", "chk"} : pc' = [pc EXCEPT ![c] = l]
  BY DEF PowerOn, Goto
<1>3. CoresTypeOK'
  <2>1. start' \in [Core -> BOOLEAN]
    BY <1>1, Zenon DEF CoresTypeOK
  <2> QED
    BY <1>1, <1>2, <2>1 DEF CoresTypeOK, PC
<1>4. Shape'
  <2>1. /\ \A d \in Core : taken'[d] # 0 => pc'[d] \in {"topdone", "acksdone"}
        /\ \A d \in Core : cursor'[d] # 0 => pc'[d] \in {"bcast", "scan"}
        /\ \A d \in Core : pc'[d] \in Waiting => waits'[d] # {}
    BY <1>0, <1>1, <1>2 DEF Shape, CoresTypeOK, Waiting
  <2>2. \A d \in Core : waits'[d] # {} =>
           /\ Live(d)'
           /\ pc'[d] \in Waiting \cup {"bcast"} \/ (Ending' /\ pc'[d] # "exec")
    BY <1>0, <1>1, <1>2 DEF Shape, CoresTypeOK, Live, Ending
  <2>3. \A d \in Core : start'[d] => on'[d]
    BY <1>0, <1>1 DEF Shape, CoresTypeOK
  <2> QED
    BY <2>1, <2>2, <2>3 DEF Shape
<1>5. InTurns' /\ Accounting'
  BY <1>0, <1>1 DEF InTurns, Accounting
<1>6. OffIsQuiet'
  BY <1>0, <1>1, <1>2 DEF OffIsQuiet, Live, CoresTypeOK
<1>7. AllOffHalts'
  BY <1>0, <1>1, <1>2 DEF AllOffHalts, CoresTypeOK
<1> QED
  BY <1>3, <1>4, <1>5, <1>6, <1>7

\* A broadcast posts in one slot: counted there and awaited here.
LEMMA BroadcastSlotCInv ==
    ASSUME CInv, NEW c \in Core, BroadcastSlot(c)
    PROVE  CInv'
<1> USE DEF CInv
<1> DEFINE i == cursor[c]
<1>0. par /\ pc[c] = "bcast" /\ Live(c) /\ i \in Core
  <2>1. par /\ pc[c] = "bcast" /\ Live(c) /\ i < N
    BY DEF InTurns, OffIsQuiet, BroadcastSlot
  <2>2. i \in 0 .. N
    BY DEF CoresTypeOK
  <2> QED
    BY <2>1, <2>2, NAssumption DEF Core
<1>1. /\ cursor' = [cursor EXCEPT ![c] = i + 1]
      /\ UNCHANGED <<on, start, applied, stop, halt, par, pc, ret, taken>>
  BY DEF BroadcastSlot
<1>2. \/ UNCHANGED <<inbox, posted, waits>>
      \/ /\ inbox' = [inbox EXCEPT ![i] = @ + 1]
         /\ posted' = [posted EXCEPT ![i] = @ + 1]
         /\ waits' = [waits EXCEPT ![c] = @ \cup {<<i, posted[i] + 1>>}]
  BY DEF BroadcastSlot
<1>3. cursor' \in [Core -> 0 .. N]
  <2>1. i + 1 \in 0 .. N
    BY <1>0, NAssumption DEF Core
  <2> QED
    BY <1>1, <2>1 DEF CoresTypeOK
<1> HIDE DEF i
<1>4. CoresTypeOK'
  <2>1. inbox' \in [Core -> Nat] /\ posted' \in [Core -> Nat]
    BY <1>0, <1>2 DEF CoresTypeOK
  <2>2. waits' \in [Core -> SUBSET (Core \X Nat)]
    <3>1. waits[c] \cup {<<i, posted[i] + 1>>} \in SUBSET (Core \X Nat)
      BY <1>0 DEF CoresTypeOK
    <3> QED
      BY <1>2, <3>1 DEF CoresTypeOK
  <2> QED
    BY <1>1, <1>3, <2>1, <2>2 DEF CoresTypeOK
<1>5. Shape'
  <2>0. \A d \in Core \ {c} : waits'[d] = waits[d]
    BY <1>2 DEF CoresTypeOK
  <2>1. /\ \A d \in Core : taken'[d] # 0 => pc'[d] \in {"topdone", "acksdone"}
        /\ \A d \in Core : start'[d] => on'[d]
    BY <1>1 DEF Shape
  <2>2. \A d \in Core : cursor'[d] # 0 => pc'[d] \in {"bcast", "scan"}
    BY <1>0, <1>1 DEF Shape, CoresTypeOK
  <2>3. \A d \in Core : pc'[d] \in Waiting => waits'[d] # {}
    BY <1>0, <1>1, <2>0 DEF Shape, Waiting
  <2>4. \A d \in Core : waits'[d] # {} =>
           /\ Live(d)'
           /\ pc'[d] \in Waiting \cup {"bcast"} \/ (Ending' /\ pc'[d] # "exec")
    BY <1>0, <1>1, <2>0 DEF Shape, Live, Ending
  <2> QED
    BY <2>1, <2>2, <2>3, <2>4 DEF Shape
<1>6. InTurns'
  BY <1>0, <1>1 DEF InTurns
<1>7. Accounting'
  <2>1. \A d \in Core : posted'[d] - inbox'[d] = posted[d] - inbox[d]
    BY <1>0, <1>2 DEF CoresTypeOK
  <2> QED
    BY <1>0, <1>1, <1>4, <2>1 DEF Accounting, CoresTypeOK
<1>8. OffIsQuiet' /\ AllOffHalts'
  BY <1>1 DEF OffIsQuiet, AllOffHalts, Live
<1> QED
  BY <1>4, <1>5, <1>6, <1>7, <1>8

-----------------------------------------------------------------------------
\* CPU_ON turns on a core that is off, so not the caller: it has no context.
LEMMA CpuOnCInv ==
    ASSUME CInv, NEW c \in Core, NEW i \in Core, CpuOn(c, i)
    PROVE  CInv'
<1> USE DEF CInv
<1>0. /\ par /\ taken[c] = 0 /\ cursor[c] = 0 /\ waits[c] = {} /\ pc[c] = "exec" /\ Live(c)
  BY DEF Shape, InTurns, CpuOn, OffIsQuiet, Waiting
<1>1. /\ pc' = [pc EXCEPT ![c] = "chk"]
      /\ UNCHANGED <<inbox, posted, applied, stop, halt, par, ret, cursor, taken, waits>>
  BY DEF CpuOn, Goto
<1>2. CASE on[i]
  <2>1. UNCHANGED slots
    BY <1>1, <1>2 DEF CpuOn, slots
  <2> QED
    BY <1>0, <1>1, <2>1, Move DEF Goto, PC, Waiting
<1>3. CASE ~on[i]
  <2>1. /\ start' = [start EXCEPT ![i] = TRUE]
        /\ on' = [on EXCEPT ![i] = TRUE]
        /\ i # c
    BY <1>0, <1>3 DEF CpuOn, Live
  <2>2. CoresTypeOK'
    <3>1. start' \in [Core -> BOOLEAN] /\ on' \in [Core -> BOOLEAN]
      BY <2>1, Zenon DEF CoresTypeOK
    <3> QED
      BY <1>1, <3>1 DEF CoresTypeOK, PC
  <2>3. Shape'
    <3>1. /\ \A d \in Core : taken'[d] # 0 => pc'[d] \in {"topdone", "acksdone"}
          /\ \A d \in Core : cursor'[d] # 0 => pc'[d] \in {"bcast", "scan"}
          /\ \A d \in Core : pc'[d] \in Waiting => waits'[d] # {}
      BY <1>0, <1>1 DEF Shape, CoresTypeOK, Waiting
    <3>2. \A d \in Core : waits'[d] # {} =>
             /\ Live(d)'
             /\ pc'[d] \in Waiting \cup {"bcast"} \/ (Ending' /\ pc'[d] # "exec")
      BY <1>0, <1>1, <1>3, <2>1 DEF Shape, CoresTypeOK, Live, Ending
    <3>3. \A d \in Core : start'[d] => on'[d]
      BY <2>1 DEF Shape, CoresTypeOK
    <3> QED
      BY <3>1, <3>2, <3>3 DEF Shape
  <2>4. InTurns' /\ Accounting'
    BY <1>0, <1>1 DEF InTurns, Accounting
  <2>5. OffIsQuiet'
    BY <1>0, <1>1, <1>3, <2>1 DEF OffIsQuiet, Live, CoresTypeOK
  <2>6. AllOffHalts'
    BY <2>1 DEF AllOffHalts, CoresTypeOK
  <2> QED
    BY <2>2, <2>3, <2>4, <2>5, <2>6
<1> QED
  BY <1>2, <1>3

\* CPU_OFF: the core waits for nobody, and looks whether it was the last.
LEMMA CpuOffCInv ==
    ASSUME CInv, NEW c \in Core, CpuOff(c)
    PROVE  CInv'
<1> USE DEF CInv
<1>0. /\ par /\ taken[c] = 0 /\ cursor[c] = 0 /\ waits[c] = {} /\ pc[c] = "exec" /\ Live(c)
  BY DEF Shape, InTurns, CpuOff, OffIsQuiet, Waiting
<1>1. /\ pc' = [pc EXCEPT ![c] = "scan"]
      /\ on' = [on EXCEPT ![c] = FALSE]
      /\ UNCHANGED <<start, inbox, posted, applied, stop, halt, par, ret, cursor, taken, waits>>
  BY DEF CpuOff, Goto
<1>2. CoresTypeOK'
  <2>1. on' \in [Core -> BOOLEAN]
    BY <1>1, Zenon DEF CoresTypeOK
  <2> QED
    BY <1>1, <2>1 DEF CoresTypeOK, PC
<1>3. Shape'
  <2>1. /\ \A d \in Core : taken'[d] # 0 => pc'[d] \in {"topdone", "acksdone"}
        /\ \A d \in Core : cursor'[d] # 0 => pc'[d] \in {"bcast", "scan"}
        /\ \A d \in Core : pc'[d] \in Waiting => waits'[d] # {}
    BY <1>0, <1>1 DEF Shape, CoresTypeOK, Waiting
  <2>2. \A d \in Core : waits'[d] # {} =>
           /\ Live(d)'
           /\ pc'[d] \in Waiting \cup {"bcast"} \/ (Ending' /\ pc'[d] # "exec")
    BY <1>0, <1>1 DEF Shape, CoresTypeOK, Live, Ending
  <2>3. \A d \in Core : start'[d] => on'[d]
    BY <1>0, <1>1 DEF Shape, CoresTypeOK, Live
  <2> QED
    BY <2>1, <2>2, <2>3 DEF Shape
<1>4. InTurns' /\ Accounting'
  BY <1>0, <1>1 DEF InTurns, Accounting
<1>5. OffIsQuiet'
  BY <1>0, <1>1 DEF OffIsQuiet, Live, CoresTypeOK
<1>6. AllOffHalts'
  <2>1. pc'[c] = "scan"
    BY <1>1 DEF CoresTypeOK
  <2> QED
    BY <2>1 DEF AllOffHalts
<1> QED
  BY <1>2, <1>3, <1>4, <1>5, <1>6

-----------------------------------------------------------------------------
\* The all-off scan ends at a core that is on, or past the last slot with the
\* machine powered off.
LEMMA ScanCInv ==
    ASSUME CInv, NEW c \in Core, ScanSlot(c) \/ ScanAllOff(c)
    PROVE  CInv'
<1> USE DEF CInv
<1>0. par /\ pc[c] = "scan" /\ taken[c] = 0 /\ cursor[c] \in 0 .. N
  BY DEF Shape, InTurns, ScanSlot, ScanAllOff, CoresTypeOK
<1>1. UNCHANGED <<slots, stop, par, ret, taken, waits>>
  BY DEF ScanSlot, ScanAllOff
<1>2. PICK l \in {"top", "scan"}, k \in 0 .. N :
         /\ pc' = [pc EXCEPT ![c] = l]
         /\ cursor' = [cursor EXCEPT ![c] = k]
         /\ k # 0 => l = "scan"
         /\ l = "top" => halt' # 0 \/ \E d \in Core : on[d]
         /\ halt' \in {halt, 1}
  <2>1. CASE ScanSlot(c) /\ on[cursor[c]]
    <3>1. cursor[c] \in Core
      BY <1>0, <2>1, NAssumption DEF ScanSlot, Core
    <3>2. 0 \in 0 .. N
      BY NAssumption
    <3>3. /\ pc' = [pc EXCEPT ![c] = "top"] /\ cursor' = [cursor EXCEPT ![c] = 0]
          /\ halt' = halt /\ \E d \in Core : on[d]
      BY <2>1, <3>1 DEF ScanSlot, Goto
    <3> WITNESS "top" \in {"top", "scan"}, 0 \in 0 .. N
    <3> QED
      BY <3>3
  <2>2. CASE ScanSlot(c) /\ ~on[cursor[c]]
    <3>1. cursor[c] + 1 \in 0 .. N
      BY <1>0, <2>2, NAssumption DEF ScanSlot
    <3>2. pc' = [pc EXCEPT ![c] = "scan"]
      BY <1>0, <2>2 DEF ScanSlot, CoresTypeOK
    <3> QED
      BY <2>2, <3>1, <3>2 DEF ScanSlot
  <2>3. CASE ScanAllOff(c)
    <3>1. 0 \in 0 .. N
      BY NAssumption
    <3>2. pc' = [pc EXCEPT ![c] = "top"] /\ cursor' = [cursor EXCEPT ![c] = 0] /\ halt' = 1
      BY <2>3 DEF ScanAllOff, Goto
    <3> WITNESS "top" \in {"top", "scan"}, 0 \in 0 .. N
    <3> QED
      BY <3>2
  <2> QED
    BY <2>1, <2>2, <2>3
<1>3. CoresTypeOK'
  BY <1>1, <1>2 DEF CoresTypeOK, PC, slots
<1>4. Shape'
  <2>1. /\ \A d \in Core : taken'[d] # 0 => pc'[d] \in {"topdone", "acksdone"}
        /\ \A d \in Core : cursor'[d] # 0 => pc'[d] \in {"bcast", "scan"}
        /\ \A d \in Core : pc'[d] \in Waiting => waits'[d] # {}
        /\ \A d \in Core : start'[d] => on'[d]
    BY <1>0, <1>1, <1>2 DEF Shape, CoresTypeOK, Waiting, slots
  <2>2. Ending => Ending'
    BY <1>1, <1>2 DEF Ending, CoresTypeOK
  <2>3. \A d \in Core : waits'[d] # {} =>
           /\ Live(d)'
           /\ pc'[d] \in Waiting \cup {"bcast"} \/ (Ending' /\ pc'[d] # "exec")
    BY <1>0, <1>1, <1>2, <2>2 DEF Shape, CoresTypeOK, Live, Waiting, slots
  <2> QED
    BY <2>1, <2>3 DEF Shape
<1>5. InTurns' /\ Accounting'
  BY <1>0, <1>1 DEF InTurns, Accounting, slots
<1>6. OffIsQuiet'
  BY <1>1, <1>2 DEF OffIsQuiet, Live, CoresTypeOK, slots
<1>7. AllOffHalts'
  BY <1>0, <1>1, <1>2 DEF AllOffHalts, CoresTypeOK, slots
<1> QED
  BY <1>3, <1>4, <1>5, <1>6, <1>7

\* SYSTEM_OFF and SYSTEM_RESET.
LEMMA SystemHaltCInv ==
    ASSUME CInv, NEW c \in Core, SystemHalt(c)
    PROVE  CInv'
<1> USE DEF CInv
<1>0. /\ par /\ taken[c] = 0 /\ cursor[c] = 0 /\ waits[c] = {}
  BY DEF Shape, InTurns, SystemHalt, Waiting
<1>1. /\ UNCHANGED <<slots, stop, par, ret, cursor, taken, waits>>
      /\ pc' = [pc EXCEPT ![c] = "top"]
      /\ halt' \in {1, 2}
  BY DEF SystemHalt, Goto
<1>2. CoresTypeOK'
  BY <1>1 DEF CoresTypeOK, PC, slots
<1>3. Shape'
  BY <1>0, <1>1 DEF Shape, CoresTypeOK, Waiting, Live, Ending, slots
<1>4. InTurns' /\ Accounting'
  BY <1>0, <1>1 DEF InTurns, Accounting, slots
<1>5. OffIsQuiet' /\ AllOffHalts'
  BY <1>1 DEF OffIsQuiet, AllOffHalts, Live, CoresTypeOK, slots
<1> QED
  BY <1>2, <1>3, <1>4, <1>5

\* The host asks for the cores, and has them.
LEMMA HostCInv ==
    ASSUME CInv, RequestStop \/ StopParallel
    PROVE  CInv'
<1> USE DEF CInv
<1>1. CASE RequestStop
  <2>1. stop' /\ UNCHANGED <<slots, halt, par, threads>>
    BY <1>1 DEF RequestStop
  <2>2. CoresTypeOK'
    <3>1. stop' \in BOOLEAN
      BY <1>1, Zenon DEF RequestStop
    <3> QED
      BY <2>1, <3>1 DEF CoresTypeOK, slots, threads
  <2>3. Shape'
    BY <2>1 DEF Shape, Live, Ending, slots, threads
  <2> QED
    BY <2>1, <2>2, <2>3 DEF InTurns, Accounting, OffIsQuiet, AllOffHalts, Live, slots, threads
<1>2. CASE StopParallel
  <2>1. /\ start' = [d \in Core |-> FALSE] /\ inbox' = [d \in Core |-> 0]
        /\ waits' = [d \in Core |-> {}] /\ stop' = FALSE /\ par' = FALSE
        /\ UNCHANGED <<on, posted, applied, halt, pc, ret, cursor, taken>>
        /\ \A d \in Core : pc[d] = "out"
    BY <1>2 DEF StopParallel
  <2>2. CoresTypeOK'
    <3>1. start' \in [Core -> BOOLEAN] /\ stop' \in BOOLEAN /\ par' \in BOOLEAN
      BY <2>1, Zenon
    <3> QED
      BY <2>1, <3>1 DEF CoresTypeOK
  <2>3. Shape'
    BY <2>1 DEF Shape, Waiting
  <2>4. InTurns' /\ Accounting' /\ OffIsQuiet' /\ AllOffHalts'
    BY <2>1 DEF InTurns, Accounting, OffIsQuiet, AllOffHalts
  <2> QED
    BY <2>2, <2>3, <2>4
<1> QED
  BY <1>1, <1>2

\* The cores go in parallel again.
LEMMA StartParallelCInv ==
    ASSUME CInv, StartParallel
    PROVE  CInv'
<1> USE DEF CInv
<1>1. /\ posted' = [d \in Core |-> 0] /\ applied' = [d \in Core |-> 0]
      /\ halt' = 0 /\ par' = TRUE
      /\ UNCHANGED <<start, inbox, stop, pc, ret, cursor, taken, waits>>
      /\ \A d \in Core : pc[d] = "out" /\ waits[d] = {} /\ inbox[d] = 0 /\ ~start[d] /\ taken[d] = 0
  BY DEF StartParallel, InTurns, Shape
<1>2. on' \in [Core -> BOOLEAN] /\ \E d \in Core : on'[d]
  BY Zenon DEF StartParallel
<1>3. CoresTypeOK'
  <2>1. par' \in BOOLEAN
    BY <1>1, Zenon
  <2> QED
    BY <1>1, <1>2, <2>1 DEF CoresTypeOK
<1>4. Shape'
  BY <1>1 DEF Shape, Waiting
<1>5. InTurns'
  BY <1>1 DEF InTurns
<1>6. Accounting'
  BY <1>1 DEF Accounting
<1>7. OffIsQuiet'
  BY <1>1 DEF OffIsQuiet
<1>8. AllOffHalts'
  BY <1>2 DEF AllOffHalts
<1> QED
  BY <1>3, <1>4, <1>5, <1>6, <1>7, <1>8

\* Steps that leave what the cores share alone.
LEMMA StutterCInv ==
    ASSUME CInv, UNCHANGED coreVars
    PROVE  CInv'
<1> USE DEF coreVars, slots, threads
<1>1. CoresTypeOK'
  BY DEF CInv, CoresTypeOK
<1>2. Shape'
  BY DEF CInv, Shape, Live, Ending
<1>3. InTurns' /\ Accounting' /\ OffIsQuiet' /\ AllOffHalts'
  BY DEF CInv, InTurns, Accounting, OffIsQuiet, AllOffHalts, Live
<1> QED
  BY <1>1, <1>2, <1>3 DEF CInv

-----------------------------------------------------------------------------
(* TLBIs.                                                                  *)

\* A TLBI between Cores::broadcast and the last acknowledgement.
InFlight(c) == pc[c] = "bcast" \/ waits[c] # {}

\* The TLBI of c has not been applied by i: the broadcast has not reached the
\* slot, or c waits for more than i has applied.
Behind(c, i) ==
    \/ pc[c] = "bcast" /\ cursor[c] <= i
    \/ \E n \in Nat : <<i, n>> \in waits[c] /\ applied[i] + taken[i] < n

\* Translations and TLBIs are of entries that were in the tables.
Entries == gone <= entry /\ \A c \in Core : tlb[c] <= entry /\ need[c] <= entry

\* The issuer of a TLBI in flight has no translation itself ...
IssuerClean == \A c \in Core : InFlight(c) => tlb[c] = 0

\* ... and a core with an older one than the TLBI was for is behind.
StaleIsBehind ==
    \A c, i \in Core : InFlight(c) /\ Live(i) /\ tlb[i] # 0 /\ tlb[i] < need[c] => Behind(c, i)

TlbInv == Entries /\ NoStaleTranslation /\ IssuerClean /\ StaleIsBehind

IInv == TypeOK /\ CInv /\ TlbInv

-----------------------------------------------------------------------------
\* No TLBI is in flight at the start, and no TLB holds anything.
LEMMA InitIInv == Init => IInv
<1> SUFFICES ASSUME Init PROVE IInv
  OBVIOUS
<1>1. CInv
  BY CoresInitCInv DEF Init
<1>2. TypeOK
  BY <1>1, MaxEntryAssumption DEF Init, TypeOK, CInv
<1>3. TlbInv
  BY <1>2 DEF Init, CoresInit, TypeOK, TlbInv, Entries, NoStaleTranslation, IssuerClean,
              StaleIsBehind, InFlight
<1> QED
  BY <1>1, <1>2, <1>3 DEF IInv

\* A step of the cores keeps what they share consistent.
LEMMA NextCInv ==
    ASSUME IInv, Next
    PROVE  CInv'
<1> USE DEF IInv
<1>1. ASSUME NEW c \in Core, Step(c) PROVE CInv'
  <2>1. CASE Translate(c) \/ Remap(c)
    BY <2>1, StutterCInv DEF Translate, Remap
  <2>2. CASE Tlbi(c)
    BY <2>2, MovesCInv DEF Tlbi
  <2>3. CASE TopService(c) \/ WaitService(c)
    BY <2>3, TakeCInv DEF TopService, WaitService
  <2>4. CASE TlbiAlone(c) \/ TlbiPosted(c) \/ TlbiDone(c)
    BY <2>4, LeaveCInv DEF TlbiAlone, TlbiPosted, TlbiDone
  <2>5. CASE PowerOnReset(c)
    BY <2>5, PowerOnCInv DEF PowerOnReset
  <2>6. CASE Thread(c)
    <3>1. CASE \/ RunEnter(c) \/ RunHalted(c) \/ RunReturn(c) \/ RunBlocked(c) \/ RunOff(c)
               \/ RunGuest(c) \/ StretchEnd(c) \/ StretchRun(c)
      BY <3>1, MovesCInv
    <3>2. CASE RunServed(c) \/ AcksServed(c)
      BY <3>2, ServedCInv
    <3>3. CASE ExecEnd(c) \/ AcksPoll(c)
      BY <3>3, LeaveCInv
    <3>4. CASE BroadcastSlot(c)
      BY <3>4, BroadcastSlotCInv
    <3>5. CASE \E i \in Core : CpuOn(c, i)
      BY <3>5, CpuOnCInv
    <3>6. CASE CpuOff(c)
      BY <3>6, CpuOffCInv
    <3>7. CASE ScanSlot(c) \/ ScanAllOff(c)
      BY <3>7, ScanCInv
    <3>8. CASE SystemHalt(c)
      BY <3>8, SystemHaltCInv
    <3> QED
      BY <2>6, <3>1, <3>2, <3>3, <3>4, <3>5, <3>6, <3>7, <3>8 DEF Thread
  <2> QED
    BY <1>1, <2>1, <2>2, <2>3, <2>4, <2>5, <2>6 DEF Step
<1>2. CASE Host \/ Rejoin
  BY <1>2, HostCInv DEF Host, Rejoin
<1>3. CASE Split
  BY <1>3, StartParallelCInv DEF Split
<1> QED
  BY <1>1, <1>2, <1>3 DEF Next

\* A step that starts no TLBI and completes none, and caches nothing, keeps
\* the invariant if no core goes on executing with its translation, or stops
\* being awaited with it, in that step.
LEMMA Quiet ==
    ASSUME IInv, UNCHANGED <<entry, need, gone>>,
           tlb' \in [Core -> 0 .. MaxEntry],
           \A d \in Core : tlb'[d] # 0 => tlb'[d] = tlb[d],
           \A d \in Core : Live(d)' /\ tlb'[d] # 0 => Live(d),
           \A d \in Core : InFlight(d)' => InFlight(d),
           \A d, i \in Core : InFlight(d)' /\ Live(i)' /\ tlb'[i] # 0 /\ Behind(d, i) => Behind(d, i)'
    PROVE  TlbInv'
<1> USE DEF IInv, TlbInv
<1>0. /\ entry \in Nat /\ gone \in Nat
      /\ \A d \in Core : tlb[d] \in Nat /\ need[d] \in Nat /\ tlb'[d] \in Nat
  BY MaxEntryAssumption DEF TypeOK
<1>1. Entries'
  BY <1>0 DEF Entries
<1>2. NoStaleTranslation'
  BY <1>0 DEF NoStaleTranslation
<1>3. IssuerClean'
  BY <1>0 DEF IssuerClean
<1>4. StaleIsBehind'
  BY <1>0 DEF StaleIsBehind
<1> QED
  BY <1>1, <1>2, <1>3, <1>4

\* A step that moves a core, into no broadcast and out of none, and leaves the
\* slots, the lists of waits and the TLBs as they are.
LEMMA MoveTlb ==
    ASSUME IInv, NEW c \in Core, UNCHANGED tlbVars,
           UNCHANGED <<on, start, applied, taken, waits>>,
           NEW l \in PC \ {"bcast"}, pc' = [pc EXCEPT ![c] = l], pc[c] # "bcast",
           \A d \in Core : pc[d] = "bcast" => cursor'[d] = cursor[d]
    PROVE  TlbInv'
<1> USE DEF IInv
<1>1. \A d \in Core : pc'[d] = "bcast" <=> pc[d] = "bcast"
  BY DEF CInv, CoresTypeOK
<1>2. \A d \in Core : /\ Live(d)' <=> Live(d)
                      /\ InFlight(d)' <=> InFlight(d)
  BY <1>1 DEF Live, InFlight
<1>3. \A d, i \in Core : Behind(d, i) => Behind(d, i)'
  BY <1>1 DEF Behind
<1> QED
  BY <1>2, <1>3, Quiet DEF tlbVars, TypeOK

\* The steps that only move a core, or halt the machine.
LEMMA MovesTlb ==
    ASSUME IInv, NEW c \in Core, UNCHANGED tlbVars,
           \/ RunEnter(c) \/ RunHalted(c) \/ RunReturn(c) \/ RunBlocked(c) \/ RunOff(c)
           \/ RunGuest(c) \/ StretchEnd(c) \/ StretchRun(c) \/ ExecEnd(c) \/ AcksPoll(c)
           \/ ScanSlot(c) \/ ScanAllOff(c) \/ SystemHalt(c)
    PROVE  TlbInv'
<1> USE DEF IInv, CInv
<1>1. CASE \/ RunEnter(c) \/ RunHalted(c) \/ RunReturn(c) \/ RunBlocked(c) \/ RunOff(c)
           \/ RunGuest(c) \/ StretchEnd(c) \/ StretchRun(c)
  <2>1. /\ UNCHANGED <<slots, cursor, taken, waits>>
        /\ \E l \in {"top", "out", "chk", "exec"} : pc' = [pc EXCEPT ![c] = l]
        /\ pc[c] # "bcast"
    BY <1>1 DEF RunEnter, RunHalted, RunReturn, RunBlocked, RunOff, RunGuest, StretchEnd,
                StretchRun, Goto
  <2> QED
    BY <2>1, MoveTlb DEF slots, PC
<1>2. CASE ExecEnd(c) \/ AcksPoll(c) \/ SystemHalt(c)
  <2>1. /\ UNCHANGED <<slots, cursor, taken, waits>>
        /\ \E l \in {"top", "acks", "chk", "gate"} : pc' = [pc EXCEPT ![c] = l]
        /\ pc[c] # "bcast"
    BY <1>2 DEF ExecEnd, AcksPoll, SystemHalt, Leave, Goto, CoresTypeOK
  <2> QED
    BY <2>1, MoveTlb DEF slots, PC
<1>3. CASE ScanSlot(c) \/ ScanAllOff(c)
  <2>1. /\ UNCHANGED <<slots, taken, waits>>
        /\ pc[c] = "scan"
        /\ \E l \in {"top", "scan"} : pc' = [pc EXCEPT ![c] = l]
        /\ \A d \in Core \ {c} : cursor'[d] = cursor[d]
    BY <1>3 DEF ScanSlot, ScanAllOff, Goto, CoresTypeOK
  <2> QED
    BY <2>1, MoveTlb DEF slots, PC
<1> QED
  BY <1>1, <1>2, <1>3

\* Requests taken are applied at once, and acknowledged afterwards.
LEMMA ServiceTlb ==
    ASSUME IInv, NEW c \in Core, TopService(c) \/ WaitService(c)
    PROVE  TlbInv'
<1> USE DEF IInv, CInv
<1>1. /\ UNCHANGED <<on, start, applied, cursor, waits, entry, need, gone>>
      /\ taken' = [taken EXCEPT ![c] = inbox[c]]
      /\ pc[c] # "bcast" /\ taken[c] = 0
      /\ IF inbox[c] = 0 THEN tlb' = tlb ELSE tlb' = [tlb EXCEPT ![c] = 0]
  BY DEF TopService, WaitService, RunService, AcksService, Take, ApplyTaken, Invalidate, Shape
<1>2. PICK l \in PC \ {"bcast"} : pc' = [pc EXCEPT ![c] = l]
  BY DEF TopService, WaitService, RunService, AcksService, AfterTopService, Goto, PC
<1>3. \A d \in Core : pc'[d] = "bcast" <=> pc[d] = "bcast"
  BY <1>1, <1>2 DEF CoresTypeOK
<1>4. \A d \in Core : /\ Live(d)' <=> Live(d)
                      /\ InFlight(d)' <=> InFlight(d)
  BY <1>1, <1>3 DEF Live, InFlight
<1>5. /\ tlb' \in [Core -> 0 .. MaxEntry]
      /\ \A d \in Core : tlb'[d] # 0 => tlb'[d] = tlb[d]
  BY <1>1, MaxEntryAssumption DEF TypeOK
<1>6. \A d \in Core : tlb'[d] # 0 => taken'[d] = taken[d]
  BY <1>1 DEF TypeOK, CoresTypeOK
<1>7. \A d, i \in Core : tlb'[i] # 0 /\ Behind(d, i) => Behind(d, i)'
  BY <1>1, <1>3, <1>6 DEF Behind
<1> QED
  BY <1>1, <1>4, <1>5, <1>7, Quiet

\* An acknowledgement (Cores::done) counts what was already applied.
LEMMA ServedTlb ==
    ASSUME IInv, NEW c \in Core, UNCHANGED tlbVars, RunServed(c) \/ AcksServed(c)
    PROVE  TlbInv'
<1> USE DEF IInv, CInv
<1>1. /\ UNCHANGED <<on, start, cursor, waits>>
      /\ applied' = [applied EXCEPT ![c] = @ + taken[c]]
      /\ taken' = [taken EXCEPT ![c] = 0]
      /\ pc[c] # "bcast"
  BY DEF RunServed, AcksServed
<1>2. PICK l \in PC \ {"bcast"} : pc' = [pc EXCEPT ![c] = l]
  BY DEF RunServed, AcksServed, AfterTopService, Goto, PC
<1>3. \A d \in Core : pc'[d] = "bcast" <=> pc[d] = "bcast"
  BY <1>1, <1>2 DEF CoresTypeOK
<1>4. \A d \in Core : /\ Live(d)' <=> Live(d)
                      /\ InFlight(d)' <=> InFlight(d)
  BY <1>1, <1>3 DEF Live, InFlight
<1>5. \A i \in Core : applied'[i] + taken'[i] = applied[i] + taken[i]
  BY <1>1 DEF CoresTypeOK
<1>6. \A d, i \in Core : Behind(d, i) => Behind(d, i)'
  BY <1>1, <1>3, <1>5 DEF Behind
<1> QED
  BY <1>4, <1>6, Quiet DEF tlbVars, TypeOK

\* The broadcast reaches a slot: a core that is on owes an acknowledgement,
\* one that is off executes nothing.
LEMMA BroadcastSlotTlb ==
    ASSUME IInv, NEW c \in Core, UNCHANGED tlbVars, BroadcastSlot(c)
    PROVE  TlbInv'
<1> USE DEF IInv, CInv
<1> DEFINE k == cursor[c]
<1>1. /\ UNCHANGED <<on, start, applied, taken, pc>>
      /\ cursor' = [cursor EXCEPT ![c] = k + 1]
      /\ pc[c] = "bcast"
      /\ \A d \in Core \ {c} : waits'[d] = waits[d]
      /\ waits[c] \subseteq waits'[c]
      /\ k = c \/ ~on[k] \/ <<k, posted[k] + 1>> \in waits'[c]
  <2>1. DOMAIN waits = Core
    BY DEF CoresTypeOK
  <2>2. /\ UNCHANGED <<on, start, applied, taken, pc>>
        /\ cursor' = [cursor EXCEPT ![c] = k + 1]
        /\ pc[c] = "bcast"
    BY DEF BroadcastSlot
  <2>3. \/ waits' = waits /\ (k = c \/ ~on[k])
        \/ waits' = [waits EXCEPT ![c] = @ \cup {<<k, posted[k] + 1>>}]
    BY DEF BroadcastSlot
  <2> HIDE DEF k
  <2>4. CASE waits' = waits /\ (k = c \/ ~on[k])
    BY <2>2, <2>4
  <2>5. CASE waits' = [waits EXCEPT ![c] = @ \cup {<<k, posted[k] + 1>>}]
    <3>1. \A d \in Core \ {c} : waits'[d] = waits[d]
      BY <2>1, <2>5
    <3>2. waits'[c] = waits[c] \cup {<<k, posted[k] + 1>>}
      BY <2>1, <2>5
    <3> QED
      BY <2>2, <3>1, <3>2
  <2> QED
    BY <2>3, <2>4, <2>5
<1>2. k \in Core /\ k \in Int
  <2>1. k \in 0 .. N
    BY DEF CoresTypeOK
  <2>2. k < N
    BY DEF BroadcastSlot
  <2> QED
    BY <2>1, <2>2, NAssumption DEF Core
<1> HIDE DEF k
<1>3. applied[k] + taken[k] < posted[k] + 1 /\ posted[k] + 1 \in Nat
  <2>1. posted[k] = applied[k] + taken[k] + inbox[k]
    BY <1>1, <1>2 DEF Accounting, InTurns
  <2> QED
    BY <1>2, <2>1 DEF CoresTypeOK
<1>4. \A d \in Core : /\ Live(d)' <=> Live(d)
                      /\ InFlight(d)' <=> InFlight(d)
  BY <1>1 DEF Live, InFlight
<1>5. ASSUME NEW d \in Core, NEW i \in Core, Live(i), tlb[i] # 0, Behind(d, i)
      PROVE  Behind(d, i)'
  <2>1. CASE d # c
    BY <1>1, <1>5, <2>1 DEF Behind, CoresTypeOK
  <2>2. CASE d = c /\ \E n \in Nat : <<i, n>> \in waits[c] /\ applied[i] + taken[i] < n
    BY <1>1, <2>2 DEF Behind
  <2>3. CASE d = c /\ k <= i /\ i # k
    <3>1. cursor'[c] = k + 1 /\ k + 1 <= i
      BY <1>1, <1>2, <2>3 DEF CoresTypeOK, Core
    <3> QED
      BY <1>1, <2>3, <3>1 DEF Behind
  <2>4. CASE d = c /\ i = k
    <3>1. k # c /\ on[k]
      BY <1>1, <1>5, <2>4 DEF Live, TlbInv, IssuerClean, InFlight
    <3> QED
      BY <1>1, <1>3, <2>4, <3>1 DEF Behind
  <2> QED
    BY <1>5, <2>1, <2>2, <2>3, <2>4 DEF Behind, k
<1> QED
  BY <1>4, <1>5, Quiet DEF tlbVars, TypeOK

-----------------------------------------------------------------------------
\* PSCI: a core turned on does not execute before its reset, which empties
\* its TLB; a core turned off does not execute.
LEMMA PsciTlb ==
    ASSUME IInv, NEW c \in Core,
           \/ UNCHANGED tlbVars /\ \E i \in Core : CpuOn(c, i)
           \/ UNCHANGED tlbVars /\ CpuOff(c)
           \/ PowerOnReset(c)
    PROVE  TlbInv'
<1> USE DEF IInv, CInv
<1>1. /\ UNCHANGED <<applied, taken, cursor, waits, entry, need, gone>>
      /\ pc[c] # "bcast"
      /\ tlb' = tlb \/ tlb' = [tlb EXCEPT ![c] = 0]
  BY DEF CpuOn, CpuOff, PowerOnReset, PowerOn, Invalidate, tlbVars
<1>2. PICK l \in PC \ {"bcast"} : pc' = [pc EXCEPT ![c] = l]
  BY DEF CpuOn, CpuOff, PowerOnReset, PowerOn, Goto, PC
<1>3. \A d \in Core : pc'[d] = "bcast" <=> pc[d] = "bcast"
  BY <1>1, <1>2 DEF CoresTypeOK
<1>4. \A d \in Core : InFlight(d)' <=> InFlight(d)
  BY <1>1, <1>3 DEF InFlight
<1>5. /\ tlb' \in [Core -> 0 .. MaxEntry]
      /\ \A d \in Core : tlb'[d] # 0 => tlb'[d] = tlb[d]
  BY <1>1, MaxEntryAssumption DEF TypeOK
<1>6. \A d \in Core : Live(d)' /\ tlb'[d] # 0 => Live(d)
  <2>1. CASE \E i \in Core : CpuOn(c, i)
    BY <2>1 DEF CpuOn, Live, CoresTypeOK
  <2>2. CASE CpuOff(c)
    BY <2>2 DEF CpuOff, Live, CoresTypeOK
  <2>3. CASE PowerOnReset(c)
    BY <2>3 DEF PowerOnReset, PowerOn, Invalidate, Live, TypeOK, CoresTypeOK
  <2> QED
    BY <2>1, <2>2, <2>3
<1>7. \A d, i \in Core : Behind(d, i) => Behind(d, i)'
  BY <1>1, <1>3 DEF Behind
<1> QED
  BY <1>1, <1>4, <1>5, <1>6, <1>7, Quiet

\* A walk caches the entry the tables hold now; a store makes a newer one.
LEMMA TablesTlb ==
    ASSUME IInv, NEW c \in Core, Translate(c) \/ Remap(c)
    PROVE  TypeOK' /\ TlbInv'
<1> USE DEF IInv
<1>0. /\ entry \in Nat /\ gone \in Nat
      /\ \A d \in Core : tlb[d] \in Nat /\ need[d] \in Nat
  BY MaxEntryAssumption DEF TypeOK
<1>1. \A d \in Core : /\ Live(d)' <=> Live(d)
                      /\ InFlight(d)' <=> InFlight(d)
  BY DEF Translate, Remap, Live, InFlight, coreVars, slots, threads
<1>2. \A d, i \in Core : Behind(d, i) => Behind(d, i)'
  BY DEF Translate, Remap, Behind, coreVars, slots, threads
<1>3. CoresTypeOK'
  BY StutterCInv DEF Translate, Remap, CInv
<1>4. CASE Translate(c)
  <2>1. /\ tlb' = [tlb EXCEPT ![c] = entry] /\ UNCHANGED <<entry, need, gone>>
        /\ ~InFlight(c)
    BY <1>4, CInvAcks DEF Translate, NoGuestBeforeAcks, InFlight
  <2>2. TypeOK'
    BY <1>3, <2>1 DEF TypeOK
  <2>3. Entries' /\ NoStaleTranslation'
    BY <1>0, <1>1, <2>1 DEF TypeOK, TlbInv, Entries, NoStaleTranslation
  <2>4. IssuerClean'
    BY <1>1, <2>1 DEF TypeOK, TlbInv, IssuerClean
  <2>5. StaleIsBehind'
    BY <1>0, <1>1, <1>2, <2>1 DEF TypeOK, TlbInv, Entries, StaleIsBehind
  <2> QED
    BY <2>2, <2>3, <2>4, <2>5 DEF TlbInv
<1>5. CASE Remap(c)
  <2>1. entry' = entry + 1 /\ entry < MaxEntry /\ UNCHANGED <<tlb, need, gone>>
    BY <1>5 DEF Remap
  <2>2. TypeOK'
    BY <1>3, <2>1, MaxEntryAssumption DEF TypeOK
  <2>3. Entries'
    BY <1>0, <2>1 DEF TlbInv, Entries
  <2>4. NoStaleTranslation'
    BY <1>1, <2>1 DEF TlbInv, NoStaleTranslation
  <2>5. IssuerClean'
    BY <1>1, <2>1 DEF TlbInv, IssuerClean
  <2>6. StaleIsBehind'
    BY <1>1, <1>2, <2>1 DEF TlbInv, StaleIsBehind
  <2> QED
    BY <2>2, <2>3, <2>4, <2>5, <2>6 DEF TlbInv
<1> QED
  BY <1>4, <1>5

\* A TLBI starts: the issuer's own TLB is empty, nobody was reached yet.
LEMMA TlbiTlb ==
    ASSUME IInv, NEW c \in Core, Tlbi(c)
    PROVE  TlbInv'
<1> USE DEF IInv, CInv
<1>0. /\ entry \in Nat /\ gone \in Nat
      /\ \A d \in Core : tlb[d] \in Nat /\ need[d] \in Nat
  BY MaxEntryAssumption DEF TypeOK
<1>1. /\ tlb' = [tlb EXCEPT ![c] = 0] /\ need' = [need EXCEPT ![c] = entry]
      /\ UNCHANGED <<entry, gone, on, start, applied, taken, waits, cursor>>
      /\ pc' = [pc EXCEPT ![c] = "bcast"]
      /\ cursor[c] = 0
  BY DEF Tlbi, Broadcast, Invalidate, Goto, slots, Shape
<1>2. \A d \in Core : Live(d)' <=> Live(d)
  BY <1>1 DEF Live
<1>3. \A d \in Core \ {c} : InFlight(d)' <=> InFlight(d)
  BY <1>1 DEF InFlight, CoresTypeOK
<1>4. \A d \in Core \ {c}, i \in Core : Behind(d, i) => Behind(d, i)'
  BY <1>1 DEF Behind, CoresTypeOK
<1>5. \A i \in Core : Behind(c, i)'
  BY <1>1, NAssumption DEF Behind, CoresTypeOK, Core
<1>6. Entries' /\ NoStaleTranslation'
  BY <1>0, <1>1, <1>2 DEF TypeOK, TlbInv, Entries, NoStaleTranslation
<1>7. IssuerClean'
  BY <1>1, <1>3 DEF TypeOK, TlbInv, IssuerClean
<1>8. StaleIsBehind'
  BY <1>0, <1>1, <1>2, <1>3, <1>4, <1>5 DEF TypeOK, TlbInv, StaleIsBehind
<1> QED
  BY <1>6, <1>7, <1>8 DEF TlbInv

\* A TLBI completes: every core that executes is past its broadcast and owes
\* it nothing, so none holds an older translation.
LEMMA PastTlb ==
    ASSUME IInv, NEW c \in Core, TlbiAlone(c) \/ TlbiDone(c)
    PROVE  TlbInv'
<1> USE DEF IInv, CInv
<1>0. /\ entry \in Nat /\ gone \in Nat
      /\ \A d \in Core : tlb[d] \in Nat /\ need[d] \in Nat
  BY MaxEntryAssumption DEF TypeOK
<1>1. /\ UNCHANGED <<entry, tlb, need, on, start, applied, taken>>
      /\ gone' = IF need[c] > gone THEN need[c] ELSE gone
      /\ \A d \in Core \ {c} : waits'[d] = waits[d] /\ cursor'[d] = cursor[d]
      /\ waits'[c] = {}
  BY DEF TlbiAlone, TlbiDone, BroadcastEnd, AcksDone, Past, slots, CoresTypeOK
<1>2. PICK l \in PC \ {"bcast"} : pc' = [pc EXCEPT ![c] = l]
  <2>1. ret[c] \in {"gate", "chk"}
    BY DEF CoresTypeOK
  <2> QED
    BY <2>1 DEF TlbiAlone, TlbiDone, BroadcastEnd, AcksDone, Leave, Goto, PC
<1>3. InFlight(c) /\ \A i \in Core : Live(i) => ~Behind(c, i)
  <2>1. CASE TlbiAlone(c)
    <3>1. pc[c] = "bcast" /\ cursor[c] = N /\ waits[c] = {}
      BY <2>1 DEF TlbiAlone, BroadcastEnd
    <3>2. \A i \in Core : ~(N <= i)
      BY NAssumption DEF Core
    <3> QED
      BY <3>1, <3>2 DEF InFlight, Behind
  <2>2. CASE TlbiDone(c)
    <3>1. pc[c] # "bcast" /\ waits[c] # {} /\ Acked(c)
      BY <2>2 DEF TlbiDone, AcksDone, Shape, Waiting
    <3>2. \A i \in Core, n \in Nat : <<i, n>> \in waits[c] /\ Live(i) => applied[i] >= n
      BY <3>1 DEF Acked, Live
    <3>3. \A i \in Core : applied[i] \in Nat /\ taken[i] \in Nat
      BY DEF CoresTypeOK
    <3>4. ASSUME NEW i \in Core, Live(i), Behind(c, i) PROVE FALSE
      <4>1. PICK n \in Nat : <<i, n>> \in waits[c] /\ applied[i] + taken[i] < n
        BY <3>1, <3>4 DEF Behind
      <4> QED
        BY <3>2, <3>3, <3>4, <4>1
    <3> QED
      BY <3>1, <3>4 DEF InFlight
  <2> QED
    BY <2>1, <2>2
<1>4. \A i \in Core : Live(i) /\ tlb[i] # 0 => tlb[i] >= need[c]
  <2> SUFFICES ASSUME NEW i \in Core, Live(i), tlb[i] # 0 PROVE tlb[i] >= need[c]
    OBVIOUS
  <2>1. ~(tlb[i] < need[c])
    BY <1>3 DEF TlbInv, StaleIsBehind
  <2> QED
    BY <1>0, <2>1
<1>5. \A d \in Core : Live(d)' <=> Live(d)
  BY <1>1 DEF Live
<1>6. ~InFlight(c)' /\ \A d \in Core \ {c} : InFlight(d)' <=> InFlight(d)
  BY <1>1, <1>2 DEF InFlight, CoresTypeOK
<1>7. \A d \in Core \ {c}, i \in Core : Behind(d, i) => Behind(d, i)'
  BY <1>1, <1>2 DEF Behind, CoresTypeOK
<1>8. Entries' /\ NoStaleTranslation'
  BY <1>0, <1>1, <1>4, <1>5 DEF TlbInv, Entries, NoStaleTranslation
<1>9. IssuerClean' /\ StaleIsBehind'
  BY <1>1, <1>5, <1>6, <1>7 DEF TlbInv, IssuerClean, StaleIsBehind
<1> QED
  BY <1>8, <1>9 DEF TlbInv

\* The broadcast is over and acknowledgements are owed.
LEMMA PostedTlb ==
    ASSUME IInv, NEW c \in Core, TlbiPosted(c)
    PROVE  TlbInv'
<1> USE DEF IInv, CInv
<1>1. /\ UNCHANGED <<tlbVars, on, start, applied, taken, waits>>
      /\ \A d \in Core \ {c} : cursor'[d] = cursor[d]
      /\ cursor[c] = N
      /\ pc' = [pc EXCEPT ![c] = "acks"]
  BY DEF TlbiPosted, BroadcastEnd, Leave, Goto, slots, CoresTypeOK
<1>2. \A d \in Core : /\ Live(d)' <=> Live(d)
                      /\ InFlight(d)' => InFlight(d)
  BY <1>1 DEF Live, InFlight, CoresTypeOK
<1>3. \A d \in Core \ {c}, i \in Core : Behind(d, i) => Behind(d, i)'
  BY <1>1 DEF Behind, CoresTypeOK
<1>4. \A i \in Core : Behind(c, i) => Behind(c, i)'
  <2> SUFFICES ASSUME NEW i \in Core, Behind(c, i) PROVE Behind(c, i)'
    OBVIOUS
  <2>1. ~(cursor[c] <= i)
    BY <1>1, NAssumption DEF Core
  <2>2. PICK n \in Nat : <<i, n>> \in waits[c] /\ applied[i] + taken[i] < n
    BY <2>1 DEF Behind
  <2>3. waits' = waits /\ applied' = applied /\ taken' = taken
    BY <1>1
  <2> QED
    BY <2>2, <2>3 DEF Behind
<1> QED
  BY <1>1, <1>2, <1>3, <1>4, Quiet DEF tlbVars, TypeOK

\* The host takes the cores back, or gives them out: no TLBI is in flight.
LEMMA HostTlb ==
    ASSUME IInv, Host \/ Rejoin \/ Split
    PROVE  TypeOK' /\ TlbInv'
<1> USE DEF IInv
<1>0. /\ entry \in Nat /\ gone \in Nat
      /\ \A d \in Core : tlb[d] \in Nat /\ need[d] \in Nat
  BY MaxEntryAssumption DEF TypeOK
<1>1. CASE Host
  <2>1. TlbInv'
    BY <1>1 DEF Host, RequestStop, tlbVars, slots, threads, TlbInv, Entries, NoStaleTranslation,
                IssuerClean, StaleIsBehind, InFlight, Live, Behind
  <2> QED
    BY <1>1, <2>1, HostCInv DEF Host, tlbVars, TypeOK, CInv
<1>2. CASE Rejoin
  <2>1. /\ tlb' = [d \in Core |-> 0] /\ gone' = entry /\ UNCHANGED <<entry, need>>
        /\ \A d \in Core : ~InFlight(d)'
    BY <1>2 DEF Rejoin, StopParallel, InFlight
  <2>2. TypeOK'
    <3>1. CoresTypeOK'
      BY <1>2, HostCInv DEF Rejoin, CInv
    <3>2. tlb' \in [Core -> 0 .. MaxEntry]
      BY <2>1, MaxEntryAssumption
    <3> QED
      BY <2>1, <3>1, <3>2 DEF TypeOK
  <2>3. Entries'
    BY <1>0, <2>1 DEF TlbInv, Entries
  <2>4. NoStaleTranslation'
    BY <2>1 DEF NoStaleTranslation
  <2>5. IssuerClean' /\ StaleIsBehind'
    BY <2>1 DEF IssuerClean, StaleIsBehind
  <2> QED
    BY <2>2, <2>3, <2>4, <2>5 DEF TlbInv
<1>3. CASE Split
  <2>1. /\ tlb' \in [Core -> {0, entry}] /\ UNCHANGED <<entry, need, gone>>
        /\ \A d \in Core : ~InFlight(d)'
    BY <1>3 DEF Split, StartParallel, InFlight, CInv, InTurns
  <2>2. TypeOK'
    <3>1. CoresTypeOK'
      BY <1>3, StartParallelCInv DEF Split, CInv
    <3>2. entry \in 0 .. MaxEntry /\ {0, entry} \subseteq 0 .. MaxEntry
      BY MaxEntryAssumption DEF TypeOK
    <3>3. tlb' \in [Core -> 0 .. MaxEntry]
      BY <2>1, <3>2
    <3> QED
      BY <2>1, <3>1, <3>3 DEF TypeOK
  <2>3. \A d \in Core : tlb'[d] \in {0, entry}
    BY <2>1
  <2>4. Entries' /\ NoStaleTranslation'
    <3>1. gone <= entry /\ \A d \in Core : need[d] <= entry
      BY DEF TlbInv, Entries
    <3>2. \A d \in Core : tlb'[d] <= entry /\ (tlb'[d] # 0 => tlb'[d] >= gone)
      BY <1>0, <2>3, <3>1
    <3> QED
      BY <2>1, <3>1, <3>2 DEF Entries, NoStaleTranslation
  <2>5. IssuerClean' /\ StaleIsBehind'
    BY <2>1 DEF IssuerClean, StaleIsBehind
  <2>6. TlbInv'
    BY <2>4, <2>5 DEF TlbInv
  <2> QED
    BY <2>2, <2>6
<1> QED
  BY <1>1, <1>2, <1>3

-----------------------------------------------------------------------------
\* Every step keeps the invariant: the cores first, then the TLBs.
LEMMA NextIInv ==
    ASSUME IInv, [Next]_vars
    PROVE  IInv'
<1>1. CASE UNCHANGED vars
  <2>1. TypeOK' /\ TlbInv'
    BY <1>1, StutterCInv DEF IInv, CInv, vars, tlbVars, coreVars, slots, threads, TypeOK, TlbInv,
       Entries, NoStaleTranslation, IssuerClean, StaleIsBehind, InFlight, Live, Behind
  <2> QED
    BY <1>1, <2>1, StutterCInv DEF IInv, vars
<1>2. CASE Next
  <2>1. CInv'
    BY <1>2, NextCInv
  <2>2. ASSUME NEW c \in Core, Step(c) PROVE TypeOK' /\ TlbInv'
    <3>0. ASSUME UNCHANGED entry, gone' \in 0 .. MaxEntry,
                 tlb' \in [Core -> 0 .. MaxEntry], need' \in [Core -> 0 .. MaxEntry]
          PROVE  TypeOK'
      BY <2>1, <3>0 DEF IInv, CInv, TypeOK
    <3>1. CASE Translate(c) \/ Remap(c)
      BY <3>1, TablesTlb
    <3>2. CASE Tlbi(c)
      <4>1. /\ tlb' = [tlb EXCEPT ![c] = 0] /\ need' = [need EXCEPT ![c] = entry]
            /\ UNCHANGED <<entry, gone>>
        BY <3>2 DEF Tlbi, Invalidate
      <4>2. TypeOK'
        BY <3>0, <4>1, MaxEntryAssumption DEF IInv, TypeOK
      <4> QED
        BY <3>2, <4>2, TlbiTlb
    <3>3. CASE TopService(c) \/ WaitService(c)
      <4>1. /\ UNCHANGED <<entry, need, gone>>
            /\ tlb' = tlb \/ tlb' = [tlb EXCEPT ![c] = 0]
        BY <3>3 DEF TopService, WaitService, ApplyTaken, Invalidate
      <4>2. TypeOK'
        BY <3>0, <4>1, MaxEntryAssumption DEF IInv, TypeOK
      <4> QED
        BY <3>3, <4>2, ServiceTlb
    <3>4. CASE TlbiAlone(c) \/ TlbiDone(c)
      BY <3>0, <3>4, PastTlb DEF IInv, TypeOK, TlbiAlone, TlbiDone, Past
    <3>5. CASE TlbiPosted(c)
      BY <3>0, <3>5, PostedTlb DEF IInv, TypeOK, TlbiPosted, tlbVars
    <3>6. CASE PowerOnReset(c)
      <4>1. UNCHANGED <<entry, need, gone>> /\ tlb' = [tlb EXCEPT ![c] = 0]
        BY <3>6 DEF PowerOnReset, Invalidate
      <4>2. TypeOK'
        BY <3>0, <4>1, MaxEntryAssumption DEF IInv, TypeOK
      <4> QED
        BY <3>6, <4>2, PsciTlb
    <3>7. CASE Thread(c)
      <4>1. UNCHANGED tlbVars
        BY <3>7 DEF Thread
      <4>2. TypeOK'
        BY <3>0, <4>1 DEF IInv, TypeOK, tlbVars
      <4>3. TlbInv'
        BY <2>2, <3>7, <4>1, MovesTlb, ServedTlb, BroadcastSlotTlb, PsciTlb, IInv DEF Thread
      <4> QED
        BY <4>2, <4>3
    <3> QED
      BY <2>2, <3>1, <3>2, <3>3, <3>4, <3>5, <3>6, <3>7 DEF Step
  <2>3. ASSUME Host \/ Rejoin \/ Split PROVE TypeOK' /\ TlbInv'
    BY <2>3, HostTlb
  <2>4. TypeOK' /\ TlbInv'
    BY <1>2, <2>2, <2>3 DEF Next
  <2> QED
    BY <2>1, <2>4 DEF IInv
<1> QED
  BY <1>1, <1>2

\* The inductive invariant, along every behaviour of Cores and of the TLBs.
THEOREM Invariance == Spec => []IInv
BY InitIInv, NextIInv, PTL DEF Spec

\* The slots, threads and TLBs keep their types, whatever the number of cores.
THEOREM TypeCorrect == Spec => []TypeOK
<1>1. IInv => TypeOK
  BY DEF IInv
<1> QED
  BY <1>1, Invariance, PTL

\* Past a broadcast TLBI (tlbi_broadcast, wait_acks) no core that executes holds
\* a translation from before it.
THEOREM ShootdownSafety == Spec => []NoStaleTranslation
<1>1. IInv => NoStaleTranslation
  BY DEF IInv, TlbInv
<1> QED
  BY <1>1, Invariance, PTL

\* The protocol under it (Cores::broadcast, take, done, wait_acks, cpu_on and
\* Event::Off): no core executes with acknowledgements owed to it, no request
\* is lost or acknowledged twice, CPU_ON interrupts no running context, and
\* with every core off the machine powers off or a core is still looking.
THEOREM CoresSafety == Spec => []CoresSafe
<1>1. IInv => CoresSafe
  BY CInvAcks DEF IInv, CInv, CoresSafe
<1> QED
  BY <1>1, Invariance, PTL
=============================================================================
