-------------------------- MODULE CodeWatchProofs --------------------------
(***************************************************************************)
(* Blocks of a page that one core executes and any core writes, for every  *)
(* number of cores: the inductive invariant behind BlocksSafe.             *)
(*                                                                         *)
(* The invariant of module ShootdownProofs is not one here: a core comes   *)
(* back from its broadcast into install and, when the machine powers off,  *)
(* interprets one more instruction with acknowledgements missing, so it    *)
(* may be in the guest while it waits.  What is kept instead is that it    *)
(* has no block of the page then.                                          *)
(***************************************************************************)
EXTENDS CodeWatch, TLAPS

\* In install.
Inst == {"found", "tested", "asked", "set"}

At == Inst \cup {"out", "in", "one", "stored", "unwatched", "done"}

JitTypeOK ==
    /\ words \in Nat
    /\ watched \in BOOLEAN
    /\ dirty \in [Core -> BOOLEAN]
    /\ direct \in [Core -> BOOLEAN]
    /\ block \in [Core -> Nat]
    /\ read \in [Core -> Nat]
    /\ was \in [Core -> BOOLEAN]
    /\ fresh \in [Core -> BOOLEAN]
    /\ at \in [Core -> At]

\* The loop of ParCore::run.  wait_acks is entered from stretch alone, and
\* acknowledgements are missing elsewhere only in install or once the machine
\* is powered off.
Loop ==
    /\ par /\ ~stop
    /\ \A c \in Core :
         /\ taken[c] # 0 => pc[c] \in {"topdone", "acksdone"}
         /\ cursor[c] # 0 => pc[c] \in {"bcast", "scan"}
         /\ start[c] => on[c]
         /\ pc[c] # "runacks"
         /\ pc[c] = "topdone" => waits[c] = {}
         /\ waits[c] # {} => \/ halt # 0
                             \/ pc[c] \in {"bcast", "acks", "acksdone", "poll"}
                             \/ pc[c] = "exec" /\ at[c] = "set"

\* Where a core is in its JIT: in a run of regions it waits for nobody, except
\* in install after the broadcast.
RunAt(c) ==
    /\ at[c] \in Inst => c \in Translators
    /\ at[c] \in {"in", "found", "tested", "asked", "stored", "unwatched", "done"} => pc[c] = "exec"
    /\ at[c] = "set" => pc[c] \in {"exec", "bcast"}
    /\ pc[c] = "bcast" => at[c] = "set"
    /\ at[c] \in {"in", "found", "tested", "asked"} => waits[c] = {}
    /\ pc[c] = "exec" /\ at[c] = "out" => waits[c] = {}
    /\ at[c] \in {"stored", "unwatched"} /\ was[c] => waits[c] = {}
    /\ at[c] = "set" /\ was[c] => waits[c] = {} /\ pc[c] = "exec"
    /\ block[c] # 0 => c \in Translators /\ waits[c] = {}

Run == \A c \in Core : RunAt(c)

\* install: what it read is what is in memory, and what it saw of the watch
\* bit still holds.
InInstall ==
    /\ ~(Installing /\ Storing)
    /\ \A c \in Core :
         /\ at[c] \in Inst => block[c] = 0 /\ read[c] = words
         /\ at[c] \in {"tested", "asked"} => (was[c] <=> watched)
         /\ at[c] = "asked" => (fresh[c] <=> ~watched)
         /\ at[c] = "set" => watched

\* Core d will give up its write entry before core t has a block: t is about
\* to give up its own, its broadcast did not reach d yet, or d did not answer.
Asked(t, d) ==
    \/ d = t /\ at[t] = "set" /\ ~was[t]
    \/ d # t /\ pc[t] = "bcast" /\ cursor[t] <= d
    \/ d # t /\ \E n \in 1 .. posted[d] : <<d, n>> \in waits[t] /\ applied[d] + taken[d] < n

\* A write entry for a watched page is on its way out.
EntriesLeave ==
    watched => \A d \in Core : direct[d] /\ Live(d) => \E t \in Translators : Asked(t, d)

\* The page of a block is watched until the lists are written.
BlocksWatched ==
    \A c \in Core : block[c] # 0 /\ ~dirty[c] => watched \/ \E d \in Core : at[d] = "unwatched"

Blocks == EntriesLeave /\ BlocksWatched /\ NoStaleBlock

IInv == CoresTypeOK /\ JitTypeOK /\ Loop /\ Accounting /\ OffIsQuiet /\ Run /\ InInstall /\ Blocks

\* No store overlaps an install, and one core executes code of the page.
\* Without either of the two TLC finds a behaviour against BlocksSafe.
Scope == Quiet /\ \A c, d \in Translators : c = d

-----------------------------------------------------------------------------
\* The machine starts with no block, no entry and no request.
LEMMA InitInv == Init => IInv
<1> SUFFICES ASSUME Init PROVE IInv
  OBVIOUS
<1> USE NAssumption DEF Init, CoresInit
<1>1. CoresTypeOK
  <2>1. /\ on \in [Core -> BOOLEAN] /\ start \in [Core -> BOOLEAN]
        /\ stop \in BOOLEAN /\ par \in BOOLEAN
    BY Zenon
  <2>2. /\ inbox \in [Core -> Nat] /\ posted \in [Core -> Nat] /\ applied \in [Core -> Nat]
        /\ taken \in [Core -> Nat] /\ cursor \in [Core -> 0 .. N] /\ halt \in 0 .. 2
        /\ pc \in [Core -> PC] /\ ret \in [Core -> {"gate", "chk"}]
        /\ waits \in [Core -> SUBSET (Core \X Nat)]
    BY DEF PC
  <2> QED
    BY <2>1, <2>2 DEF CoresTypeOK
<1>2. JitTypeOK
  <2>1. /\ watched \in BOOLEAN /\ dirty \in [Core -> BOOLEAN] /\ direct \in [Core -> BOOLEAN]
        /\ was \in [Core -> BOOLEAN] /\ fresh \in [Core -> BOOLEAN]
    BY Zenon
  <2>2. /\ words \in Nat /\ block \in [Core -> Nat] /\ read \in [Core -> Nat]
        /\ at \in [Core -> At]
    BY DEF At
  <2> QED
    BY <2>1, <2>2 DEF JitTypeOK
<1>3. Loop /\ Accounting /\ OffIsQuiet
  BY DEF Loop, Accounting, OffIsQuiet
<1>4. Run /\ InInstall
  BY DEF Run, RunAt, InInstall, Inst, Installing, Storing
<1>5. Blocks
  BY DEF Blocks, EntriesLeave, BlocksWatched, NoStaleBlock
<1> QED
  BY <1>1, <1>2, <1>3, <1>4, <1>5 DEF IInv

-----------------------------------------------------------------------------
(* Steps of the threads, with the JITs at rest. *)

\* What a step keeps that leaves the page, its blocks and the JITs alone,
\* whatever it does to the write entries.
LEMMA JitRests ==
    ASSUME IInv, UNCHANGED <<words, watched, dirty, block, read, was, fresh, at>>,
           direct' \in [Core -> BOOLEAN]
    PROVE  JitTypeOK' /\ InInstall' /\ BlocksWatched' /\ NoStaleBlock'
<1> USE DEF IInv, Blocks
<1>1. JitTypeOK'
  BY DEF JitTypeOK
<1>2. InInstall'
  BY DEF InInstall, Installing, Storing
<1>3. BlocksWatched' /\ NoStaleBlock'
  BY DEF BlocksWatched, NoStaleBlock, Storing
<1> QED
  BY <1>1, <1>2, <1>3

\* A step that moves a core from one place to another outside the guest.
LEMMA Moves ==
    ASSUME IInv, NEW c \in Core,
           UNCHANGED <<slots, stop, halt, par, cursor, taken, waits, jitVars>>,
           ret' \in [Core -> {"gate", "chk"}],
           NEW l \in PC \ {"bcast", "runacks", "topdone"}, pc' = [pc EXCEPT ![c] = l],
           pc[c] \notin {"bcast", "exec", "scan", "topdone", "acksdone"},
           l \in {"chk", "exec", "acks", "acksdone", "poll"} => Live(c),
           waits[c] # {} => halt # 0 \/ l \in {"acks", "poll"},
           l = "exec" /\ at[c] = "out" => waits[c] = {}
    PROVE  IInv'
<1> USE DEF IInv, slots, jitVars
<1>1. JitTypeOK' /\ InInstall' /\ BlocksWatched' /\ NoStaleBlock'
  BY JitRests DEF JitTypeOK
<1>2. CoresTypeOK'
  BY DEF CoresTypeOK
<1>3. Loop'
  BY DEF Loop, CoresTypeOK
<1>4. Accounting' /\ OffIsQuiet'
  BY DEF Accounting, OffIsQuiet, Live, CoresTypeOK
<1>5. Run'
  BY DEF Run, RunAt, CoresTypeOK, Inst, JitTypeOK, At
<1>6. EntriesLeave'
  <2>1. ASSUME NEW t \in Translators, NEW d \in Core, Asked(t, d)
        PROVE  Asked(t, d)'
    BY <2>1, TranslatorsAssumption DEF Asked, CoresTypeOK
  <2> QED
    BY <2>1 DEF Blocks, EntriesLeave, Live
<1> QED
  BY <1>1, <1>2, <1>3, <1>4, <1>5, <1>6 DEF Blocks

\* The thread steps of that kind, and stretch going on to the one instruction.
LEMMA MovesInv ==
    ASSUME IInv, NEW c \in Core, UNCHANGED jitVars,
           \/ RunEnter(c) \/ RunHalted(c) \/ RunReturn(c) \/ RunOff(c) \/ RunGuest(c)
           \/ at[c] = "out" /\ (StretchEnd(c) \/ StretchRun(c))
           \/ AcksPoll(c) \/ InterpretOne(c)
    PROVE  IInv'
<1> USE DEF IInv, Goto
<1>1. CASE RunEnter(c) \/ RunOff(c)
  <2>1. /\ UNCHANGED <<slots, stop, halt, par, ret, cursor, taken, waits>>
        /\ pc' = [pc EXCEPT ![c] = "top"] /\ pc[c] \in {"out", "gate"}
    BY <1>1 DEF RunEnter, RunOff
  <2> QED
    BY <2>1, Moves DEF PC, CoresTypeOK, Loop
<1>2. CASE RunHalted(c) \/ RunReturn(c)
  <2>1. /\ UNCHANGED <<slots, stop, halt, par, ret, cursor, taken, waits>>
        /\ pc' = [pc EXCEPT ![c] = "out"] /\ pc[c] \in {"top", "gate"}
    BY <1>2 DEF RunHalted, RunReturn
  <2> QED
    BY <2>1, Moves DEF PC, CoresTypeOK, Loop
<1>3. CASE RunGuest(c)
  <2>1. /\ UNCHANGED <<slots, stop, halt, par, ret, cursor, taken, waits>>
        /\ pc' = [pc EXCEPT ![c] = "chk"] /\ pc[c] = "gate" /\ Live(c)
    BY <1>3 DEF RunGuest, Live
  <2> QED
    BY <2>1, Moves DEF PC, CoresTypeOK, Loop
<1>4. CASE at[c] = "out" /\ StretchEnd(c)
  <2>1. /\ UNCHANGED <<slots, stop, halt, par, ret, cursor, taken, waits>>
        /\ pc' = [pc EXCEPT ![c] = "top"] /\ pc[c] = "chk"
    BY <1>4 DEF StretchEnd
  <2> QED
    BY <2>1, Moves DEF PC, CoresTypeOK, Loop
<1>5. CASE (at[c] = "out" /\ StretchRun(c)) \/ InterpretOne(c)
  <2>1. /\ UNCHANGED <<slots, stop, halt, par, ret, cursor, taken, waits>>
        /\ pc' = [pc EXCEPT ![c] = "exec"] /\ pc[c] = "chk" /\ Live(c)
        /\ at[c] = "one" \/ halt = 0
    BY <1>5 DEF StretchRun, InterpretOne, Ending, OffIsQuiet
  <2> QED
    BY <2>1, Moves DEF PC, CoresTypeOK, Loop
<1>6. CASE AcksPoll(c)
  <2>1. PICK l \in {"acks", "gate", "chk"} :
           /\ pc' = [pc EXCEPT ![c] = l]
           /\ l # "acks" => halt # 0
           /\ ret' \in [Core -> {"gate", "chk"}]
    <3>1. CASE Ending
      BY <1>6, <3>1 DEF AcksPoll, Ending, Loop, CoresTypeOK
    <3>2. CASE ~Ending
      BY <1>6, <3>2 DEF AcksPoll, CoresTypeOK
    <3> QED
      BY <3>1, <3>2
  <2>2. /\ UNCHANGED <<slots, stop, halt, par, cursor, taken, waits>>
        /\ pc[c] = "poll" /\ Live(c)
    BY <1>6 DEF AcksPoll, OffIsQuiet
  <2> QED
    BY <2>1, <2>2, Moves DEF PC
<1> QED
  BY <1>1, <1>2, <1>3, <1>4, <1>5, <1>6

\* A core takes its requests and gives up its write entries, or acknowledges
\* what it applied: what it still owes another core does not change, or it has
\* no entry.
LEMMA ServiceInv ==
    ASSUME IInv, NEW c \in Core, Service(c)
    PROVE  IInv'
<1> USE DEF IInv, Goto
<1>1. PICK l \in {"gate", "topdone", "poll", "acksdone"} :
         /\ pc' = [pc EXCEPT ![c] = l]
         /\ l \in {"gate", "topdone"} => pc[c] = "top" /\ waits[c] = {}
         /\ l \in {"poll", "acksdone"} => pc[c] = "acks"
         /\ l \in {"gate", "poll"} => inbox[c] = 0
  <2>1. CASE RunService(c)
    <3>1. waits[c] = {}
      BY <2>1 DEF RunService, Loop
    <3> QED
      BY <2>1, <3>1 DEF RunService, AfterTopService
  <2>2. CASE AcksService(c)
    BY <2>2 DEF AcksService, Loop
  <2> QED
    BY <2>1, <2>2 DEF Service
<1>2. /\ UNCHANGED <<on, start, posted, applied, stop, halt, par, ret, cursor, waits>>
      /\ taken' = [taken EXCEPT ![c] = inbox[c]] /\ inbox' = [inbox EXCEPT ![c] = 0]
      /\ UNCHANGED <<words, watched, dirty, block, read, was, fresh, at>>
      /\ taken[c] = 0
  BY <1>1 DEF Service, RunService, AcksService, Take, Loop
<1>3. direct' \in [Core -> BOOLEAN]
  BY Zenon DEF Service, ApplyTaken, FlushWrites, JitTypeOK
<1>4. JitTypeOK' /\ InInstall' /\ BlocksWatched' /\ NoStaleBlock'
  BY <1>2, <1>3, JitRests
<1>5. CoresTypeOK'
  BY <1>1, <1>2 DEF CoresTypeOK, PC
<1>6. Loop'
  BY <1>1, <1>2 DEF Loop, CoresTypeOK
<1>7. Accounting'
  BY <1>2 DEF Accounting, CoresTypeOK
<1>8. OffIsQuiet'
  BY <1>1, <1>2 DEF OffIsQuiet, Live, CoresTypeOK
<1>9. Run'
  BY <1>1, <1>2 DEF Run, RunAt, CoresTypeOK, JitTypeOK, Inst, At
<1>10. EntriesLeave'
  <2>1. ASSUME NEW d \in Core, direct'[d], NEW t \in Translators, Asked(t, d)
        PROVE  Asked(t, d)'
    <3>1. taken'[d] = taken[d]
      <4>1. CASE d # c \/ inbox[c] = 0
        BY <1>2, <4>1 DEF CoresTypeOK
      <4>2. CASE d = c /\ inbox[c] # 0
        BY <2>1, <4>2 DEF Service, ApplyTaken, FlushWrites, JitTypeOK
      <4> QED
        BY <4>1, <4>2
    <3>2. pc'[t] = "bcast" <=> pc[t] = "bcast"
      BY <1>1, TranslatorsAssumption DEF CoresTypeOK
    <3> QED
      BY <1>2, <2>1, <3>1, <3>2 DEF Asked
  <2>2. \A d \in Core : direct'[d] => direct[d]
    BY DEF Service, ApplyTaken, FlushWrites, JitTypeOK
  <2> QED
    BY <1>2, <2>1, <2>2 DEF Blocks, EntriesLeave, Live
<1> QED
  BY <1>4, <1>5, <1>6, <1>7, <1>8, <1>9, <1>10 DEF Blocks

\* The requests taken are acknowledged; nothing of the JIT moves.
LEMMA ServedInv ==
    ASSUME IInv, NEW c \in Core, UNCHANGED jitVars, RunServed(c) \/ AcksServed(c)
    PROVE  IInv'
<1> USE DEF IInv, Goto, jitVars
<1>1. PICK l \in {"gate", "poll"} :
         /\ pc' = [pc EXCEPT ![c] = l]
         /\ l = "gate" => pc[c] = "topdone" /\ waits[c] = {}
         /\ l = "poll" => pc[c] = "acksdone"
  BY DEF RunServed, AcksServed, AfterTopService, Loop
<1>2. /\ UNCHANGED <<on, start, inbox, posted, stop, halt, par, ret, cursor, waits>>
      /\ applied' = [applied EXCEPT ![c] = @ + taken[c]]
      /\ taken' = [taken EXCEPT ![c] = 0]
  BY DEF RunServed, AcksServed
<1>3. JitTypeOK' /\ InInstall' /\ BlocksWatched' /\ NoStaleBlock'
  BY JitRests DEF JitTypeOK
<1>4. CoresTypeOK'
  BY <1>1, <1>2 DEF CoresTypeOK, PC
<1>5. Loop'
  BY <1>1, <1>2 DEF Loop, CoresTypeOK
<1>6. Accounting'
  BY <1>2 DEF Accounting, CoresTypeOK
<1>7. OffIsQuiet'
  BY <1>1, <1>2 DEF OffIsQuiet, Live, CoresTypeOK
<1>8. Run'
  BY <1>1, <1>2 DEF Run, RunAt, CoresTypeOK, JitTypeOK, Inst, At
<1>9. EntriesLeave'
  <2>1. ASSUME NEW d \in Core, NEW t \in Translators, Asked(t, d)
        PROVE  Asked(t, d)'
    <3>1. applied'[d] + taken'[d] = applied[d] + taken[d]
      BY <1>2 DEF CoresTypeOK
    <3>2. pc'[t] = "bcast" <=> pc[t] = "bcast"
      BY <1>1, TranslatorsAssumption DEF CoresTypeOK
    <3> QED
      BY <1>2, <2>1, <3>1, <3>2 DEF Asked
  <2> QED
    BY <1>2, <2>1 DEF Blocks, EntriesLeave, Live
<1> QED
  BY <1>3, <1>4, <1>5, <1>6, <1>7, <1>8, <1>9 DEF Blocks

\* wait_acks returns: every core it asked applied the request or is off, so
\* none that runs guest code has a write entry of the watched page.
LEMMA AcksDoneInv ==
    ASSUME IInv, NEW c \in Core, UNCHANGED jitVars, AcksDone(c)
    PROVE  IInv'
<1> USE DEF IInv, Goto, jitVars
<1>1. /\ pc' = [pc EXCEPT ![c] = ret[c]] /\ waits' = [waits EXCEPT ![c] = {}]
      /\ ret' = [ret EXCEPT ![c] = "gate"]
      /\ UNCHANGED <<slots, stop, halt, par, cursor, taken>>
      /\ pc[c] = "acks" /\ ret[c] \in {"gate", "chk"}
  BY DEF AcksDone, Loop, CoresTypeOK
<1>2. JitTypeOK' /\ InInstall' /\ BlocksWatched' /\ NoStaleBlock'
  BY JitRests DEF JitTypeOK
<1>3. CoresTypeOK'
  BY <1>1 DEF CoresTypeOK, PC, slots
<1>4. Loop'
  BY <1>1 DEF Loop, CoresTypeOK, slots
<1>5. Accounting' /\ OffIsQuiet'
  BY <1>1 DEF Accounting, OffIsQuiet, Live, CoresTypeOK, slots
<1>6. Run'
  BY <1>1 DEF Run, RunAt, CoresTypeOK, JitTypeOK, Inst, At
<1>7. EntriesLeave'
  <2>1. ASSUME NEW d \in Core, Live(d), NEW t \in Translators, Asked(t, d)
        PROVE  Asked(t, d)'
    <3>1. CASE t # c
      BY <1>1, <2>1, <3>1, TranslatorsAssumption DEF Asked, CoresTypeOK, slots
    <3>2. CASE t = c
      <4>1. ~ \E n \in 1 .. posted[d] : <<d, n>> \in waits[c] /\ applied[d] + taken[d] < n
        <5> SUFFICES ASSUME NEW n \in 1 .. posted[d], <<d, n>> \in waits[c]
                     PROVE  ~(applied[d] + taken[d] < n)
          OBVIOUS
        <5>1. applied[d] >= n \/ ~on[d]
          BY DEF AcksDone, Acked
        <5> QED
          BY <2>1, <5>1 DEF Live, CoresTypeOK
      <4>2. at[c] # "set"
        BY <1>1 DEF Run, RunAt
      <4> QED
        BY <1>1, <2>1, <3>2, <4>1, <4>2 DEF Asked
    <3> QED
      BY <3>1, <3>2
  <2> QED
    BY <1>1, <2>1 DEF Blocks, EntriesLeave, Live, slots
<1> QED
  BY <1>2, <1>3, <1>4, <1>5, <1>6, <1>7 DEF Blocks

\* The broadcast reaches a slot: a core that is on owes an acknowledgement,
\* one that is off runs no guest code.
LEMMA BroadcastSlotInv ==
    ASSUME IInv, NEW c \in Core, UNCHANGED jitVars, BroadcastSlot(c)
    PROVE  IInv'
<1> USE DEF IInv, jitVars
<1> DEFINE k == cursor[c]
<1>1. /\ UNCHANGED <<on, start, applied, stop, halt, par, pc, ret, taken>>
      /\ cursor' = [cursor EXCEPT ![c] = k + 1]
      /\ pc[c] = "bcast" /\ at[c] = "set" /\ c \in Translators /\ ~was[c] /\ block[c] = 0
      /\ IF k = c \/ ~on[k] THEN UNCHANGED <<inbox, posted, waits>>
         ELSE /\ inbox' = [inbox EXCEPT ![k] = @ + 1]
              /\ posted' = [posted EXCEPT ![k] = @ + 1]
              /\ waits' = [waits EXCEPT ![c] = @ \cup {<<k, posted[k] + 1>>}]
  BY DEF BroadcastSlot, Run, RunAt, InInstall, Inst
<1>2. k \in Core /\ k \in Int /\ k + 1 \in 0 .. N
  <2>1. k \in 0 .. N /\ k < N
    BY DEF BroadcastSlot, CoresTypeOK
  <2> QED
    BY <2>1, NAssumption DEF Core
<1> HIDE DEF k
<1>3. posted[k] = applied[k] + taken[k] + inbox[k]
  BY <1>2 DEF Accounting, Loop
<1>4. JitTypeOK' /\ InInstall' /\ BlocksWatched' /\ NoStaleBlock'
  BY JitRests DEF JitTypeOK
<1>5. CoresTypeOK'
  <2>1. CASE k = c \/ ~on[k]
    BY <1>1, <1>2, <2>1 DEF CoresTypeOK
  <2>2. CASE ~(k = c \/ ~on[k])
    BY <1>1, <1>2, <2>2 DEF CoresTypeOK
  <2> QED
    BY <2>1, <2>2
<1>6. Loop'
  BY <1>1 DEF Loop, CoresTypeOK
<1>7. Accounting'
  BY <1>1, <1>2 DEF Accounting, CoresTypeOK
<1>8. OffIsQuiet' /\ Run'
  BY <1>1 DEF OffIsQuiet, Live, Run, RunAt, CoresTypeOK, Inst
<1>9. EntriesLeave'
  <2>1. ASSUME NEW d \in Core, Live(d), NEW t \in Translators, Asked(t, d)
        PROVE  Asked(t, d)'
    <3>1. posted[d] \in Nat /\ posted'[d] \in Nat /\ posted[d] <= posted'[d]
      BY <1>1, <1>2 DEF CoresTypeOK
    <3>2. waits[t] \subseteq waits'[t]
      BY <1>1, TranslatorsAssumption DEF CoresTypeOK
    <3>3. CASE d # t /\ \E n \in 1 .. posted[d] : <<d, n>> \in waits[t] /\ applied[d] + taken[d] < n
      BY <1>1, <3>1, <3>2, <3>3 DEF Asked
    <3>4. CASE d = t /\ at[t] = "set" /\ ~was[t]
      BY <3>4 DEF Asked
    <3>5. CASE d # t /\ pc[t] = "bcast" /\ cursor[t] <= d
      <4>1. CASE t # c
        BY <1>1, <3>5, <4>1, TranslatorsAssumption DEF Asked, CoresTypeOK
      <4>2. CASE t = c /\ d # k
        <5>1. cursor'[c] <= d
          BY <1>1, <1>2, <3>5, <4>2 DEF CoresTypeOK, Core, k
        <5> QED
          BY <1>1, <3>5, <4>2, <5>1 DEF Asked
      <4>3. CASE t = c /\ d = k
        <5>1. ~(k = c \/ ~on[k])
          BY <2>1, <3>5, <4>3 DEF Live
        <5>2. /\ <<k, posted[k] + 1>> \in waits'[c]
              /\ posted[k] + 1 \in 1 .. posted'[k]
              /\ applied'[k] + taken'[k] < posted[k] + 1
          BY <1>1, <1>2, <1>3, <5>1 DEF CoresTypeOK
        <5> QED
          BY <1>1, <3>5, <4>3, <5>2 DEF Asked
      <4> QED
        BY <4>1, <4>2, <4>3
    <3> QED
      BY <2>1, <3>3, <3>4, <3>5 DEF Asked
  <2> QED
    BY <1>1, <2>1 DEF Blocks, EntriesLeave, Live
<1> QED
  BY <1>4, <1>5, <1>6, <1>7, <1>8, <1>9 DEF Blocks

\* The broadcast returns into install, past every slot.
LEMMA PostedInv ==
    ASSUME IInv, NEW c \in Core, Posted(c)
    PROVE  IInv'
<1> USE DEF IInv, Goto, jitVars
<1>1. /\ pc' = [pc EXCEPT ![c] = "exec"] /\ cursor' = [cursor EXCEPT ![c] = 0]
      /\ UNCHANGED <<slots, stop, halt, par, ret, taken, waits, jitVars>>
      /\ pc[c] = "bcast" /\ cursor[c] = N /\ at[c] = "set"
  BY DEF Posted, Run, RunAt
<1>2. JitTypeOK' /\ InInstall' /\ BlocksWatched' /\ NoStaleBlock'
  BY <1>1, JitRests DEF JitTypeOK
<1>3. CoresTypeOK'
  BY <1>1, NAssumption DEF CoresTypeOK, PC, slots
<1>4. Loop'
  BY <1>1 DEF Loop, CoresTypeOK, slots
<1>5. Accounting' /\ OffIsQuiet'
  BY <1>1 DEF Accounting, OffIsQuiet, Live, CoresTypeOK, slots
<1>6. Run'
  BY <1>1 DEF Run, RunAt, CoresTypeOK, Inst
<1>7. EntriesLeave'
  <2>1. ASSUME NEW d \in Core, NEW t \in Translators, Asked(t, d)
        PROVE  Asked(t, d)'
    <3>1. ~(N <= d)
      BY NAssumption DEF Core
    <3> QED
      BY <1>1, <2>1, <3>1, TranslatorsAssumption DEF Asked, CoresTypeOK, slots
  <2> QED
    BY <1>1, <2>1 DEF Blocks, EntriesLeave, Live, slots
<1> QED
  BY <1>2, <1>3, <1>4, <1>5, <1>6, <1>7 DEF Blocks

\* The all-off scan, which may power the machine off.
LEMMA ScanInv ==
    ASSUME IInv, NEW c \in Core, UNCHANGED jitVars, ScanSlot(c) \/ ScanAllOff(c)
    PROVE  IInv'
<1> USE DEF IInv, Goto, jitVars
<1>1. PICK l \in {"top", "scan"}, k \in 0 .. N :
         /\ pc' = [pc EXCEPT ![c] = l]
         /\ cursor' = [cursor EXCEPT ![c] = k]
         /\ k # 0 => l = "scan"
  <2>0. pc = [pc EXCEPT ![c] = pc[c]] /\ cursor[c] \in 0 .. N /\ 0 \in 0 .. N
    BY NAssumption DEF CoresTypeOK
  <2>1. CASE ScanSlot(c) /\ ~on[cursor[c]]
    <3>1. cursor[c] + 1 \in 0 .. N
      BY <2>0, <2>1, NAssumption DEF ScanSlot
    <3> QED
      BY <2>0, <2>1, <3>1 DEF ScanSlot
  <2>2. CASE ScanAllOff(c) \/ (ScanSlot(c) /\ on[cursor[c]])
    <3>1. pc' = [pc EXCEPT ![c] = "top"] /\ cursor' = [cursor EXCEPT ![c] = 0]
      BY <2>2 DEF ScanSlot, ScanAllOff
    <3> QED
      BY <2>0, <3>1
  <2> QED
    BY <2>1, <2>2
<1>2. /\ UNCHANGED <<slots, stop, par, ret, taken, waits>>
      /\ pc[c] = "scan" /\ halt' \in {halt, 1}
  BY DEF ScanSlot, ScanAllOff
<1>3. JitTypeOK' /\ InInstall' /\ BlocksWatched' /\ NoStaleBlock'
  BY JitRests DEF JitTypeOK
<1>4. CoresTypeOK'
  BY <1>1, <1>2 DEF CoresTypeOK, PC, slots
<1>5. Loop'
  BY <1>1, <1>2 DEF Loop, CoresTypeOK, slots
<1>6. Accounting' /\ OffIsQuiet'
  BY <1>1, <1>2 DEF Accounting, OffIsQuiet, Live, CoresTypeOK, slots
<1>7. Run'
  BY <1>1, <1>2 DEF Run, RunAt, CoresTypeOK, Inst
<1>8. EntriesLeave'
  <2>1. ASSUME NEW d \in Core, NEW t \in Translators, Asked(t, d)
        PROVE  Asked(t, d)'
    BY <1>1, <1>2, <2>1, TranslatorsAssumption DEF Asked, CoresTypeOK, slots
  <2> QED
    BY <1>2, <2>1 DEF Blocks, EntriesLeave, Live, slots
<1> QED
  BY <1>3, <1>4, <1>5, <1>6, <1>7, <1>8 DEF Blocks

\* A core that was turned on starts with an empty software TLB.
LEMMA PowerOnInv ==
    ASSUME IInv, NEW c \in Core, PowerOnReset(c)
    PROVE  IInv'
<1> USE DEF IInv, Goto
<1>1. PICK l \in {"top", "chk"} : pc' = [pc EXCEPT ![c] = l]
  BY DEF PowerOnReset, PowerOn
<1>2. /\ UNCHANGED <<on, inbox, posted, applied, stop, halt, par, ret, cursor, taken, waits>>
      /\ UNCHANGED <<words, watched, dirty, block, read, was, fresh, at>>
      /\ start' = [start EXCEPT ![c] = FALSE] /\ direct' = [direct EXCEPT ![c] = FALSE]
      /\ pc[c] = "gate" /\ start[c]
  BY DEF PowerOnReset, PowerOn, FlushWrites
<1>3. direct' \in [Core -> BOOLEAN] /\ start' \in [Core -> BOOLEAN]
  BY <1>2, Zenon DEF JitTypeOK, CoresTypeOK
<1>4. JitTypeOK' /\ InInstall' /\ BlocksWatched' /\ NoStaleBlock'
  BY <1>2, <1>3, JitRests
<1>5. CoresTypeOK'
  BY <1>1, <1>2, <1>3 DEF CoresTypeOK, PC
<1>6. Loop'
  BY <1>1, <1>2 DEF Loop, CoresTypeOK
<1>7. Accounting' /\ OffIsQuiet'
  BY <1>1, <1>2 DEF Accounting, OffIsQuiet, Live, Loop, CoresTypeOK
<1>8. Run'
  BY <1>1, <1>2 DEF Run, RunAt, CoresTypeOK, Inst
<1>9. EntriesLeave'
  <2>1. ASSUME NEW d \in Core, NEW t \in Translators, Asked(t, d)
        PROVE  Asked(t, d)'
    BY <1>1, <1>2, <2>1, TranslatorsAssumption DEF Asked, CoresTypeOK
  <2>2. \A d \in Core : direct'[d] /\ Live(d)' => direct[d] /\ Live(d)
    BY <1>2 DEF Live, CoresTypeOK, JitTypeOK
  <2> QED
    BY <1>2, <2>1, <2>2 DEF Blocks, EntriesLeave
<1> QED
  BY <1>4, <1>5, <1>6, <1>7, <1>8, <1>9 DEF Blocks

-----------------------------------------------------------------------------
(* Steps that leave the guest. *)

\* A run of regions, or the interpreted instruction, is over: the page and its
\* blocks stay as they are.
LEMMA RunOver ==
    ASSUME IInv, NEW c \in Core, at[c] \in {"out", "in", "one", "done"},
           at' = [at EXCEPT ![c] = "out"],
           UNCHANGED <<words, watched, dirty, direct, block, read, was, fresh>>
    PROVE  JitTypeOK' /\ InInstall' /\ BlocksWatched' /\ NoStaleBlock'
<1> USE DEF IInv, Blocks
<1>1. JitTypeOK'
  BY DEF JitTypeOK, At
<1>2. \A d \in Core : /\ at'[d] \in {"stored", "unwatched"} \cup Inst => at'[d] = at[d]
                      /\ at[d] \in {"stored", "unwatched"} \cup Inst => at'[d] = at[d]
  BY DEF JitTypeOK, Inst
<1>3. (Installing' <=> Installing) /\ (Storing' <=> Storing)
  BY <1>2 DEF Installing, Storing, Inst
<1>4. InInstall'
  BY <1>2, <1>3 DEF InInstall, Inst
<1>5. BlocksWatched' /\ NoStaleBlock'
  BY <1>2, <1>3 DEF BlocksWatched, NoStaleBlock
<1> QED
  BY <1>1, <1>4, <1>5

\* A run of the JIT, or one instruction, ends: blocks and direct entries stay, and
\* the core waits for the acknowledgements it misses.
LEMMA JitLeaveInv ==
    ASSUME IInv, NEW c \in Core, JitLeave(c)
    PROVE  IInv'
<1> USE DEF IInv, Goto
<1>1. /\ at' = [at EXCEPT ![c] = "out"] /\ at[c] \in {"out", "in", "one", "done"}
      /\ UNCHANGED <<words, watched, dirty, direct, block, read, was, fresh>>
      /\ UNCHANGED <<slots, stop, halt, par, cursor, taken, waits>>
      /\ pc' = [pc EXCEPT ![c] = IF waits[c] = {} THEN "chk" ELSE "acks"]
      /\ pc[c] = "exec" /\ Live(c)
  BY DEF JitLeave, ExecEnd, Leave, GoTo, OffIsQuiet
<1>2. ret' \in [Core -> {"gate", "chk"}]
  BY DEF JitLeave, ExecEnd, Leave, CoresTypeOK
<1>3. JitTypeOK' /\ InInstall' /\ BlocksWatched' /\ NoStaleBlock'
  BY <1>1, RunOver
<1>4. CoresTypeOK'
  BY <1>1, <1>2 DEF CoresTypeOK, PC, slots
<1>5. Loop'
  BY <1>1 DEF Loop, CoresTypeOK, JitTypeOK, slots
<1>6. Accounting' /\ OffIsQuiet'
  BY <1>1 DEF Accounting, OffIsQuiet, Live, CoresTypeOK, slots
<1>7. Run'
  BY <1>1 DEF Run, RunAt, CoresTypeOK, JitTypeOK, Inst
<1>8. EntriesLeave'
  <2>1. ASSUME NEW d \in Core, NEW t \in Translators, Asked(t, d)
        PROVE  Asked(t, d)'
    BY <1>1, <2>1, TranslatorsAssumption DEF Asked, CoresTypeOK, JitTypeOK, slots
  <2> QED
    BY <1>1, <2>1 DEF Blocks, EntriesLeave, Live, slots
<1> QED
  BY <1>3, <1>4, <1>5, <1>6, <1>7, <1>8 DEF Blocks

\* CPU_ON makes no core run guest code that has a write entry: the core it
\* turns on is reset first.
LEMMA PsciInv ==
    ASSUME IInv, NEW c \in Core, Psci(c)
    PROVE  IInv'
<1> USE DEF IInv, Goto
<1>1. /\ at' = [at EXCEPT ![c] = "out"] /\ at[c] \in {"out", "one"}
      /\ UNCHANGED <<words, watched, dirty, direct, block, read, was, fresh>>
      /\ UNCHANGED <<inbox, posted, applied, stop, halt, par, ret, cursor, taken, waits>>
      /\ pc[c] = "exec" /\ on[c] /\ ~start[c]
  BY DEF Psci, CpuOn, CpuOff, GoTo, OffIsQuiet, Live
<1>2. PICK l \in {"chk", "scan"} :
         /\ pc' = [pc EXCEPT ![c] = l]
         /\ l = "chk" => Live(c)'
         /\ \A d \in Core : Live(d)' => Live(d)
         /\ \A d \in Core \ {c} : Live(d) => Live(d)'
         /\ \A d \in Core : start'[d] => on'[d]
         /\ on' \in [Core -> BOOLEAN] /\ start' \in [Core -> BOOLEAN]
  <2>1. CASE CpuOff(c)
    <3>1. pc' = [pc EXCEPT ![c] = "scan"] /\ on' = [on EXCEPT ![c] = FALSE] /\ start' = start
      BY <2>1 DEF CpuOff
    <3>2. on' \in [Core -> BOOLEAN] /\ start' \in [Core -> BOOLEAN]
      BY <3>1, Zenon DEF CoresTypeOK
    <3> QED
      BY <1>1, <3>1, <3>2 DEF Live, Loop, CoresTypeOK
  <2>2. ASSUME NEW i \in Core, CpuOn(c, i), ~on[i]
        PROVE  /\ pc' = [pc EXCEPT ![c] = "chk"]
               /\ Live(c)'
               /\ \A d \in Core : Live(d)' => Live(d)
               /\ \A d \in Core \ {c} : Live(d) => Live(d)'
               /\ \A d \in Core : start'[d] => on'[d]
               /\ on' \in [Core -> BOOLEAN] /\ start' \in [Core -> BOOLEAN]
    <3>1. /\ pc' = [pc EXCEPT ![c] = "chk"]
          /\ on' = [on EXCEPT ![i] = TRUE] /\ start' = [start EXCEPT ![i] = TRUE]
      BY <2>2 DEF CpuOn
    <3>2. on' \in [Core -> BOOLEAN] /\ start' \in [Core -> BOOLEAN]
      BY <3>1, Zenon DEF CoresTypeOK
    <3> QED
      BY <1>1, <2>2, <3>1, <3>2 DEF Live, Loop, CoresTypeOK
  <2>3. ASSUME NEW i \in Core, CpuOn(c, i), on[i]
        PROVE  pc' = [pc EXCEPT ![c] = "chk"] /\ on' = on /\ start' = start
    BY <2>3 DEF CpuOn
  <2>4. CASE \E i \in Core : CpuOn(c, i)
    BY <1>1, <2>2, <2>3, <2>4 DEF Live, Loop, CoresTypeOK
  <2> QED
    BY <2>1, <2>4 DEF Psci
<1>3. JitTypeOK' /\ InInstall' /\ BlocksWatched' /\ NoStaleBlock'
  BY <1>1, RunOver
<1>4. CoresTypeOK'
  BY <1>1, <1>2 DEF CoresTypeOK, PC
<1>5. Loop'
  BY <1>1, <1>2 DEF Loop, CoresTypeOK, JitTypeOK
<1>6. Accounting'
  BY <1>1 DEF Accounting
<1>7. OffIsQuiet'
  BY <1>1, <1>2 DEF OffIsQuiet, CoresTypeOK
<1>8. Run'
  BY <1>1, <1>2 DEF Run, RunAt, CoresTypeOK, JitTypeOK, Inst
<1>9. EntriesLeave'
  <2>1. ASSUME NEW d \in Core, NEW t \in Translators, Asked(t, d)
        PROVE  Asked(t, d)'
    BY <1>1, <1>2, <2>1, TranslatorsAssumption DEF Asked, CoresTypeOK, JitTypeOK
  <2> QED
    BY <1>1, <1>2, <2>1 DEF Blocks, EntriesLeave
<1> QED
  BY <1>3, <1>4, <1>5, <1>6, <1>7, <1>8, <1>9 DEF Blocks

\* install gives up for now: its own write entry is gone, and it waits for
\* the others'.
LEMMA ColdInv ==
    ASSUME IInv, NEW c \in Core, Cold(c)
    PROVE  IInv'
<1> USE DEF IInv, Goto, Blocks
<1>1. PICK l \in {"out", "one"} : at' = [at EXCEPT ![c] = l]
  BY DEF Cold, GoTo
<1>2. /\ UNCHANGED <<words, watched, dirty, block>>
      /\ UNCHANGED <<slots, stop, halt, par, cursor, taken, waits>>
      /\ pc' = [pc EXCEPT ![c] = "acks"]
      /\ direct' = [direct EXCEPT ![c] = direct[c] /\ was[c]]
      /\ read' = [read EXCEPT ![c] = 0]
      /\ was' = [was EXCEPT ![c] = FALSE] /\ fresh' = [fresh EXCEPT ![c] = FALSE]
      /\ pc[c] = "exec" /\ at[c] = "set" /\ Live(c) /\ ~was[c]
  BY DEF Cold, Here, MustWait, FlushOwn, ExecEnd, Leave, OffIsQuiet
<1>3. ret' \in [Core -> {"gate", "chk"}]
  BY DEF Cold, ExecEnd, Leave, CoresTypeOK
<1>4. JitTypeOK'
  <2>1. /\ direct' \in [Core -> BOOLEAN] /\ was' \in [Core -> BOOLEAN]
        /\ fresh' \in [Core -> BOOLEAN]
    BY <1>2, Zenon DEF JitTypeOK
  <2> QED
    BY <1>1, <1>2, <2>1 DEF JitTypeOK, At
<1>5. CoresTypeOK'
  BY <1>2, <1>3 DEF CoresTypeOK, PC, slots
<1>6. Loop'
  BY <1>1, <1>2 DEF Loop, CoresTypeOK, JitTypeOK, slots
<1>7. Accounting' /\ OffIsQuiet'
  BY <1>2 DEF Accounting, OffIsQuiet, Live, CoresTypeOK, slots
<1>8. Run'
  BY <1>1, <1>2 DEF Run, RunAt, CoresTypeOK, JitTypeOK, Inst
<1>9. \A d \in Core : /\ at'[d] \in {"stored", "unwatched"} \cup Inst => at'[d] = at[d] /\ d # c
                      /\ at[d] \in {"stored", "unwatched"} => at'[d] = at[d]
  BY <1>1, <1>2 DEF JitTypeOK, Inst
<1>10. (Installing' => Installing) /\ (Storing' <=> Storing)
  BY <1>9 DEF Installing, Storing, Inst
<1>11. InInstall'
  BY <1>2, <1>9, <1>10 DEF InInstall, Inst, JitTypeOK
<1>12. BlocksWatched' /\ NoStaleBlock'
  BY <1>2, <1>9, <1>10 DEF BlocksWatched, NoStaleBlock
<1>13. EntriesLeave'
  <2>1. \A d \in Core : direct'[d] => direct[d] /\ d # c
    BY <1>2 DEF JitTypeOK
  <2>2. ASSUME NEW d \in Core, d # c, NEW t \in Translators, Asked(t, d)
        PROVE  Asked(t, d)'
    <3>1. UNCHANGED <<posted, applied, waits, cursor, taken>>
      BY <1>2 DEF slots
    <3>2. t # c => pc'[t] = pc[t] /\ at'[t] = at[t] /\ was'[t] = was[t]
      <4>1. t \in Core
        BY TranslatorsAssumption
      <4>2. t # c => pc'[t] = pc[t]
        BY <1>2, <4>1 DEF CoresTypeOK
      <4>3. t # c => at'[t] = at[t] /\ was'[t] = was[t]
        BY <1>1, <1>2, <4>1 DEF JitTypeOK
      <4> QED
        BY <4>2, <4>3
    <3>3. t = c => pc[t] # "bcast"
      BY <1>2
    <3> QED
      BY <2>2, <3>1, <3>2, <3>3 DEF Asked
  <2> QED
    BY <1>2, <2>1, <2>2 DEF EntriesLeave, Live, slots
<1> QED
  BY <1>4, <1>5, <1>6, <1>7, <1>8, <1>11, <1>12, <1>13

-----------------------------------------------------------------------------
(* Steps in the JIT. *)

\* With no store under way a page with a block in use is watched, and the core
\* that has the block, the only one that could, waits for nobody: no core that
\* runs guest code has a write entry.
LEMMA InvBlocksSafe == ASSUME Scope, IInv PROVE BlocksSafe
<1> USE DEF IInv, Blocks
<1>1. ASSUME NEW c \in Core, NEW d \in Core, block[c] # 0, ~dirty[c], Live(d), direct[d], ~Storing
      PROVE  Installing
  <2>1. watched
    BY <1>1 DEF BlocksWatched, Storing
  <2>2. PICK t \in Translators : Asked(t, d)
    BY <1>1, <2>1 DEF EntriesLeave
  <2>3. t \in Core
    BY TranslatorsAssumption
  <2>4. CASE at[t] = "set"
    BY <2>3, <2>4 DEF Installing
  <2>5. CASE at[t] # "set"
    <3>1. waits[t] # {}
      BY <2>2, <2>3, <2>5 DEF Asked, Run, RunAt
    <3>2. c \in Translators /\ waits[c] = {}
      BY <1>1 DEF Run, RunAt
    <3> QED
      BY <3>1, <3>2 DEF Scope
  <2> QED
    BY <2>4, <2>5
<1> QED
  BY <1>1 DEF BlocksSafe, BlocksUnwritable

\* What a step in the JIT keeps of the loop it was called from.
LEMMA LoopRests ==
    ASSUME IInv, NEW c \in Core, UNCHANGED coreVars,
           NEW l \in At, at' = [at EXCEPT ![c] = l], waits[c] = {} \/ at[c] # "set"
    PROVE  CoresTypeOK' /\ Loop' /\ Accounting' /\ OffIsQuiet'
<1> USE DEF IInv, coreVars, slots, threads
<1>1. CoresTypeOK' /\ Accounting' /\ OffIsQuiet'
  BY DEF CoresTypeOK, Accounting, OffIsQuiet, Live
<1>2. Loop'
  BY DEF Loop, JitTypeOK
<1> QED
  BY <1>1, <1>2

\* What the cores still owe each other does not depend on a core that is not
\* at the end of install.
LEMMA AskedRests ==
    ASSUME IInv, NEW c \in Core, UNCHANGED coreVars,
           NEW l \in At, at' = [at EXCEPT ![c] = l], at[c] # "set",
           \A d \in Core \ {c} : was'[d] = was[d]
    PROVE  \A d \in Core, t \in Translators : Asked(t, d) => Asked(t, d)'
BY TranslatorsAssumption DEF IInv, JitTypeOK, Asked, coreVars, slots, threads

\* The run starts with the blocks of written pages gone.
LEMMA JitEnterInv ==
    ASSUME IInv, NEW c \in Core, JitEnter(c)
    PROVE  IInv'
<1> USE DEF IInv, Blocks
<1>1. /\ at' = [at EXCEPT ![c] = "in"] /\ "in" \in At
      /\ UNCHANGED <<coreVars, words, watched, direct, read, was, fresh>>
      /\ dirty' = [dirty EXCEPT ![c] = FALSE]
      /\ block' = [block EXCEPT ![c] = IF dirty[c] THEN 0 ELSE @]
      /\ pc[c] = "exec" /\ at[c] = "out" /\ waits[c] = {}
  BY DEF JitEnter, Here, Drain, GoTo, Run, RunAt, At
<1>2. CoresTypeOK' /\ Loop' /\ Accounting' /\ OffIsQuiet'
  BY <1>1, LoopRests
<1>3. JitTypeOK'
  <2>1. dirty' \in [Core -> BOOLEAN]
    BY <1>1, Zenon DEF JitTypeOK
  <2> QED
    BY <1>1, <2>1 DEF JitTypeOK
<1>4. \A d \in Core : /\ d # c => at'[d] = at[d] /\ block'[d] = block[d] /\ dirty'[d] = dirty[d]
                      /\ block'[d] # 0 => block'[d] = block[d]
                      /\ block'[d] # 0 /\ ~dirty'[d] => ~dirty[d]
  BY <1>1 DEF JitTypeOK
<1>5. at'[c] = "in"
  BY <1>1 DEF JitTypeOK
<1>6. Run'
  <2>1. UNCHANGED <<pc, waits, was>>
    BY <1>1 DEF coreVars, threads
  <2>2. block'[c] # 0 => block'[c] = block[c]
    BY <1>4
  <2> SUFFICES ASSUME NEW d \in Core PROVE RunAt(d)'
    BY DEF Run
  <2>3. CASE d = c
    BY <1>1, <1>5, <2>1, <2>2, <2>3 DEF Run, RunAt, Inst
  <2>4. CASE d # c
    BY <1>4, <2>1, <2>4 DEF Run, RunAt
  <2> QED
    BY <2>3, <2>4
<1>7. Installing' = Installing /\ Storing' = Storing
  BY <1>1, <1>4, <1>5 DEF Installing, Storing
<1>8. InInstall'
  <2>1. ~(Installing' /\ Storing')
    BY <1>7 DEF InInstall
  <2>2. UNCHANGED <<words, watched, read, was, fresh>>
    BY <1>1
  <2>3. at'[c] \notin Inst
    BY <1>5 DEF Inst
  <2> QED
    BY <1>4, <2>1, <2>2, <2>3 DEF InInstall, Inst
<1>9. BlocksWatched' /\ NoStaleBlock'
  <2>1. \A d \in Core : at'[d] = "unwatched" <=> at[d] = "unwatched"
    BY <1>1, <1>4, <1>5
  <2>2. BlocksWatched'
    BY <1>1, <1>4, <2>1 DEF BlocksWatched
  <2>3. NoStaleBlock'
    BY <1>1, <1>4, <1>7 DEF NoStaleBlock
  <2> QED
    BY <2>2, <2>3
<1>10. EntriesLeave'
  BY <1>1, AskedRests DEF EntriesLeave, Live, coreVars, slots
<1> QED
  BY <1>2, <1>3, <1>6, <1>8, <1>9, <1>10

\* install up to the watch bit: no store comes in between, so what it reads
\* and what it sees of the bit stay so.
LEMMA DiscoverInv ==
    ASSUME Scope, IInv, NEW c \in Core, Discover(c)
    PROVE  IInv'
<1> USE DEF IInv, Blocks
<1>1. /\ at' = [at EXCEPT ![c] = "found"] /\ "found" \in At
      /\ UNCHANGED <<coreVars, words, watched, dirty, direct, block, was, fresh>>
      /\ read' = [read EXCEPT ![c] = words]
      /\ pc[c] = "exec" /\ at[c] = "in" /\ waits[c] = {}
      /\ c \in Translators /\ block[c] = 0 /\ ~Storing
  BY DEF Discover, Here, GoTo, Run, RunAt, At, Inst, Scope
<1>2. CoresTypeOK' /\ Loop' /\ Accounting' /\ OffIsQuiet'
  BY <1>1, LoopRests
<1>3. JitTypeOK'
  BY <1>1 DEF JitTypeOK
<1>4. /\ \A d \in Core \ {c} : at'[d] = at[d] /\ read'[d] = read[d]
      /\ at'[c] = "found" /\ read'[c] = words
  BY <1>1 DEF JitTypeOK
<1>5. Run'
  BY <1>1, <1>4 DEF Run, RunAt, coreVars, threads, Inst
<1>6. ~Storing'
  BY <1>1, <1>4 DEF Storing
<1>7. InInstall'
  BY <1>1, <1>4, <1>6 DEF InInstall, Inst
<1>8. BlocksWatched' /\ NoStaleBlock'
  BY <1>1, <1>4, <1>6 DEF BlocksWatched, NoStaleBlock
<1>9. EntriesLeave'
  BY <1>1, AskedRests DEF EntriesLeave, Live, coreVars, slots
<1> QED
  BY <1>2, <1>3, <1>5, <1>7, <1>8, <1>9

\* install looks at the watch bit, twice.
LEMMA WatchTestsInv ==
    ASSUME IInv, NEW c \in Core, WasWatched(c) \/ AskFresh(c)
    PROVE  IInv'
<1> USE DEF IInv, Blocks
<1>1. PICK l \in {"tested", "asked"} :
         /\ at' = [at EXCEPT ![c] = l] /\ l \in At
         /\ UNCHANGED <<coreVars, words, watched, dirty, direct, block, read>>
         /\ l = "tested" => /\ at[c] = "found" /\ fresh' = fresh
                            /\ was' = [was EXCEPT ![c] = watched]
         /\ l = "asked" => /\ at[c] = "tested" /\ was' = was
                           /\ fresh' = [fresh EXCEPT ![c] = ~watched]
         /\ pc[c] = "exec" /\ waits[c] = {} /\ c \in Translators
  <2>1. CASE WasWatched(c)
    BY <2>1 DEF WasWatched, Here, GoTo, Run, RunAt, At, Inst
  <2>2. CASE AskFresh(c)
    BY <2>2 DEF AskFresh, Here, GoTo, Run, RunAt, At, Inst
  <2> QED
    BY <2>1, <2>2
<1>2. CoresTypeOK' /\ Loop' /\ Accounting' /\ OffIsQuiet'
  BY <1>1, LoopRests
<1>3. JitTypeOK'
  <2>1. was' \in [Core -> BOOLEAN] /\ fresh' \in [Core -> BOOLEAN]
    BY <1>1, Zenon DEF JitTypeOK
  <2> QED
    BY <1>1, <2>1 DEF JitTypeOK
<1>4. /\ \A d \in Core \ {c} : at'[d] = at[d] /\ was'[d] = was[d] /\ fresh'[d] = fresh[d]
      /\ at'[c] = l /\ (was'[c] <=> watched) /\ (l = "asked" => (fresh'[c] <=> ~watched))
      /\ at[c] \in {"found", "tested"}
  BY <1>1 DEF JitTypeOK, InInstall
<1>5. Run'
  <2>1. UNCHANGED <<pc, waits, block>>
    BY <1>1 DEF coreVars, threads
  <2> SUFFICES ASSUME NEW d \in Core PROVE RunAt(d)'
    BY DEF Run
  <2>2. CASE d = c
    BY <1>1, <1>4, <2>1, <2>2 DEF Run, RunAt, Inst
  <2>3. CASE d # c
    BY <1>4, <2>1, <2>3 DEF Run, RunAt
  <2> QED
    BY <2>2, <2>3
<1>6. (Installing' <=> Installing) /\ (Storing' <=> Storing)
  BY <1>1, <1>4 DEF Installing, Storing
<1>7. InInstall'
  <2>1. ~(Installing' /\ Storing')
    BY <1>6 DEF InInstall
  <2>2. UNCHANGED <<words, watched, block, read>>
    BY <1>1
  <2>3. block[c] = 0 /\ read[c] = words
    BY <1>4 DEF InInstall, Inst
  <2> QED
    BY <1>4, <2>1, <2>2, <2>3 DEF InInstall, Inst
<1>8. BlocksWatched' /\ NoStaleBlock'
  BY <1>1, <1>4, <1>6 DEF BlocksWatched, NoStaleBlock
<1>9. EntriesLeave'
  BY <1>1, <1>4, AskedRests DEF EntriesLeave, Live, coreVars, slots
<1> QED
  BY <1>2, <1>3, <1>5, <1>7, <1>8, <1>9

\* The watch bit is set: every write entry of the page is now on its way out,
\* because the page was watched already or because the broadcast is ahead of
\* every core.
LEMMA SetWatchInv ==
    ASSUME Scope, IInv, NEW c \in Core, SetWatch(c)
    PROVE  IInv'
<1> USE DEF IInv, Blocks
<1>1. /\ at' = [at EXCEPT ![c] = "set"] /\ "set" \in At /\ watched' = TRUE
      /\ UNCHANGED <<words, dirty, direct, block, read, was, fresh>>
      /\ UNCHANGED <<slots, stop, halt, par, ret, cursor, taken, waits>>
      /\ pc[c] = "exec" /\ at[c] = "asked" /\ waits[c] = {} /\ c \in Translators /\ cursor[c] = 0
      /\ (was[c] <=> watched) /\ (fresh[c] <=> ~watched)
  BY DEF SetWatch, Here, GoTo, Broadcast, Run, RunAt, InInstall, Loop, At, Inst, coreVars, threads
<1>2. PICK l \in {"exec", "bcast"} : pc' = [pc EXCEPT ![c] = l] /\ (l = "bcast" <=> fresh[c])
  <2>1. CASE fresh[c]
    BY <2>1 DEF SetWatch, Broadcast, Goto
  <2>2. CASE ~fresh[c]
    <3>1. pc' = [pc EXCEPT ![c] = "exec"]
      BY <1>1, <2>2 DEF SetWatch, coreVars, threads, CoresTypeOK
    <3> QED
      BY <2>2, <3>1
  <2> QED
    BY <2>1, <2>2
<1>3. /\ \A d \in Core \ {c} : at'[d] = at[d] /\ pc'[d] = pc[d]
      /\ at'[c] = "set" /\ pc'[c] = l
  BY <1>1, <1>2 DEF JitTypeOK, CoresTypeOK
<1>4. CoresTypeOK'
  BY <1>1, <1>2 DEF CoresTypeOK, PC, slots
<1>5. JitTypeOK'
  <2>1. watched' \in BOOLEAN
    BY <1>1, Zenon
  <2> QED
    BY <1>1, <2>1 DEF JitTypeOK
<1>6. Loop'
  <2>1. UNCHANGED <<on, start, par, stop, halt, cursor, taken, waits>>
    BY <1>1 DEF slots
  <2>2. pc'[c] \in {"exec", "bcast"} /\ waits[c] = {} /\ taken[c] = 0 /\ cursor[c] = 0
    BY <1>1, <1>3 DEF Loop
  <2> QED
    BY <1>3, <2>1, <2>2 DEF Loop
<1>7. Accounting' /\ OffIsQuiet'
  BY <1>1, <1>3 DEF Accounting, OffIsQuiet, Live, slots
<1>8. Run'
  <2> SUFFICES ASSUME NEW d \in Core PROVE RunAt(d)'
    BY DEF Run
  <2>1. CASE d = c
    BY <1>1, <1>2, <1>3, <2>1 DEF Run, RunAt, Inst
  <2>2. CASE d # c
    BY <1>1, <1>3, <2>2 DEF Run, RunAt
  <2> QED
    BY <2>1, <2>2
<1>9. (Installing' <=> Installing) /\ (Storing' <=> Storing)
  BY <1>1, <1>3 DEF Installing, Storing
<1>10. InInstall'
  <2>1. \A d \in Core \ {c} : at[d] \notin Inst
    BY <1>1 DEF Run, RunAt, Scope
  <2>2. \A d \in Core \ {c} : at'[d] \notin Inst
    BY <1>3, <2>1
  <2>3. block[c] = 0 /\ read[c] = words
    BY <1>1 DEF InInstall, Inst
  <2>4. ~(Installing' /\ Storing')
    BY <1>9 DEF InInstall
  <2> QED
    BY <1>1, <1>3, <2>2, <2>3, <2>4 DEF InInstall, Inst
<1>11. BlocksWatched' /\ NoStaleBlock'
  BY <1>1, <1>9 DEF BlocksWatched, NoStaleBlock
<1>12. EntriesLeave'
  <2>1. CASE fresh[c]
    <3>1. pc'[c] = "bcast" /\ cursor'[c] = 0 /\ at'[c] = "set" /\ ~was'[c]
      BY <1>1, <1>2, <1>3, <2>1
    <3>2. \A d \in Core : 0 <= d
      BY DEF Core
    <3>3. \A d \in Core : Asked(c, d)'
      BY <3>1, <3>2 DEF Asked
    <3> QED
      BY <1>1, <3>3 DEF EntriesLeave
  <2>2. CASE ~fresh[c]
    <3>1. pc' = pc
      BY <1>1, <1>2, <2>2 DEF CoresTypeOK
    <3>2. \A d \in Core, t \in Translators : Asked(t, d) => Asked(t, d)'
      BY <1>1, <3>1, AskedRests DEF coreVars, threads
    <3> QED
      BY <1>1, <2>2, <3>2 DEF EntriesLeave, Live, slots
  <2> QED
    BY <2>1, <2>2
<1> QED
  BY <1>4, <1>5, <1>6, <1>7, <1>8, <1>10, <1>11, <1>12

\* The block is translated from what is in memory, with nobody left to wait
\* for.
LEMMA InstallInv ==
    ASSUME IInv, NEW c \in Core, Install(c)
    PROVE  IInv'
<1> USE DEF IInv, Blocks
<1>1. /\ at' = [at EXCEPT ![c] = "in"] /\ "in" \in At
      /\ UNCHANGED <<coreVars, words, watched, dirty>>
      /\ direct' = [direct EXCEPT ![c] = direct[c] /\ was[c]]
      /\ block' = [block EXCEPT ![c] = read[c]]
      /\ read' = [read EXCEPT ![c] = 0]
      /\ was' = [was EXCEPT ![c] = FALSE] /\ fresh' = [fresh EXCEPT ![c] = FALSE]
      /\ pc[c] = "exec" /\ at[c] = "set" /\ waits[c] = {} /\ c \in Translators
      /\ watched /\ read[c] = words
  BY DEF Install, Here, MustWait, FlushOwn, GoTo, Run, RunAt, InInstall, At, Inst
<1>2. CoresTypeOK' /\ Loop' /\ Accounting' /\ OffIsQuiet'
  BY <1>1, LoopRests
<1>3. JitTypeOK'
  <2>1. /\ direct' \in [Core -> BOOLEAN] /\ was' \in [Core -> BOOLEAN]
        /\ fresh' \in [Core -> BOOLEAN]
    BY <1>1, Zenon DEF JitTypeOK
  <2> QED
    BY <1>1, <2>1 DEF JitTypeOK
<1>4. /\ \A d \in Core \ {c} : /\ at'[d] = at[d] /\ block'[d] = block[d] /\ read'[d] = read[d]
                               /\ was'[d] = was[d] /\ fresh'[d] = fresh[d] /\ direct'[d] = direct[d]
      /\ at'[c] = "in" /\ block'[c] = words /\ (direct'[c] => direct[c] /\ was[c])
  BY <1>1 DEF JitTypeOK
<1>5. Run'
  <2>1. UNCHANGED <<pc, waits>>
    BY <1>1 DEF coreVars, threads
  <2> SUFFICES ASSUME NEW d \in Core PROVE RunAt(d)'
    BY DEF Run
  <2>2. CASE d = c
    BY <1>1, <1>4, <2>1, <2>2 DEF Run, RunAt, Inst
  <2>3. CASE d # c
    BY <1>4, <2>1, <2>3 DEF Run, RunAt
  <2> QED
    BY <2>2, <2>3
<1>6. (Installing' => Installing) /\ (Storing' <=> Storing)
  BY <1>1, <1>4 DEF Installing, Storing
<1>7. InInstall'
  <2>1. ~(Installing' /\ Storing')
    BY <1>6 DEF InInstall
  <2>2. UNCHANGED <<words, watched>>
    BY <1>1
  <2>3. at'[c] \notin Inst
    BY <1>4 DEF Inst
  <2> QED
    BY <1>4, <2>1, <2>2, <2>3 DEF InInstall, Inst
<1>8. BlocksWatched' /\ NoStaleBlock'
  <2>1. UNCHANGED <<words, watched, dirty>> /\ watched
    BY <1>1
  <2>2. BlocksWatched'
    BY <2>1 DEF BlocksWatched
  <2>3. NoStaleBlock'
    BY <1>4, <1>6, <2>1 DEF NoStaleBlock
  <2> QED
    BY <2>2, <2>3
<1>9. EntriesLeave'
  <2> SUFFICES ASSUME NEW d \in Core, direct'[d], Live(d)'
               PROVE  \E t \in Translators : Asked(t, d)'
    BY DEF EntriesLeave
  <2>1. PICK t \in Translators : Asked(t, d)
    BY <1>1, <1>4 DEF EntriesLeave, Live, coreVars, slots
  <2>2. t # c
    BY <1>1, <1>4, <2>1 DEF Asked
  <2> QED
    BY <1>1, <1>4, <2>1, <2>2, TranslatorsAssumption DEF Asked, coreVars, slots, threads
<1> QED
  BY <1>2, <1>3, <1>5, <1>7, <1>8, <1>9

-----------------------------------------------------------------------------
(* Stores to the page. *)

\* A direct store changes no page that has a block in use.
LEMMA StoreDirectInv ==
    ASSUME Scope, IInv, NEW c \in Core, StoreDirect(c)
    PROVE  IInv'
<1> USE DEF IInv, Blocks
<1>1. /\ words' = words + 1
      /\ UNCHANGED <<coreVars, watched, dirty, direct, block, read, was, fresh, at>>
      /\ direct[c] /\ ~Installing /\ Live(c)
  BY DEF StoreDirect, Here, MayWrite, Scope, OffIsQuiet
<1>2. CoresTypeOK' /\ Loop' /\ Accounting' /\ OffIsQuiet' /\ Run' /\ EntriesLeave'
  <2>1. CoresTypeOK' /\ Loop' /\ Accounting' /\ OffIsQuiet' /\ Run'
    BY <1>1 DEF CoresTypeOK, Loop, Accounting, OffIsQuiet, Live, Run, RunAt, coreVars, slots, threads
  <2>2. EntriesLeave'
    BY <1>1 DEF EntriesLeave, Asked, Live, coreVars, slots, threads
  <2> QED
    BY <2>1, <2>2
<1>3. JitTypeOK'
  BY <1>1 DEF JitTypeOK
<1>4. ~Installing' /\ (Storing' <=> Storing)
  BY <1>1 DEF Installing, Storing
<1>5. InInstall'
  BY <1>1, <1>4 DEF InInstall, Installing, Inst
<1>6. BlocksWatched'
  BY <1>1 DEF BlocksWatched
<1>7. NoStaleBlock'
  BY <1>1, <1>4, InvBlocksSafe DEF BlocksSafe, BlocksUnwritable, NoStaleBlock
<1> QED
  BY <1>2, <1>3, <1>5, <1>6, <1>7

\* A store through the bus writes its bytes, no install under way; the touch
\* that discards the block is still to come.
LEMMA StoreInv ==
    ASSUME Scope, IInv, NEW c \in Core, Store(c)
    PROVE  IInv'
<1> USE DEF IInv, Blocks
<1>1. /\ at' = [at EXCEPT ![c] = "stored"] /\ "stored" \in At /\ words' = words + 1
      /\ UNCHANGED <<coreVars, watched, dirty, direct, block, read, fresh>>
      /\ was' = [was EXCEPT ![c] = (at[c] = "in")]
      /\ pc[c] = "exec" /\ at[c] \in {"out", "in", "one"} /\ ~Installing
  BY DEF Store, GoTo, MayWrite, Scope, At
<1>2. CoresTypeOK' /\ Loop' /\ Accounting' /\ OffIsQuiet'
  BY <1>1, LoopRests
<1>3. JitTypeOK'
  <2>1. was' \in [Core -> BOOLEAN]
    BY <1>1, Zenon DEF JitTypeOK
  <2> QED
    BY <1>1, <2>1 DEF JitTypeOK
<1>4. /\ \A d \in Core \ {c} : at'[d] = at[d] /\ was'[d] = was[d]
      /\ at'[c] = "stored" /\ (was'[c] => at[c] = "in")
  BY <1>1 DEF JitTypeOK
<1>5. Run'
  BY <1>1, <1>4 DEF Run, RunAt, coreVars, threads, Inst
<1>6. ~Installing' /\ Storing'
  BY <1>1, <1>4 DEF Installing, Storing
<1>7. InInstall'
  BY <1>6 DEF InInstall, Installing, Inst
<1>8. BlocksWatched' /\ NoStaleBlock'
  BY <1>1, <1>4, <1>6 DEF BlocksWatched, NoStaleBlock
<1>9. EntriesLeave'
  BY <1>1, <1>4, AskedRests DEF EntriesLeave, Live, coreVars, slots
<1> QED
  BY <1>2, <1>3, <1>5, <1>7, <1>8, <1>9

\* A watched page that is written stops being watched, and from then to the
\* end of touch a store is under way.
LEMMA TouchHitInv ==
    ASSUME IInv, NEW c \in Core, TouchHit(c)
    PROVE  IInv'
<1> USE DEF IInv, Blocks
<1>1. /\ at' = [at EXCEPT ![c] = "unwatched"] /\ "unwatched" \in At /\ watched' = FALSE
      /\ UNCHANGED <<coreVars, words, dirty, direct, block, read, was, fresh>>
      /\ pc[c] = "exec" /\ at[c] = "stored"
  BY DEF TouchHit, Here, GoTo, At
<1>2. CoresTypeOK' /\ Loop' /\ Accounting' /\ OffIsQuiet'
  BY <1>1, LoopRests
<1>3. JitTypeOK'
  <2>1. watched' \in BOOLEAN
    BY <1>1, Zenon
  <2> QED
    BY <1>1, <2>1 DEF JitTypeOK
<1>4. (\A d \in Core \ {c} : at'[d] = at[d]) /\ at'[c] = "unwatched"
  BY <1>1 DEF JitTypeOK
<1>5. Run'
  BY <1>1, <1>4 DEF Run, RunAt, coreVars, threads, Inst
<1>6. ~Installing' /\ Storing'
  BY <1>1, <1>4 DEF InInstall, Installing, Storing
<1>7. InInstall'
  BY <1>6 DEF InInstall, Installing, Inst
<1>8. BlocksWatched' /\ NoStaleBlock' /\ EntriesLeave'
  BY <1>1, <1>4, <1>6 DEF BlocksWatched, NoStaleBlock, EntriesLeave
<1> QED
  BY <1>2, <1>3, <1>5, <1>7, <1>8

\* Once the lists are written no block of the page is in use; a JIT that
\* stored has none left.
LEMMA TouchPushInv ==
    ASSUME IInv, NEW c \in Core, TouchPush(c)
    PROVE  IInv'
<1> USE DEF IInv, Blocks
<1>1. /\ UNCHANGED <<coreVars, words, watched, direct, read, fresh>>
      /\ dirty' = [d \in Core |-> d # c \/ ~was[c]]
      /\ block' = [block EXCEPT ![c] = IF was[c] THEN 0 ELSE @]
      /\ was' = [was EXCEPT ![c] = FALSE]
      /\ pc[c] = "exec" /\ at[c] = "unwatched"
  BY DEF TouchPush, Here
<1>2. PICK l \in {"in", "done"} : /\ at' = [at EXCEPT ![c] = l] /\ l \in At
                                  /\ l = "in" => was[c]
  BY DEF TouchPush, GoTo, At
<1>3. CoresTypeOK' /\ Loop' /\ Accounting' /\ OffIsQuiet'
  BY <1>1, <1>2, LoopRests
<1>4. JitTypeOK'
  <2>1. was' \in [Core -> BOOLEAN] /\ dirty' \in [Core -> BOOLEAN]
    BY <1>1, Zenon DEF JitTypeOK
  <2> QED
    BY <1>1, <1>2, <2>1 DEF JitTypeOK
<1>5. /\ \A d \in Core \ {c} : at'[d] = at[d] /\ was'[d] = was[d] /\ block'[d] = block[d] /\ dirty'[d]
      /\ at'[c] = l /\ ~was'[c] /\ block'[c] \in {0, block[c]} /\ (dirty'[c] \/ block'[c] = 0)
  BY <1>1, <1>2 DEF JitTypeOK
<1>6. Run'
  <2>1. UNCHANGED <<pc, waits>>
    BY <1>1 DEF coreVars, threads
  <2> SUFFICES ASSUME NEW d \in Core PROVE RunAt(d)'
    BY DEF Run
  <2>2. CASE d = c
    BY <1>1, <1>2, <1>5, <2>1, <2>2 DEF Run, RunAt, Inst
  <2>3. CASE d # c
    BY <1>5, <2>1, <2>3 DEF Run, RunAt
  <2> QED
    BY <2>2, <2>3
<1>7. ~Installing'
  BY <1>1, <1>2, <1>5 DEF InInstall, Installing, Storing
<1>8. InInstall'
  BY <1>7 DEF InInstall, Installing, Inst
<1>9. BlocksWatched' /\ NoStaleBlock'
  BY <1>5 DEF BlocksWatched, NoStaleBlock
<1>10. EntriesLeave'
  BY <1>1, <1>2, <1>5, AskedRests DEF EntriesLeave, Live, coreVars, slots
<1> QED
  BY <1>3, <1>4, <1>6, <1>8, <1>9, <1>10

\* A page that is not watched may get a write entry: none of its blocks is in
\* use, unless another store has just unwatched it.
LEMMA TouchMissInv ==
    ASSUME IInv, NEW c \in Core, TouchMiss(c)
    PROVE  IInv'
<1> USE DEF IInv, Blocks
<1>1. /\ UNCHANGED <<coreVars, words, watched, dirty, block, read, fresh>>
      /\ was' = [was EXCEPT ![c] = FALSE]
      /\ pc[c] = "exec" /\ at[c] = "stored" /\ ~watched
  BY DEF TouchMiss, Here
<1>2. PICK l \in {"in", "done"} : /\ at' = [at EXCEPT ![c] = l] /\ l \in At
                                  /\ l = "in" => was[c]
  BY DEF TouchMiss, GoTo, At
<1>3. CoresTypeOK' /\ Loop' /\ Accounting' /\ OffIsQuiet'
  BY <1>1, <1>2, LoopRests
<1>4. JitTypeOK'
  <2>1. was' \in [Core -> BOOLEAN] /\ direct' \in [Core -> BOOLEAN]
    BY Zenon DEF JitTypeOK, TouchMiss
  <2> QED
    BY <1>1, <1>2, <2>1 DEF JitTypeOK
<1>5. /\ \A d \in Core \ {c} : at'[d] = at[d] /\ was'[d] = was[d]
      /\ at'[c] = l /\ ~was'[c]
  BY <1>1, <1>2 DEF JitTypeOK
<1>6. Run'
  <2>1. UNCHANGED <<pc, waits, block>>
    BY <1>1 DEF coreVars, threads
  <2> SUFFICES ASSUME NEW d \in Core PROVE RunAt(d)'
    BY DEF Run
  <2>2. CASE d = c
    <3>1. RunAt(c)
      BY DEF Run
    <3> QED
      BY <1>1, <1>2, <1>5, <2>1, <2>2, <3>1 DEF RunAt, Inst
  <2>3. CASE d # c
    <3>1. RunAt(d) /\ at'[d] = at[d] /\ was'[d] = was[d]
      BY <1>5, <2>3 DEF Run
    <3> QED
      BY <2>1, <3>1 DEF RunAt
  <2> QED
    BY <2>2, <2>3
<1>7. ~Installing'
  BY <1>1, <1>2, <1>5 DEF InInstall, Installing, Storing
<1>8. InInstall'
  BY <1>7 DEF InInstall, Installing, Inst
<1>9. BlocksWatched'
  BY <1>1, <1>5 DEF BlocksWatched
<1>10. NoStaleBlock'
  BY <1>1, <1>9 DEF BlocksWatched, NoStaleBlock, Storing
<1>11. EntriesLeave'
  BY <1>1 DEF EntriesLeave
<1> QED
  BY <1>3, <1>4, <1>6, <1>8, <1>9, <1>10, <1>11

-----------------------------------------------------------------------------
\* Every step keeps the invariant.
LEMMA NextInv == ASSUME Scope, IInv, [Next]_vars PROVE IInv'
<1>1. ASSUME NEW c \in Core, Step(c)
      PROVE  IInv'
  <2>1. CASE JitEnter(c) \/ JitLeave(c) \/ Psci(c) \/ Cold(c)
    BY <2>1, JitEnterInv, JitLeaveInv, PsciInv, ColdInv
  <2>2. CASE Discover(c) \/ WasWatched(c) \/ AskFresh(c) \/ SetWatch(c) \/ Posted(c) \/ Install(c)
    BY <2>2, DiscoverInv, WatchTestsInv, SetWatchInv, PostedInv, InstallInv
  <2>3. CASE StoreDirect(c) \/ Store(c) \/ TouchHit(c) \/ TouchPush(c) \/ TouchMiss(c)
    BY <2>3, StoreDirectInv, StoreInv, TouchHitInv, TouchPushInv, TouchMissInv
  <2>4. CASE Service(c) \/ PowerOnReset(c) \/ InterpretOne(c)
    BY <2>4, ServiceInv, PowerOnInv, MovesInv DEF InterpretOne
  <2>5. CASE Thread(c)
    BY <2>5, MovesInv, ServedInv, BroadcastSlotInv, AcksDoneInv, ScanInv DEF Thread
  <2> QED
    BY <1>1, <2>1, <2>2, <2>3, <2>4, <2>5 DEF Step
<1>2. CASE UNCHANGED vars
  <2> USE <1>2 DEF IInv, vars, coreVars, slots, threads, jitVars
  <2>1. JitTypeOK' /\ InInstall' /\ BlocksWatched' /\ NoStaleBlock'
    BY JitRests DEF JitTypeOK
  <2>2. CoresTypeOK' /\ Loop' /\ Accounting' /\ OffIsQuiet' /\ Run'
    BY DEF CoresTypeOK, Loop, Accounting, OffIsQuiet, Live, Run, RunAt
  <2>3. EntriesLeave'
    BY DEF Blocks, EntriesLeave, Asked, Live
  <2> QED
    BY <2>1, <2>2, <2>3 DEF Blocks
<1> QED
  BY <1>1, <1>2 DEF Next

\* parallel.rs: "a page that gets translated code is first made unwritable
\* through the other cores' software TLBs, then translated".  For every number
\* of cores, and whatever cores are turned on and off meanwhile: when one core
\* executes code of the page and no store overlaps an install, a block in use
\* is of what is in memory and no core that runs guest code writes it unseen.
THEOREM CodeSafety == ASSUME Scope PROVE Spec => []BlocksSafe
<1>1. IInv => BlocksSafe
  BY InvBlocksSafe
<1> QED
  BY InitInv, NextInv, <1>1, PTL DEF Spec
=============================================================================
