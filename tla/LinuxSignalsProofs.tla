------------------------ MODULE LinuxSignalsProofs ------------------------
(***************************************************************************)
(* Signals of one process, for every number of threads, signals and        *)
(* timeouts: masks are restored, no timer is missed and, if handlers make  *)
(* no blocking calls, none is entered again and no wait ends by another    *)
(* call's deadline.                                                        *)
(***************************************************************************)
EXTENDS LinuxSignals, WellFoundedInduction, SequenceTheorems, TLAPS

SgSpec == SgInit /\ [][SgNext]_sgVars

Masks == SUBSET SgSignals

CallOrNone == Calls \cup {SgIdle}

Frames == [sig : SgSignals, mask : Masks, call : CallOrNone]

Task ==
    [mask : Masks, pend : Masks, saved : Masks \cup {NoMask}, intr : BOOLEAN,
     state : {"run", "blocked"}, call : CallOrNone, until : Int, dl : Int, mine : BOOLEAN,
     woken : BOOLEAN, frames : Seq(Frames)]

\* The program's mask p is where the thread goes back to: under its handlers in
\* the outermost frame, otherwise in saved_mask or in force.  saved_mask is set
\* only in a call with a temporary mask.
MaskKept(me, p) ==
    /\ me.saved # NoMask => me.call.op \in {"suspend", "poll"}
    /\ me.frames = <<>> => OldMask(me) = p
    /\ me.frames # <<>> => me.frames[1].mask = p

\* Handlers make no calls: only the outermost interrupted one.  The signals of
\* the handlers in progress are blocked, in each handler those outside it.
Nested(me) ==
    /\ me.frames # <<>> => me.call = SgIdle
    /\ \A i \in 2 .. Len(me.frames) : me.frames[i].call = SgIdle
    /\ \A i \in 1 .. Len(me.frames) : me.frames[i].sig \in me.mask
    /\ \A i, j \in 1 .. Len(me.frames) : i < j =>
         /\ me.frames[i].sig \in me.frames[j].mask
         /\ me.frames[i].sig # me.frames[j].sig

\* The call in progress, interrupted or not.
CurrentCall(me) == IF me.frames = <<>> THEN me.call ELSE me.frames[1].call

\* A deadline is that of the call in progress, and a blocked thread waits for
\* its own.
DeadlineOwn(me) ==
    /\ me.dl # Never => me.mine /\ CurrentCall(me).d # 0
    /\ me.state = "blocked" => me.frames = <<>> /\ me.until \in {Never, me.dl}

TypeOK ==
    /\ sgT \in [SgThreads -> Task]
    /\ sgProg \in [SgThreads -> Masks]
    /\ sgCur \in SgThreads
    /\ sgAct = [s \in SgSignals |-> sgAct[s]]
    /\ \A s \in SgSignals : sgAct[s].mask \in Masks

TimerInv ==
    /\ sgItimer \in [at : Int, iv : Int]
    /\ sgNextA \in Int
    /\ SgAlarmSeen

\* What holds whatever handlers do.
MaskInv == TypeOK /\ \A t \in SgThreads : MaskKept(sgT[t], sgProg[t])

\* What holds if they make no blocking calls.
PlainInv == \A t \in SgThreads : Nested(sgT[t]) /\ DeadlineOwn(sgT[t])

-----------------------------------------------------------------------------
\* No mask is the one that stands for none.
LEMMA MasksAreMasks == \A m \in Masks : m # NoMask
BY LinuxSignalsAssumption DEF Masks, NoMask

\* A set of naturals has a least member.
LEMMA SmallestIsOne == ASSUME NEW S \in SUBSET Nat, S # {} PROVE Smallest(S) \in S
<1> DEFINE R == {ss \in Nat \X Nat : ss[1] < ss[2]}
<1>1. IsWellFoundedOn(R, Nat)
  BY NatLessThanWellFounded DEF OpToRel
<1>2. \A x, y \in Nat : y < x => <<y, x>> \in R
  OBVIOUS
<1> HIDE DEF R
<1>3. PICK x \in S : \A y \in S : ~(<<y, x>> \in R)
  BY <1>1, WFMin
<1>4. \A y \in S : ~(y < x)
  BY <1>2, <1>3
<1>5. \A y \in S : x <= y
  BY <1>4
<1> QED
  BY <1>5 DEF Smallest

\* The calls a program makes.
LEMMA CallFields ==
    ASSUME NEW call \in Calls
    PROVE  /\ call.op \in {"sleep", "futex", "suspend", "poll"} /\ call # SgIdle
           /\ call.d \in Nat
           /\ call.op = "sleep" => call.d # 0
           /\ call.op = "suspend" => call.d = 0 /\ call.m \in Masks
           /\ call.op = "poll" => call.m \in Masks \cup {NoMask}
<1> DEFINE facts == /\ call.op \in {"sleep", "futex", "suspend", "poll"}
                    /\ call.d \in SgTimeouts \cup {0}
                    /\ call.op = "sleep" => call.d # 0
                    /\ call.op = "suspend" => call.d = 0 /\ call.m \in SgMasks
                    /\ call.op = "poll" => call.m \in SgMasks \cup {NoMask}
<1>1. call \in [op : {"sleep"}, d : SgTimeouts \ {0}, m : {{}}] => facts
  OBVIOUS
<1>2. call \in [op : {"futex"}, d : SgTimeouts, m : {{}}] => facts
  OBVIOUS
<1>3. call \in [op : {"suspend"}, d : {0}, m : SgMasks] => facts
  OBVIOUS
<1>4. call \in [op : {"poll"}, d : SgTimeouts, m : SgMasks \cup {NoMask}] => facts
  OBVIOUS
<1>5. facts
  BY <1>1, <1>2, <1>3, <1>4 DEF Calls
<1>6. call # SgIdle
  <2>1. SgIdle.op = "none"
    BY DEF SgIdle
  <2> QED
    BY <1>5, <2>1
<1>7. call.d \in Nat
  <2>1. \A d \in SgTimeouts \cup {0} : d \in Nat
    BY LinuxSignalsAssumption
  <2>2. call.d \in SgTimeouts \cup {0}
    BY <1>5
  <2> QED
    BY <2>1, <2>2, Zenon
<1>8. SgMasks \subseteq Masks
  BY LinuxSignalsAssumption DEF Masks
<1> QED
  BY <1>5, <1>6, <1>7, <1>8

-----------------------------------------------------------------------------
(* One thread.                                                             *)

\* Signals that come and go, wakeups and the end of a wait: the masks, the
\* frames, the call and its deadline are as they were.
LEMMA OtherFields ==
    ASSUME NEW me, NEW y, NEW p,
           y.mask = me.mask, y.saved = me.saved, y.call = me.call, y.frames = me.frames
    PROVE  /\ MaskKept(me, p) => MaskKept(y, p)
           /\ Nested(me) => Nested(y)
           /\ /\ DeadlineOwn(me)
              /\ y.dl = me.dl /\ y.mine = me.mine /\ y.until = me.until
              /\ y.state \in {me.state, "run"}
              => DeadlineOwn(y)
<1>1. MaskKept(me, p) => MaskKept(y, p)
  BY DEF MaskKept, OldMask
<1>2. Nested(me) => Nested(y)
  BY Zenon DEF Nested
<1>3. CurrentCall(y) = CurrentCall(me)
  BY DEF CurrentCall
<1>4. /\ DeadlineOwn(me)
      /\ y.dl = me.dl /\ y.mine = me.mine /\ y.until = me.until
      /\ y.state \in {me.state, "run"}
      => DeadlineOwn(y)
  BY <1>3 DEF DeadlineOwn
<1> QED
  BY <1>1, <1>2, <1>4

\* A thread as it is after its call returned (syscall()).
LEMMA ReturnedFields ==
    ASSUME NEW me \in Task
    PROVE  /\ Returned(me) \in Task
           /\ Returned(me).mask = me.mask /\ Returned(me).saved = me.saved
           /\ Returned(me).frames = me.frames /\ Returned(me).state = me.state
           /\ Returned(me).call = SgIdle /\ Returned(me).dl = Never
<1>1. Never \in Int /\ SgIdle \in CallOrNone
  BY LinuxSignalsAssumption DEF Never, CallOrNone
<1> QED
  BY <1>1 DEF Returned, Task

\* A thread that blocks.
LEMMA BlocksFields ==
    ASSUME NEW me \in Task, NEW call \in Calls
    PROVE  /\ Blocks(me, call) \in Task
           /\ Blocks(me, call).mask = me.mask /\ Blocks(me, call).saved = me.saved
           /\ Blocks(me, call).frames = me.frames /\ Blocks(me, call).state = "blocked"
           /\ Blocks(me, call).call = call /\ Blocks(me, call).dl = me.dl
           /\ Blocks(me, call).mine = me.mine /\ Blocks(me, call).until = me.dl
BY DEF Blocks, Task, CallOrNone

\* The deadline of a call is its own, if the one it finds is.
LEMMA WithDeadlineFields ==
    ASSUME NEW me \in Task, NEW call \in Calls, sgNow' \in Int
    PROVE  LET w == WithDeadline(me, call)
           IN  /\ w \in Task
               /\ w.mask = me.mask /\ w.saved = me.saved /\ w.frames = me.frames
               /\ w.state = me.state /\ w.call = me.call
               /\ (me.dl # Never => me.mine /\ call.d # 0) => (w.dl # Never => w.mine /\ call.d # 0)
<1>1. sgNow' + call.d \in Int
  BY CallFields
<1>2. CASE call.d = 0 \/ me.dl # Never
  BY <1>2 DEF WithDeadline
<1>3. CASE ~(call.d = 0 \/ me.dl # Never)
  BY <1>1, <1>3 DEF WithDeadline, Task
<1> QED
  BY <1>2, <1>3

\* rt_sigsuspend and ppoll put the mask aside.
LEMMA TemporaryFields ==
    ASSUME NEW me \in Task, NEW m \in Masks
    PROVE  LET w == TemporaryMask(me, m)
           IN  /\ w \in Task /\ OldMask(w) = OldMask(me)
               /\ w.frames = me.frames /\ w.state = me.state /\ w.call = me.call
               /\ w.dl = me.dl /\ w.mine = me.mine
<1>1. CASE me.saved = NoMask
  <2>1. me.mask \in Masks /\ me.mask # NoMask
    BY MasksAreMasks DEF Task
  <2> QED
    BY <1>1, <2>1 DEF TemporaryMask, OldMask, Task
<1>2. CASE me.saved # NoMask
  BY <1>2 DEF TemporaryMask
<1> QED
  BY <1>1, <1>2
\* What a blocking call, or its execution again, does to a thread: it keeps the
\* mask to go back to, in force once the call is over, and the frames; if it
\* blocks, it is the call in progress and its deadline is the one it found or set.
LEMMA Executes ==
    ASSUME NEW me \in Task, NEW call \in Calls, sgNow' \in Int,
           me.saved # NoMask => call.op \in {"suspend", "poll"},
           me.state = "run"
    PROVE  LET y == Execute(me, call)
           IN  /\ y \in Task /\ OldMask(y) = OldMask(me) /\ y.frames = me.frames
               /\ \/ y.call = call /\ y.state = "blocked" /\ (y.until = y.dl \/ y.until = Never)
                  \/ y.call = SgIdle /\ y.state = "run" /\ y.dl = Never /\ y.saved = NoMask
               /\ y.saved # NoMask => y.call.op \in {"suspend", "poll"}
               /\ (me.dl # Never => me.mine /\ call.d # 0) => (y.dl # Never => y.mine /\ call.d # 0)
<1> DEFINE good(y) == /\ y \in Task /\ OldMask(y) = OldMask(me) /\ y.frames = me.frames
                      /\ \/ y.call = call /\ y.state = "blocked" /\ (y.until = y.dl \/ y.until = Never)
                         \/ y.call = SgIdle /\ y.state = "run" /\ y.dl = Never /\ y.saved = NoMask
                      /\ y.saved # NoMask => y.call.op \in {"suspend", "poll"}
                      /\ (me.dl # Never => me.mine /\ call.d # 0)
                            => (y.dl # Never => y.mine /\ call.d # 0)
           own(x) == x.dl # Never => x.mine /\ call.d # 0
<1>1. ASSUME NEW w \in Task, w.mask = me.mask, w.saved = me.saved, w.frames = me.frames,
             w.state = "run", me.saved = NoMask
      PROVE  good(Returned(w))
  BY <1>1, ReturnedFields DEF OldMask
<1>2. ASSUME NEW w \in Task, OldMask(w) = OldMask(me), w.frames = me.frames,
             own(me) => own(w), w.saved # NoMask => call.op \in {"suspend", "poll"}
      PROVE  good(Blocks(w, call))
  BY <1>2, BlocksFields DEF OldMask
<1> HIDE DEF good
<1>3. CASE call.op = "sleep"
  <2> DEFINE w == WithDeadline(me, call)
  <2>1. /\ w \in Task /\ w.mask = me.mask /\ w.saved = me.saved /\ w.frames = me.frames
        /\ w.state = "run" /\ (own(me) => own(w))
    BY WithDeadlineFields
  <2> HIDE DEF w
  <2>2. me.saved = NoMask
    BY <1>3
  <2>3. good(Returned(w)) /\ good(Blocks(w, call))
    BY <1>1, <1>2, <2>1, <2>2 DEF OldMask
  <2>4. Execute(me, call) = IF sgNow' >= w.dl THEN Returned(w) ELSE Blocks(w, call)
    BY <1>3 DEF Execute, Sleep, w
  <2> QED
    BY <2>3, <2>4 DEF good
<1>4. CASE call.op = "futex"
  <2> DEFINE w == WithDeadline(me, call)
             u == [me EXCEPT !.woken = FALSE]
  <2>1. /\ w \in Task /\ w.mask = me.mask /\ w.saved = me.saved /\ w.frames = me.frames
        /\ w.state = "run" /\ (own(me) => own(w))
    BY WithDeadlineFields
  <2>2. u \in Task /\ u.mask = me.mask /\ u.saved = me.saved /\ u.frames = me.frames /\ u.state = "run"
    BY DEF Task
  <2>3. Execute(me, call) = IF me.woken THEN Returned(u)
                            ELSE IF me.dl # Never /\ sgNow' >= me.dl THEN Returned(me)
                            ELSE Blocks(w, call)
    BY <1>4 DEF Execute, Futex
  <2> HIDE DEF w, u
  <2>4. me.saved = NoMask
    BY <1>4
  <2>5. good(Returned(u)) /\ good(Returned(me)) /\ good(Blocks(w, call))
    BY <1>1, <1>2, <2>1, <2>2, <2>4 DEF OldMask
  <2> QED
    BY <2>3, <2>5 DEF good
<1>5. CASE call.op = "suspend"
  <2> DEFINE w == TemporaryMask(me, call.m)
             y == [w EXCEPT !.state = "blocked", !.call = call, !.until = Never]
  <2>1. /\ w \in Task /\ OldMask(w) = OldMask(me) /\ w.frames = me.frames
        /\ w.dl = me.dl /\ w.mine = me.mine
    BY <1>5, CallFields, TemporaryFields
  <2>2. Execute(me, call) = y
    BY <1>5 DEF Execute, Suspend
  <2> HIDE DEF w
  <2>3. Never \in Int /\ call \in CallOrNone
    BY LinuxSignalsAssumption DEF Never, CallOrNone
  <2>4. /\ y \in Task /\ y.mask = w.mask /\ y.saved = w.saved /\ y.frames = w.frames
        /\ y.dl = w.dl /\ y.mine = w.mine /\ y.state = "blocked" /\ y.call = call
        /\ y.until = Never
    BY <2>1, <2>3 DEF Task
  <2> HIDE DEF y
  <2>5. OldMask(y) = OldMask(w)
    BY <2>4 DEF OldMask
  <2>6. good(y)
    BY <1>5, <2>1, <2>4, <2>5 DEF good
  <2> QED
    BY <2>2, <2>6 DEF good
<1>6. CASE call.op = "poll"
  <2> DEFINE k == IF call.m = NoMask THEN me ELSE TemporaryMask(me, call.m)
             w == WithDeadline(k, call)
             back == IF w.saved = NoMask THEN w ELSE [w EXCEPT !.mask = w.saved, !.saved = NoMask]
  <2>1. Execute(me, call) = IF w.dl = Never \/ sgNow' < w.dl THEN Blocks(w, call)
                            ELSE Returned(back)
    BY <1>6 DEF Execute, Poll
  <2>2. /\ k \in Task /\ OldMask(k) = OldMask(me) /\ k.frames = me.frames
        /\ k.state = me.state /\ k.dl = me.dl /\ k.mine = me.mine
    BY <1>6, CallFields, TemporaryFields
  <2> HIDE DEF k
  <2>3. /\ w \in Task /\ w.mask = k.mask /\ w.saved = k.saved /\ w.frames = k.frames
        /\ w.state = k.state /\ (own(k) => own(w))
    BY <2>2, WithDeadlineFields
  <2> HIDE DEF w
  <2>4. good(Blocks(w, call))
    <3>1. OldMask(w) = OldMask(me)
      BY <2>2, <2>3 DEF OldMask
    <3> QED
      BY <1>2, <1>6, <2>2, <2>3, <3>1
  <2>5. /\ back \in Task /\ back.frames = w.frames /\ back.state = w.state
        /\ back.saved = NoMask /\ back.mask = OldMask(w)
    <3>1. CASE w.saved = NoMask
      BY <2>3, <3>1 DEF OldMask
    <3>2. CASE w.saved # NoMask
      <4>1. w.saved \in Masks
        BY <2>3, <3>2 DEF Task
      <4> QED
        BY <2>3, <3>2, <4>1 DEF Task, OldMask
    <3> QED
      BY <3>1, <3>2
  <2> HIDE DEF back
  <2>6. good(Returned(back))
    <3>1. back.mask = OldMask(me) /\ back.frames = me.frames /\ back.state = "run"
      BY <2>2, <2>3, <2>5 DEF OldMask
    <3> QED
      BY <2>5, <3>1, ReturnedFields DEF good, OldMask
  <2> QED
    BY <2>1, <2>4, <2>6 DEF good
<1> QED
  BY <1>3, <1>4, <1>5, <1>6, CallFields
\* setup_frame keeps the mask to go back to in its frame.
LEMMA FrameKept ==
    ASSUME NEW me \in Task, NEW s \in SgSignals, NEW p, sgAct[s].mask \in Masks
    PROVE  LET y == SetupFrame(me, s)
           IN  y \in Task /\ (MaskKept(me, p) => MaskKept(y, p))
<1> DEFINE eintr == me.intr /\ ~Restarts(me, s)
           call == IF eintr THEN SgIdle ELSE me.call
           frame == [sig |-> s, mask |-> OldMask(me), call |-> call]
           y == SetupFrame(me, s)
<1>1. frame \in Frames
  <2>1. OldMask(me) \in Masks
    BY DEF OldMask, Task
  <2>2. call \in CallOrNone
    BY DEF CallOrNone, Task
  <2> QED
    BY <2>1, <2>2 DEF Frames
<1>2. HandlerMask(me, s) \in Masks
  BY DEF HandlerMask, OldMask, Task, Masks
<1>3. me.pend \ {s} \in Masks
  BY DEF Task, Masks
<1>4. Never \in Int /\ SgIdle \in CallOrNone
  BY LinuxSignalsAssumption DEF Never, CallOrNone
<1>5. Append(me.frames, frame) \in Seq(Frames)
  BY <1>1 DEF Task
<1>6. y = [me EXCEPT !.pend = @ \ {s}, !.intr = FALSE,
                     !.frames = Append(@, frame),
                     !.mask = HandlerMask(me, s), !.saved = NoMask, !.call = SgIdle,
                     !.until = Never,
                     !.dl = IF eintr THEN Never ELSE @,
                     !.mine = IF eintr THEN TRUE ELSE @,
                     !.woken = IF eintr THEN FALSE ELSE @]
  BY DEF SetupFrame
<1> HIDE DEF frame, eintr
<1>7. y \in Task
  BY <1>2, <1>3, <1>4, <1>5, <1>6 DEF Task
<1>8. y.saved = NoMask /\ y.frames = Append(me.frames, frame)
  BY <1>6 DEF Task
<1>9. me.frames \in Seq(Frames)
  BY DEF Task
<1>10. /\ y.frames # <<>>
       /\ me.frames = <<>> => y.frames[1] = frame
       /\ me.frames # <<>> => y.frames[1] = me.frames[1]
  BY <1>1, <1>8, <1>9
<1>11. frame.mask = OldMask(me)
  BY DEF frame
<1>12. MaskKept(me, p) => MaskKept(y, p)
  BY <1>8, <1>10, <1>11 DEF MaskKept
<1> QED
  BY <1>7, <1>12
\* A handler is entered for a signal the handlers in progress do not block; the
\* interrupted call keeps its deadline unless it has returned.
LEMMA FrameNested ==
    ASSUME NEW me \in Task, NEW s \in SgSignals, NEW p, sgAct[s].mask \in Masks,
           MaskKept(me, p), Nested(me), DeadlineOwn(me),
           s \notin me.mask, me.state = "run"
    PROVE  Nested(SetupFrame(me, s)) /\ DeadlineOwn(SetupFrame(me, s))
<1> DEFINE eintr == me.intr /\ ~Restarts(me, s)
           call == IF eintr THEN SgIdle ELSE me.call
           frame == [sig |-> s, mask |-> OldMask(me), call |-> call]
           y == SetupFrame(me, s)
           n == Len(me.frames)
<1>1. /\ y.frames = Append(me.frames, frame)
      /\ y.mask = HandlerMask(me, s) /\ y.call = SgIdle
      /\ y.dl = (IF eintr THEN Never ELSE me.dl)
      /\ y.mine = (IF eintr THEN TRUE ELSE me.mine)
      /\ y.state = me.state
  BY DEF SetupFrame, Task
<1>2. me.frames \in Seq(Frames) /\ n \in Nat
  BY DEF Task
<1>3. /\ Len(y.frames) = n + 1
      /\ y.frames[n + 1] = frame
      /\ \A i \in 1 .. n : y.frames[i] = me.frames[i]
  <2>1. Append(me.frames, frame) \in Seq(Frames \cup {frame})
    BY <1>2
  <2> QED
    BY <1>1, <1>2, <2>1
<1>4. frame.sig = s /\ frame.mask = OldMask(me) /\ frame.call = call
  OBVIOUS
<1>5. s \in y.mask /\ OldMask(me) \subseteq y.mask
  BY <1>1 DEF HandlerMask
<1>6. n > 0 => me.call = SgIdle /\ OldMask(me) = me.mask
  <2>1. n > 0 => me.frames # <<>>
    OBVIOUS
  <2>2. me.frames # <<>> => me.call = SgIdle
    BY DEF Nested
  <2>3. me.call = SgIdle => me.saved = NoMask
    BY DEF MaskKept, SgIdle
  <2> QED
    BY <2>1, <2>2, <2>3 DEF OldMask
<1> HIDE DEF frame, y, n
<1>7. Nested(y)
  <2>1. y.frames # <<>> => y.call = SgIdle
    BY <1>1
  <2>2. ASSUME NEW i \in 2 .. (n + 1) PROVE y.frames[i].call = SgIdle
    <3>1. CASE i = n + 1
      BY <1>2, <1>3, <1>4, <1>6, <3>1
    <3>2. CASE i # n + 1
      <4>1. i \in 2 .. n /\ i \in 1 .. n
        BY <1>2, <3>2
      <4>2. me.frames[i].call = SgIdle
        BY <4>1 DEF Nested, n
      <4> QED
        BY <1>3, <4>1, <4>2
    <3> QED
      BY <3>1, <3>2
  <2>3. ASSUME NEW i \in 1 .. n PROVE me.frames[i].sig \in OldMask(me) /\ me.frames[i].sig # s
    <3>1. me.frames[i].sig \in me.mask
      BY DEF Nested, n
    <3>2. n > 0
      BY <1>2
    <3> QED
      BY <1>6, <3>1, <3>2
  <2>4. ASSUME NEW i \in 1 .. (n + 1) PROVE y.frames[i].sig \in y.mask
    <3>1. CASE i = n + 1
      BY <1>3, <1>4, <1>5, <3>1
    <3>2. CASE i # n + 1
      <4>1. i \in 1 .. n
        BY <1>2, <3>2
      <4> QED
        BY <1>3, <1>5, <2>3, <4>1
    <3> QED
      BY <3>1, <3>2
  <2>5. ASSUME NEW i \in 1 .. (n + 1), NEW j \in 1 .. (n + 1), i < j
        PROVE  y.frames[i].sig \in y.frames[j].mask /\ y.frames[i].sig # y.frames[j].sig
    <3>0. i \in 1 .. n /\ y.frames[i] = me.frames[i]
      <4>1. i \in 1 .. n
        BY <1>2, <2>5
      <4> QED
        BY <1>3, <4>1
    <3>1. CASE j = n + 1
      BY <1>3, <1>4, <2>3, <3>0, <3>1
    <3>2. CASE j # n + 1
      <4>1. j \in 1 .. n
        BY <1>2, <3>2
      <4>2. me.frames[i].sig \in me.frames[j].mask /\ me.frames[i].sig # me.frames[j].sig
        BY <2>5, <3>0, <4>1 DEF Nested, n
      <4> QED
        BY <1>3, <3>0, <4>1, <4>2
    <3> QED
      BY <3>1, <3>2
  <2> QED
    BY <1>3, <2>1, <2>2, <2>4, <2>5 DEF Nested
<1>8. DeadlineOwn(y)
  <2>1. y.state = "run"
    BY <1>1
  <2>2. ASSUME y.dl # Never PROVE y.mine /\ CurrentCall(y).d # 0
    <3>1. ~eintr /\ me.dl # Never
      BY <1>1, <2>2
    <3>2. y.mine
      BY <1>1, <3>1 DEF DeadlineOwn
    <3>3. CurrentCall(me).d # 0
      BY <3>1 DEF DeadlineOwn
    <3>4. y.frames # <<>> /\ CurrentCall(y) = y.frames[1].call
      BY <1>2, <1>3 DEF CurrentCall
    <3>5. CASE n = 0
      <4>1. me.frames = <<>>
        BY <1>2, <3>5 DEF n
      <4>2. y.frames[1] = frame
        BY <1>3, <3>5
      <4> QED
        BY <1>4, <3>1, <3>2, <3>3, <3>4, <4>1, <4>2 DEF CurrentCall
    <3>6. CASE n # 0
      <4>1. me.frames # <<>>
        BY <3>6 DEF n
      <4>2. y.frames[1] = me.frames[1]
        BY <1>2, <1>3, <3>6
      <4> QED
        BY <3>2, <3>3, <3>4, <4>1, <4>2 DEF CurrentCall
    <3> QED
      BY <3>5, <3>6
  <2> QED
    BY <2>1, <2>2 DEF DeadlineOwn
<1> QED
  BY <1>7, <1>8 DEF y

\* rt_sigreturn goes back to the frame's mask and call.
LEMMA Unwinds ==
    ASSUME NEW me \in Task, NEW p, me.call = SgIdle, me.frames # <<>>, MaskKept(me, p)
    PROVE  LET top == me.frames[Len(me.frames)]
               y == [me EXCEPT !.mask = top.mask, !.call = top.call,
                               !.frames = SubSeq(@, 1, Len(@) - 1)]
           IN  /\ y \in Task /\ MaskKept(y, p)
               /\ Nested(me) => Nested(y)
               /\ DeadlineOwn(me) /\ me.state = "run" => DeadlineOwn(y)
<1> DEFINE n == Len(me.frames)
           top == me.frames[n]
           y == [me EXCEPT !.mask = top.mask, !.call = top.call,
                           !.frames = SubSeq(@, 1, Len(@) - 1)]
<1>1. me.frames \in Seq(Frames) /\ n \in Nat \ {0}
  BY DEF Task
<1>2. top \in Frames
  BY <1>1
<1>3. top.mask \in Masks /\ top.call \in CallOrNone
  BY <1>2 DEF Frames
<1>4. SubSeq(me.frames, 1, n - 1) \in Seq(Frames)
  BY <1>1
<1>5. y \in Task
  BY <1>3, <1>4 DEF Task
<1>6. /\ y.mask = top.mask /\ y.call = top.call /\ y.frames = SubSeq(me.frames, 1, n - 1)
      /\ y.saved = me.saved /\ y.state = me.state /\ y.dl = me.dl /\ y.mine = me.mine
  BY DEF Task
<1> HIDE DEF y
<1>7. /\ Len(y.frames) = n - 1
      /\ \A i \in 1 .. n - 1 : y.frames[i] = me.frames[i]
      /\ y.frames = <<>> <=> n = 1
      /\ n > 1 => y.frames[1] = me.frames[1]
  <2> DEFINE q == SubSeq(me.frames, 1, n - 1)
  <2>1. q \in Seq(Frames) /\ Len(q) = n - 1
    BY <1>1
  <2>2. \A i \in 1 .. n - 1 : q[i] = me.frames[i]
    BY <1>1
  <2>3. y.frames = q
    BY <1>6
  <2> HIDE DEF q, n
  <2>4. q = <<>> <=> n = 1
    BY <1>1, <2>1
  <2>5. n > 1 => 1 \in 1 .. n - 1
    BY <1>1
  <2> QED
    BY <2>1, <2>2, <2>3, <2>4, <2>5
<1>8. me.saved = NoMask
  BY DEF MaskKept, SgIdle
<1>9. MaskKept(y, p)
  BY <1>1, <1>6, <1>7, <1>8 DEF MaskKept, OldMask
<1>10. ASSUME Nested(me) PROVE Nested(y)
  <2> HIDE DEF n, top
  <2>1. y.frames # <<>> => y.call = SgIdle
    BY <1>1, <1>6, <1>7, <1>10 DEF Nested, n, top
  <2>2. \A i \in 2 .. n - 1 : y.frames[i].call = SgIdle
    BY <1>1, <1>7, <1>10 DEF Nested, n
  <2>3. ASSUME NEW i \in 1 .. n - 1 PROVE y.frames[i].sig \in y.mask
    <3>1. i \in 1 .. n /\ n \in 1 .. n /\ i < n
      BY <1>1
    <3>2. me.frames[i].sig \in me.frames[n].mask
      BY <3>1, <1>10 DEF Nested, n
    <3> QED
      BY <1>6, <1>7, <3>2 DEF top
  <2>4. ASSUME NEW i \in 1 .. n - 1, NEW j \in 1 .. n - 1, i < j
        PROVE  y.frames[i].sig \in y.frames[j].mask /\ y.frames[i].sig # y.frames[j].sig
    <3>1. i \in 1 .. n /\ j \in 1 .. n
      BY <1>1
    <3>2. me.frames[i].sig \in me.frames[j].mask /\ me.frames[i].sig # me.frames[j].sig
      BY <2>4, <3>1, <1>10 DEF Nested, n
    <3> QED
      BY <1>7, <3>2
  <2> QED
    BY <1>7, <2>1, <2>2, <2>3, <2>4 DEF Nested
<1>11. CurrentCall(y) = CurrentCall(me)
  BY <1>1, <1>6, <1>7 DEF CurrentCall
<1>12. DeadlineOwn(me) /\ me.state = "run" => DeadlineOwn(y)
  BY <1>6, <1>11 DEF DeadlineOwn
<1> QED
  BY <1>5, <1>9, <1>10, <1>12 DEF y
-----------------------------------------------------------------------------
(* The threads of the process.                                             *)

\* Only signals, wakeups and the end of waits.
Quiet(me, y) ==
    /\ y.mask = me.mask /\ y.saved = me.saved /\ y.call = me.call /\ y.frames = me.frames
    /\ y.dl = me.dl /\ y.mine = me.mine /\ y.until = me.until
    /\ y.state \in {me.state, "run"}

\* The types of the actions and of the program's masks.
Actions(act) ==
    act = [s \in SgSignals |-> act[s]] /\ \A s \in SgSignals : act[s].mask \in Masks

\* A step that does no more than that to every thread.
LEMMA QuietStep ==
    ASSUME MaskInv, sgT' \in [SgThreads -> Task],
           \A t \in SgThreads : Quiet(sgT[t], sgT'[t]),
           sgProg' = sgProg, sgCur' \in SgThreads, Actions(sgAct')
    PROVE  MaskInv' /\ (PlainInv => PlainInv')
<1>1. TypeOK'
  BY DEF MaskInv, TypeOK, Actions
<1>2. ASSUME NEW t \in SgThreads
      PROVE  /\ MaskKept(sgT'[t], sgProg'[t])
             /\ PlainInv => Nested(sgT'[t]) /\ DeadlineOwn(sgT'[t])
  <2>1. MaskKept(sgT[t], sgProg[t])
    BY DEF MaskInv
  <2>2. Quiet(sgT[t], sgT'[t])
    OBVIOUS
  <2>3. MaskKept(sgT'[t], sgProg'[t])
    BY <2>1, <2>2, OtherFields DEF Quiet
  <2>4. PlainInv => Nested(sgT'[t]) /\ DeadlineOwn(sgT'[t])
    <3>1. PlainInv => Nested(sgT[t]) /\ DeadlineOwn(sgT[t])
      BY DEF PlainInv
    <3> QED
      BY <2>2, <3>1, OtherFields DEF Quiet
  <2> QED
    BY <2>3, <2>4
<1>3. MaskInv'
  BY <1>1, <1>2 DEF MaskInv
<1>4. PlainInv => PlainInv'
  BY <1>2 DEF PlainInv
<1> QED
  BY <1>3, <1>4

\* A step of the thread that runs, under the mask its program has set.
LEMMA OneThread ==
    ASSUME MaskInv, NEW y \in Task, NEW p \in Masks, Thread(y), MaskKept(y, p),
           sgProg' = [sgProg EXCEPT ![sgCur] = p], sgCur' = sgCur, sgAct' = sgAct
    PROVE  MaskInv' /\ (PlainInv /\ Nested(y) /\ DeadlineOwn(y) => PlainInv')
<1>1. TypeOK'
  BY DEF MaskInv, TypeOK, Thread
<1>2. \A t \in SgThreads : /\ sgT'[t] = IF t = sgCur THEN y ELSE sgT[t]
                           /\ sgProg'[t] = IF t = sgCur THEN p ELSE sgProg[t]
  BY DEF MaskInv, TypeOK, Thread
<1>3. MaskInv'
  <2>1. ASSUME NEW t \in SgThreads PROVE MaskKept(sgT'[t], sgProg'[t])
    <3>1. CASE t = sgCur
      BY <1>2, <3>1
    <3>2. CASE t # sgCur
      BY <1>2, <3>2 DEF MaskInv
    <3> QED
      BY <3>1, <3>2
  <2> QED
    BY <1>1, <2>1 DEF MaskInv
<1>4. ASSUME PlainInv, Nested(y), DeadlineOwn(y) PROVE PlainInv'
  <2>1. ASSUME NEW t \in SgThreads PROVE Nested(sgT'[t]) /\ DeadlineOwn(sgT'[t])
    <3>1. CASE t = sgCur
      BY <1>2, <1>4, <3>1
    <3>2. CASE t # sgCur
      BY <1>2, <1>4, <3>2 DEF PlainInv
    <3> QED
      BY <3>1, <3>2
  <2> QED
    BY <2>1 DEF PlainInv
<1> QED
  BY <1>3, <1>4

\* Sending a signal, to a thread or to the process, is quiet.
LEMMA SendIsQuiet ==
    ASSUME sgT \in [SgThreads -> Task], NEW s \in SgSignals
    PROVE  /\ \A t : /\ SgPost(sgT, t, s) \in [SgThreads -> Task]
                     /\ \A u \in SgThreads : Quiet(sgT[u], SgPost(sgT, t, s)[u])
           /\ SgSend(sgT, s) \in [SgThreads -> Task]
           /\ \A u \in SgThreads : Quiet(sgT[u], SgSend(sgT, s)[u])
<1>1. ASSUME NEW t
      PROVE  /\ SgPost(sgT, t, s) \in [SgThreads -> Task]
             /\ \A u \in SgThreads : Quiet(sgT[u], SgPost(sgT, t, s)[u])
  <2> DEFINE T == [sgT EXCEPT ![t].pend = @ \cup {s}]
  <2>1. \A x \in Task : /\ [x EXCEPT !.pend = @ \cup {s}] \in Task
                        /\ Quiet(x, [x EXCEPT !.pend = @ \cup {s}])
    BY DEF Task, Masks, Quiet
  <2>2. /\ T \in [SgThreads -> Task]
        /\ \A u \in SgThreads : T[u] = sgT[u] \/ T[u] = [sgT[u] EXCEPT !.pend = @ \cup {s}]
    BY <2>1
  <2>3. \A x \in Task : Quiet(x, x)
    BY DEF Quiet
  <2> HIDE DEF T
  <2>4. \A u \in SgThreads : Quiet(sgT[u], T[u])
    BY <2>1, <2>2, <2>3
  <2>5. SgPost(sgT, t, s) = sgT \/ SgPost(sgT, t, s) = T
    BY DEF SgPost, T
  <2> QED
    BY <2>2, <2>3, <2>4, <2>5
<1> QED
  BY <1>1 DEF SgSend
-----------------------------------------------------------------------------
(* The run loop.                                                           *)

\* check_alarms may send SIGALRM; next_alarm stays a lower bound.
LEMMA CheckAlarmsInv ==
    ASSUME MaskInv, TimerInv, CheckAlarms
    PROVE  MaskInv' /\ (PlainInv => PlainInv') /\ TimerInv'
<1>1. MaskInv' /\ (PlainInv => PlainInv')
  <2>1. sgT \in [SgThreads -> Task] /\ sgCur \in SgThreads /\ Actions(sgAct)
    BY DEF MaskInv, TypeOK, Actions
  <2>2. sgProg' = sgProg /\ sgCur' = sgCur /\ sgAct' = sgAct
    BY DEF CheckAlarms
  <2>3. sgT' = sgT \/ sgT' = SgSend(sgT, SgAlarm)
    BY DEF CheckAlarms
  <2>4. SgAlarm \in SgSignals
    BY LinuxSignalsAssumption
  <2>5. \A x : Quiet(x, x)
    BY DEF Quiet
  <2>6. sgT' \in [SgThreads -> Task] /\ \A t \in SgThreads : Quiet(sgT[t], sgT'[t])
    BY <2>1, <2>3, <2>4, <2>5, SendIsQuiet
  <2> QED
    BY <2>1, <2>2, <2>6, QuietStep
<1>2. TimerInv'
  <2> DEFINE due == sgNow >= sgNextA
             fires == due /\ sgItimer.at # Never /\ sgNow >= sgItimer.at
             at == IF ~fires THEN sgItimer.at
                   ELSE IF sgItimer.iv > 0 THEN sgItimer.at + sgItimer.iv ELSE Never
  <2>1. /\ sgItimer' = [sgItimer EXCEPT !.at = IF at > SgLast THEN Never ELSE at]
        /\ sgNextA' = IF due THEN sgItimer'.at ELSE sgNextA
    BY DEF CheckAlarms, Rescan
  <2>2. Never \in Int
    BY LinuxSignalsAssumption DEF Never
  <2>3. sgItimer \in [at : Int, iv : Int] /\ sgNextA \in Int
    BY DEF TimerInv
  <2>4. at \in Int /\ (~due => at = sgItimer.at)
    BY <2>2, <2>3
  <2> HIDE DEF due, at
  <2>5. /\ sgItimer' \in [at : Int, iv : Int] /\ sgNextA' \in Int
        /\ sgItimer'.at = IF at > SgLast THEN Never ELSE at
    BY <2>1, <2>2, <2>3, <2>4
  <2>6. SgAlarmSeen'
    <3>1. CASE due
      BY <2>1, <2>5, <3>1 DEF SgAlarmSeen
    <3>2. CASE ~due
      <4>1. sgNextA' = sgNextA /\ (sgItimer'.at = Never \/ sgItimer'.at = sgItimer.at)
        BY <2>1, <2>4, <2>5, <3>2
      <4>2. sgItimer.at # Never => sgNextA <= sgItimer.at
        BY DEF TimerInv, SgAlarmSeen
      <4> QED
        BY <4>1, <4>2 DEF SgAlarmSeen
    <3> QED
      BY <3>1, <3>2
  <2> QED
    BY <2>5, <2>6 DEF TimerInv
<1> QED
  BY <1>1, <1>2

\* pick ends a wait at most.
LEMMA SgPickInv ==
    ASSUME MaskInv, NEW t \in SgThreads, SgPick(t)
    PROVE  MaskInv' /\ (PlainInv => PlainInv')
<1> DEFINE done == SgSatisfied(sgT[t])
           T == [sgT EXCEPT ![t].state = "run", ![t].intr = ~done]
<1>1. sgT \in [SgThreads -> Task] /\ Actions(sgAct)
  BY DEF MaskInv, TypeOK, Actions
<1>2. sgProg' = sgProg /\ sgCur' = t /\ sgAct' = sgAct
  BY DEF SgPick
<1>3. sgT' = sgT \/ sgT' = T
  BY DEF SgPick
<1>4. done \in BOOLEAN
  BY DEF SgSatisfied
<1> HIDE DEF done
<1>5. \A x \in Task : LET y == [x EXCEPT !.state = "run", !.intr = ~done]
                      IN  y \in Task /\ Quiet(x, y)
  BY <1>4 DEF Task, Quiet
<1>6. /\ T \in [SgThreads -> Task]
      /\ \A u \in SgThreads : T[u] = sgT[u] \/ T[u] = [sgT[u] EXCEPT !.state = "run", !.intr = ~done]
  BY <1>1, <1>5
<1> HIDE DEF T
<1>7. \A x : Quiet(x, x)
  BY DEF Quiet
<1>8. sgT' \in [SgThreads -> Task] /\ \A u \in SgThreads : Quiet(sgT[u], sgT'[u])
  <2>1. \A u \in SgThreads : Quiet(sgT[u], T[u])
    <3> SUFFICES ASSUME NEW u \in SgThreads PROVE Quiet(sgT[u], T[u])
      OBVIOUS
    <3>1. sgT[u] \in Task
      BY <1>1
    <3>2. T[u] = sgT[u] \/ T[u] = [sgT[u] EXCEPT !.state = "run", !.intr = ~done]
      BY <1>6
    <3> QED
      BY <1>5, <1>7, <3>1, <3>2
  <2> QED
    BY <1>1, <1>3, <1>6, <1>7, <2>1
<1> QED
  BY <1>1, <1>2, <1>8, QuietStep

\* deliver_signals drops a signal or enters its handler.
LEMMA DeliverSignalInv ==
    ASSUME MaskInv, DeliverSignal
    PROVE  MaskInv' /\ (PlainInv => PlainInv')
<1> DEFINE me == sgT[sgCur]
           s == Smallest(DeliverableTo(me))
           drop == [me EXCEPT !.pend = @ \ {s}, !.intr = FALSE]
           y == IF sgAct[s].h # "handler" THEN drop ELSE SetupFrame(me, s)
<1>1. /\ me \in Task /\ sgProg[sgCur] \in Masks /\ sgCur \in SgThreads
      /\ sgProg = [sgProg EXCEPT ![sgCur] = sgProg[sgCur]]
      /\ MaskKept(me, sgProg[sgCur])
  BY DEF MaskInv, TypeOK
<1>2. /\ Thread(y) /\ me.state = "run" /\ DeliverableTo(me) # {}
      /\ sgProg' = sgProg /\ sgCur' = sgCur /\ sgAct' = sgAct
  BY DEF DeliverSignal, Thread
<1>3. s \in me.pend /\ s \notin me.mask /\ s \in SgSignals
  <2>1. DeliverableTo(me) \subseteq SgSignals
    BY <1>1 DEF DeliverableTo, Task, Masks
  <2>2. DeliverableTo(me) \in SUBSET Nat
    BY <2>1, LinuxSignalsAssumption
  <2>3. s \in DeliverableTo(me)
    BY <1>2, <2>2, SmallestIsOne
  <2> QED
    BY <2>1, <2>3 DEF DeliverableTo
<1>4. sgAct[s].mask \in Masks
  BY <1>3 DEF MaskInv, TypeOK
<1> HIDE DEF me, s
<1>5. drop \in Task /\ Quiet(me, drop)
  BY <1>1 DEF Task, Masks, Quiet
<1> HIDE DEF drop
<1>6. y \in Task /\ MaskKept(y, sgProg[sgCur])
  <2>1. MaskKept(drop, sgProg[sgCur])
    BY <1>1, <1>5, OtherFields DEF Quiet
  <2>2. SetupFrame(me, s) \in Task /\ MaskKept(SetupFrame(me, s), sgProg[sgCur])
    BY <1>1, <1>3, <1>4, FrameKept
  <2> QED
    BY <1>5, <2>1, <2>2
<1>7. ASSUME PlainInv PROVE Nested(y) /\ DeadlineOwn(y)
  <2>1. Nested(me) /\ DeadlineOwn(me)
    BY <1>1, <1>7 DEF PlainInv, me
  <2>2. Nested(drop) /\ DeadlineOwn(drop)
    BY <1>5, <2>1, OtherFields DEF Quiet
  <2>3. Nested(SetupFrame(me, s)) /\ DeadlineOwn(SetupFrame(me, s))
    BY <1>1, <1>2, <1>3, <1>4, <2>1, FrameNested
  <2> QED
    BY <2>2, <2>3
<1> HIDE DEF y
<1> QED
  BY <1>1, <1>2, <1>6, <1>7, OneThread
-----------------------------------------------------------------------------
(* The system calls of the thread that runs.                               *)

\* The thread that runs.
LEMMA Running ==
    ASSUME MaskInv
    PROVE  /\ sgT[sgCur] \in Task /\ sgProg[sgCur] \in Masks /\ sgCur \in SgThreads
           /\ sgProg = [sgProg EXCEPT ![sgCur] = sgProg[sgCur]]
           /\ MaskKept(sgT[sgCur], sgProg[sgCur])
           /\ PlainInv => Nested(sgT[sgCur]) /\ DeadlineOwn(sgT[sgCur])
BY DEF MaskInv, TypeOK, PlainInv

\* A thread that makes no call has put no mask aside; outside handlers it has no
\* deadline.
LEMMA NoCall ==
    ASSUME NEW me, NEW p, me.call = SgIdle, MaskKept(me, p)
    PROVE  /\ me.saved = NoMask
           /\ DeadlineOwn(me) /\ me.frames = <<>> => me.dl = Never
BY DEF MaskKept, DeadlineOwn, CurrentCall, SgIdle

\* A call executed by a thread z whose deadline, if it has one, is the call's.
LEMMA ExecuteInv ==
    ASSUME MaskInv, NEW z \in Task, NEW call \in Calls, sgNow' \in Int, z.state = "run",
           z.saved # NoMask => call.op \in {"suspend", "poll"},
           MaskKept(z, sgProg[sgCur]), Thread(Execute(z, call)),
           sgCur' = sgCur, sgAct' = sgAct, sgProg' = sgProg
    PROVE  /\ MaskInv'
           /\ /\ PlainInv /\ z.frames = <<>>
              /\ z.dl # Never => z.mine /\ call.d # 0
              => PlainInv'
<1> DEFINE y == Execute(z, call)
<1>1. /\ y \in Task /\ OldMask(y) = OldMask(z) /\ y.frames = z.frames
      /\ \/ y.call = call /\ y.state = "blocked" /\ (y.until = y.dl \/ y.until = Never)
         \/ y.call = SgIdle /\ y.state = "run" /\ y.dl = Never /\ y.saved = NoMask
      /\ y.saved # NoMask => y.call.op \in {"suspend", "poll"}
      /\ (z.dl # Never => z.mine /\ call.d # 0) => (y.dl # Never => y.mine /\ call.d # 0)
  BY Executes
<1>2. Thread(y)
  OBVIOUS
<1> HIDE DEF y
<1>3. MaskKept(y, sgProg[sgCur])
  BY <1>1 DEF MaskKept
<1>4. MaskInv' /\ (PlainInv /\ Nested(y) /\ DeadlineOwn(y) => PlainInv')
  BY <1>1, <1>2, <1>3, OneThread, Running
<1>5. ASSUME z.frames = <<>>, z.dl # Never => z.mine /\ call.d # 0
      PROVE  Nested(y) /\ DeadlineOwn(y)
  <2>1. y.frames = <<>>
    BY <1>1, <1>5
  <2>2. Nested(y)
    BY <2>1 DEF Nested
  <2>3. DeadlineOwn(y)
    BY <1>1, <1>5, <2>1 DEF DeadlineOwn, CurrentCall
  <2> QED
    BY <2>2, <2>3
<1> QED
  BY <1>4, <1>5

\* A new blocking call; outside handlers no deadline is left to take for its own.
LEMMA CallInv ==
    ASSUME MaskInv, NEW call \in Calls, Call(call)
    PROVE  MaskInv' /\ (~SgInHandlers /\ PlainInv => PlainInv')
<1> DEFINE me == sgT[sgCur]
           z == [me EXCEPT !.mine = me.dl = Never]
<1>1. /\ me.state = "run" /\ me.call = SgIdle /\ sgNow' \in Int
      /\ SgInHandlers \/ me.frames = <<>>
      /\ Thread(Execute(z, call))
      /\ sgCur' = sgCur /\ sgAct' = sgAct /\ sgProg' = sgProg
  BY LinuxSignalsAssumption DEF Call, NewCall, Instruction, SgSame
<1>2. me \in Task /\ MaskKept(me, sgProg[sgCur]) /\ (PlainInv => DeadlineOwn(me))
  BY Running
<1> HIDE DEF me
<1>3. /\ z \in Task /\ z.mask = me.mask /\ z.saved = me.saved /\ z.call = me.call
      /\ z.frames = me.frames /\ z.state = me.state /\ z.dl = me.dl
  BY <1>2 DEF Task
<1> HIDE DEF z
<1>4. MaskKept(z, sgProg[sgCur])
  BY <1>2, <1>3, OtherFields
<1>5. z.saved = NoMask /\ (PlainInv /\ me.frames = <<>> => z.dl = Never)
  BY <1>1, <1>2, <1>3, NoCall
<1> QED
  BY <1>1, <1>3, <1>4, <1>5, ExecuteInv

\* The call in progress executed again.
LEMMA CallAgainInv ==
    ASSUME MaskInv, CallAgain
    PROVE  MaskInv' /\ (PlainInv => PlainInv')
<1> DEFINE me == sgT[sgCur]
<1>1. /\ me.state = "run" /\ me.call # SgIdle /\ sgNow' \in Int
      /\ Thread(Execute(me, me.call))
      /\ sgCur' = sgCur /\ sgAct' = sgAct /\ sgProg' = sgProg
  BY LinuxSignalsAssumption DEF CallAgain, Instruction, SgSame
<1>2. /\ me \in Task /\ MaskKept(me, sgProg[sgCur])
      /\ PlainInv => Nested(me) /\ DeadlineOwn(me)
  BY Running
<1> HIDE DEF me
<1>3. me.call \in Calls
  BY <1>1, <1>2 DEF Task, CallOrNone
<1>4. me.saved # NoMask => me.call.op \in {"suspend", "poll"}
  BY <1>2 DEF MaskKept
<1>5. PlainInv => me.frames = <<>> /\ (me.dl # Never => me.mine /\ me.call.d # 0)
  BY <1>1, <1>2 DEF Nested, DeadlineOwn, CurrentCall
<1> QED
  BY <1>1, <1>2, <1>3, <1>4, <1>5, ExecuteInv

\* rt_sigreturn.
LEMMA SigReturnInv ==
    ASSUME MaskInv, SigReturn
    PROVE  MaskInv' /\ (PlainInv => PlainInv')
<1> DEFINE me == sgT[sgCur]
           top == me.frames[Len(me.frames)]
           y == [me EXCEPT !.mask = top.mask, !.call = top.call,
                           !.frames = SubSeq(@, 1, Len(@) - 1)]
<1>1. /\ me.state = "run" /\ me.call = SgIdle /\ me.frames # <<>> /\ Thread(y)
      /\ sgCur' = sgCur /\ sgAct' = sgAct /\ sgProg' = sgProg
  BY DEF SigReturn, Instruction, SgSame
<1>2. /\ me \in Task /\ MaskKept(me, sgProg[sgCur])
      /\ PlainInv => Nested(me) /\ DeadlineOwn(me)
  BY Running
<1> HIDE DEF me
<1>3. /\ y \in Task /\ MaskKept(y, sgProg[sgCur])
      /\ Nested(me) => Nested(y)
      /\ DeadlineOwn(me) => DeadlineOwn(y)
  BY <1>1, <1>2, Unwinds
<1> HIDE DEF y
<1> QED
  BY <1>1, <1>2, <1>3, OneThread, Running

\* rt_sigprocmask.
LEMMA SigProcMaskInv ==
    ASSUME MaskInv, NEW m \in SgMasks, SigProcMask(m)
    PROVE  MaskInv' /\ (PlainInv => PlainInv')
<1> DEFINE me == sgT[sgCur]
           y == [me EXCEPT !.mask = m]
<1>1. /\ me.call = SgIdle /\ me.frames = <<>> /\ Thread(y)
      /\ sgCur' = sgCur /\ sgAct' = sgAct /\ sgProg' = [sgProg EXCEPT ![sgCur] = m]
  BY DEF SigProcMask, NewCall, Instruction
<1>2. /\ me \in Task /\ MaskKept(me, sgProg[sgCur])
      /\ PlainInv => Nested(me) /\ DeadlineOwn(me)
  BY Running
<1> HIDE DEF me
<1>3. m \in Masks
  BY LinuxSignalsAssumption DEF Masks
<1>4. /\ y \in Task /\ y.mask = m /\ y.saved = me.saved /\ y.call = me.call
      /\ y.frames = <<>> /\ y.state = me.state /\ y.dl = me.dl /\ y.mine = me.mine
      /\ y.until = me.until
  BY <1>1, <1>2, <1>3 DEF Task
<1> HIDE DEF y
<1>5. MaskKept(y, m)
  <2>1. me.saved = NoMask
    BY <1>1, <1>2, NoCall
  <2> QED
    BY <1>4, <2>1 DEF MaskKept, OldMask
<1>6. Nested(y)
  BY <1>4 DEF Nested
<1>7. DeadlineOwn(me) => DeadlineOwn(y)
  BY <1>1, <1>4 DEF DeadlineOwn, CurrentCall
<1> QED
  BY <1>1, <1>2, <1>3, <1>4, <1>5, <1>6, <1>7, OneThread
\* rt_sigaction: an ignored signal is no longer pending.
LEMMA SigActionInv ==
    ASSUME MaskInv, NEW s \in SgSignals, NEW act \in SgActions, SigActionOf(s, act)
    PROVE  MaskInv' /\ (PlainInv => PlainInv')
<1> DEFINE without(x) == [x EXCEPT !.pend = @ \ {s}]
           T == [t \in SgThreads |-> without(sgT[t])]
<1>1. sgT \in [SgThreads -> Task] /\ sgCur \in SgThreads /\ Actions(sgAct)
  BY DEF MaskInv, TypeOK, Actions
<1>2. /\ sgProg' = sgProg /\ sgCur' = sgCur /\ sgAct' = [sgAct EXCEPT ![s] = act]
      /\ sgT' = sgT \/ sgT' = T
  BY DEF SigActionOf, NewCall, Instruction
<1>3. act.mask \in Masks
  BY LinuxSignalsAssumption DEF Masks
<1>4. Actions(sgAct')
  BY <1>1, <1>2, <1>3 DEF Actions
<1>5. \A x \in Task : without(x) \in Task /\ Quiet(x, without(x)) /\ Quiet(x, x)
  BY DEF Task, Masks, Quiet
<1> HIDE DEF without
<1>6. sgT' \in [SgThreads -> Task] /\ \A t \in SgThreads : Quiet(sgT[t], sgT'[t])
  BY <1>1, <1>2, <1>5
<1> QED
  BY <1>1, <1>2, <1>4, <1>6, QuietStep

\* tgkill and kill.
LEMMA SendSignalInv ==
    ASSUME MaskInv, NEW s \in SgSignals, SendSignal(s)
    PROVE  MaskInv' /\ (PlainInv => PlainInv')
<1>1. sgT \in [SgThreads -> Task] /\ sgCur \in SgThreads /\ Actions(sgAct)
  BY DEF MaskInv, TypeOK, Actions
<1>2. /\ sgProg' = sgProg /\ sgCur' = sgCur /\ sgAct' = sgAct
      /\ sgT' = SgSend(sgT, s) \/ \E t \in SgThreads : sgT' = SgPost(sgT, t, s)
  BY DEF SendSignal, NewCall, Instruction
<1>3. sgT' \in [SgThreads -> Task] /\ \A t \in SgThreads : Quiet(sgT[t], sgT'[t])
  BY <1>1, <1>2, SendIsQuiet
<1> QED
  BY <1>1, <1>2, <1>3, QuietStep

\* FUTEX_WAKE.
LEMMA WakeOneInv ==
    ASSUME MaskInv, WakeOne
    PROVE  MaskInv' /\ (PlainInv => PlainInv')
<1> DEFINE woken(x) == [x EXCEPT !.woken = TRUE]
<1>1. sgT \in [SgThreads -> Task] /\ sgCur \in SgThreads /\ Actions(sgAct)
  BY DEF MaskInv, TypeOK, Actions
<1>2. /\ sgProg' = sgProg /\ sgCur' = sgCur /\ sgAct' = sgAct
      /\ \E t : sgT' = [sgT EXCEPT ![t].woken = TRUE]
  BY DEF WakeOne, NewCall, Instruction, SgSame
<1>3. PICK t : sgT' = [sgT EXCEPT ![t].woken = TRUE]
  BY <1>2
<1>4. \A x \in Task : woken(x) \in Task /\ Quiet(x, woken(x)) /\ Quiet(x, x)
  BY DEF Task, Quiet
<1>5. /\ sgT' \in [SgThreads -> Task]
      /\ \A u \in SgThreads : sgT'[u] = sgT[u] \/ sgT'[u] = woken(sgT[u])
  BY <1>1, <1>3, <1>4
<1> HIDE DEF woken
<1>6. \A u \in SgThreads : Quiet(sgT[u], sgT'[u])
  BY <1>1, <1>4, <1>5
<1> QED
  BY <1>1, <1>2, <1>5, <1>6, QuietStep

\* A step that leaves the threads alone.
LEMMA ThreadsAlone ==
    ASSUME MaskInv, UNCHANGED <<sgT, sgAct, sgCur, sgProg>>
    PROVE  MaskInv' /\ (PlainInv => PlainInv')
BY DEF MaskInv, TypeOK, PlainInv

\* setitimer: a deadline earlier than next_alarm replaces it.
LEMMA SetItimerInv ==
    ASSUME TimerInv, NEW value \in SgTimeouts, NEW iv \in {0, 1}, SetItimer(value, iv)
    PROVE  TimerInv'
<1>1. sgNow' \in Int /\ value \in Int /\ iv \in Int /\ Never \in Int
  BY LinuxSignalsAssumption DEF SetItimer, NewCall, Instruction, Never
<1> DEFINE at == sgNow' + value
<1>2. /\ sgItimer' = [at |-> IF value = 0 THEN Never ELSE at, iv |-> iv]
      /\ sgNextA' = IF at < sgNextA THEN at ELSE sgNextA
  BY DEF SetItimer
<1>3. at \in Int /\ sgNextA \in Int
  BY <1>1 DEF TimerInv
<1> HIDE DEF at
<1>4. /\ sgItimer' \in [at : Int, iv : Int]
      /\ sgItimer'.at = Never \/ sgItimer'.at = at
  BY <1>1, <1>2, <1>3
<1>5. sgNextA' \in Int /\ sgNextA' <= at
  BY <1>2, <1>3
<1> QED
  BY <1>4, <1>5 DEF TimerInv, SgAlarmSeen

\* The timer is set by setitimer and check_alarms only.
LEMMA TimerAlone ==
    ASSUME TimerInv, UNCHANGED <<sgItimer, sgNextA>> PROVE TimerInv'
BY DEF TimerInv, SgAlarmSeen

-----------------------------------------------------------------------------
\* The first state.
LEMMA InitInv == SgInit => MaskInv /\ PlainInv /\ TimerInv
<1> SUFFICES ASSUME SgInit PROVE MaskInv /\ PlainInv /\ TimerInv
  OBVIOUS
<1> DEFINE new == [mask |-> {}, pend |-> {}, saved |-> NoMask, intr |-> FALSE, state |-> "run",
                   call |-> SgIdle, until |-> Never, dl |-> Never, mine |-> TRUE,
                   woken |-> FALSE, frames |-> <<>>]
<1>1. Never \in Int /\ SgIdle \in CallOrNone /\ {} \in Masks
  BY LinuxSignalsAssumption DEF Never, CallOrNone, Masks
<1>2. new \in Task
  BY <1>1 DEF Task
<1>3. MaskKept(new, {}) /\ Nested(new) /\ DeadlineOwn(new)
  <2>1. /\ new.frames = <<>> /\ new.mask = {} /\ new.saved = NoMask
        /\ new.dl = Never /\ new.state = "run"
    OBVIOUS
  <2> HIDE DEF new
  <2>2. MaskKept(new, {})
    BY <2>1 DEF MaskKept, OldMask
  <2>3. Nested(new)
    BY <2>1 DEF Nested
  <2>4. DeadlineOwn(new)
    BY <2>1 DEF DeadlineOwn
  <2> QED
    BY <2>2, <2>3, <2>4
<1>4. sgT = [t \in SgThreads |-> new]
  BY DEF SgInit
<1> HIDE DEF new
<1>5. TypeOK
  BY <1>1, <1>2, <1>4 DEF SgInit, TypeOK, SgDefault
<1>6. MaskInv /\ PlainInv
  BY <1>3, <1>4, <1>5 DEF MaskInv, PlainInv, SgInit
<1>7. TimerInv
  BY <1>1 DEF SgInit, TimerInv, SgAlarmSeen
<1> QED
  BY <1>6, <1>7

\* Every step keeps the masks and the timer and, if handlers make no blocking
\* calls, the nesting of handlers and the deadlines.
LEMMA NextInv ==
    ASSUME MaskInv, TimerInv, [SgNext]_sgVars
    PROVE  MaskInv' /\ TimerInv' /\ (~SgInHandlers /\ PlainInv => PlainInv')
<1> DEFINE inv == MaskInv' /\ TimerInv' /\ (~SgInHandlers /\ PlainInv => PlainInv')
<1>1. CASE CheckAlarms
  BY <1>1, CheckAlarmsInv
<1>2. ASSUME NEW t \in SgThreads, SgPick(t) PROVE inv
  <2>1. TimerInv'
    BY <1>2, TimerAlone DEF SgPick
  <2> QED
    BY <1>2, <2>1, SgPickInv
<1>3. CASE IdleJump
  BY <1>3, ThreadsAlone, TimerAlone DEF IdleJump
<1>4. CASE DeliverSignal
  <2>1. TimerInv'
    BY <1>4, TimerAlone DEF DeliverSignal
  <2> QED
    BY <1>4, <2>1, DeliverSignalInv
<1>5. ASSUME NEW call \in Calls, Call(call) PROVE inv
  <2>1. TimerInv'
    BY <1>5, TimerAlone DEF Call, SgSame
  <2> QED
    BY <1>5, <2>1, CallInv
<1>6. CASE CallAgain
  <2>1. TimerInv'
    BY <1>6, TimerAlone DEF CallAgain, SgSame
  <2> QED
    BY <1>6, <2>1, CallAgainInv
<1>7. CASE SigReturn
  <2>1. TimerInv'
    BY <1>7, TimerAlone DEF SigReturn, SgSame
  <2> QED
    BY <1>7, <2>1, SigReturnInv
<1>8. ASSUME NEW m \in SgMasks, SigProcMask(m) PROVE inv
  <2>1. TimerInv'
    BY <1>8, TimerAlone DEF SigProcMask
  <2> QED
    BY <1>8, <2>1, SigProcMaskInv
<1>9. ASSUME NEW s \in SgSignals, NEW act \in SgActions, SigActionOf(s, act) PROVE inv
  <2>1. TimerInv'
    BY <1>9, TimerAlone DEF SigActionOf
  <2> QED
    BY <1>9, <2>1, SigActionInv
<1>10. ASSUME NEW s \in SgSignals, SendSignal(s) PROVE inv
  <2>1. TimerInv'
    BY <1>10, TimerAlone DEF SendSignal
  <2> QED
    BY <1>10, <2>1, SendSignalInv
<1>11. CASE WakeOne
  <2>1. TimerInv'
    BY <1>11, TimerAlone DEF WakeOne, SgSame
  <2> QED
    BY <1>11, <2>1, WakeOneInv
<1>12. ASSUME NEW value \in SgTimeouts, NEW iv \in {0, 1}, SetItimer(value, iv) PROVE inv
  <2>1. UNCHANGED <<sgT, sgAct, sgCur, sgProg>>
    BY <1>12 DEF SetItimer, NewCall, Instruction
  <2> QED
    BY <1>12, <2>1, SetItimerInv, ThreadsAlone
<1>13. CASE UNCHANGED sgVars
  BY <1>13, ThreadsAlone, TimerAlone DEF sgVars
<1> HIDE DEF inv
<1>14. inv
  <2>1. CASE SgNext
    BY <2>1, <1>1, <1>2, <1>3, <1>4, <1>5, <1>6, <1>7, <1>8, <1>9, <1>10, <1>11, <1>12, Zenon
       DEF SgNext, inv
  <2> QED
    BY <2>1, <1>13 DEF inv
<1> QED
  BY <1>14 DEF inv

-----------------------------------------------------------------------------
\* Whatever calls handlers make: when every handler has returned and no call is
\* in progress, a thread's mask is the one its program set (signal.rs setup_frame
\* and sigreturn, syscall.rs restore_saved_mask); and next_alarm is a lower bound
\* of the timer's deadline (mod.rs check_alarms).
THEOREM MasksAndTimer == SgSpec => [](SgMaskRestored /\ SgAlarmSeen)
<1>1. MaskInv /\ TimerInv => SgMaskRestored /\ SgAlarmSeen
  <2> SUFFICES ASSUME MaskInv, TimerInv PROVE SgMaskRestored /\ SgAlarmSeen
    OBVIOUS
  <2>1. ASSUME NEW t \in SgThreads, sgT[t].frames = <<>>, sgT[t].call = SgIdle
        PROVE  sgT[t].mask = sgProg[t] /\ sgT[t].saved = NoMask
    <3>1. MaskKept(sgT[t], sgProg[t])
      BY DEF MaskInv
    <3>2. sgT[t].saved = NoMask
      BY <2>1, <3>1, NoCall
    <3> QED
      BY <2>1, <3>1, <3>2 DEF MaskKept, OldMask
  <2> QED
    BY <2>1 DEF SgMaskRestored, TimerInv
<1>2. SgInit => MaskInv /\ TimerInv
  BY InitInv
<1>3. MaskInv /\ TimerInv /\ [SgNext]_sgVars => (MaskInv /\ TimerInv)'
  BY NextInv
<1> QED
  BY <1>1, <1>2, <1>3, PTL DEF SgSpec

\* If handlers make no blocking calls of their own, besides, none is entered again
\* by its own signal before it returns (signal.rs setup_frame) and no wait ends by
\* the deadline of another call (mod.rs, the task's deadline).
THEOREM SignalSafety == ASSUME ~SgInHandlers PROVE SgSpec => []SgSafe
<1> DEFINE IInv == MaskInv /\ TimerInv /\ PlainInv
<1>1. IInv => SgNoReentry /\ SgOwnDeadline
  <2> SUFFICES ASSUME MaskInv, PlainInv PROVE SgNoReentry /\ SgOwnDeadline
    OBVIOUS
  <2>1. SgNoReentry
    <3> SUFFICES ASSUME NEW t \in SgThreads, NEW i \in 1 .. Len(sgT[t].frames),
                        NEW j \in 1 .. Len(sgT[t].frames), i # j
                 PROVE  sgT[t].frames[i].sig # sgT[t].frames[j].sig
      BY DEF SgNoReentry
    <3>1. Nested(sgT[t])
      BY DEF PlainInv
    <3>2. i < j \/ j < i
      OBVIOUS
    <3> QED
      BY <3>1, <3>2 DEF Nested
  <2>2. SgOwnDeadline
    <3> SUFFICES ASSUME NEW t \in SgThreads, sgT[t].state = "blocked", sgT[t].until # Never
                 PROVE  sgT[t].call.d # 0 /\ sgT[t].mine
      BY DEF SgOwnDeadline
    <3>1. DeadlineOwn(sgT[t])
      BY DEF PlainInv
    <3> QED
      BY <3>1 DEF DeadlineOwn, CurrentCall
  <2> QED
    BY <2>1, <2>2
<1>2. SgInit => IInv
  BY InitInv
<1>3. IInv /\ [SgNext]_sgVars => IInv'
  BY NextInv
<1>4. SgSpec => [](SgNoReentry /\ SgOwnDeadline)
  <2> HIDE DEF IInv
  <2> QED
    BY <1>1, <1>2, <1>3, PTL DEF SgSpec
<1>5. SgMaskRestored /\ SgAlarmSeen /\ SgNoReentry /\ SgOwnDeadline => SgSafe
  BY DEF SgSafe
<1> QED
  BY <1>4, <1>5, MasksAndTimer, PTL
=============================================================================
