---------------------------- MODULE LinuxSignals ----------------------------
(***************************************************************************)
(* Signals and timed waits of one process of the user-mode Linux layer     *)
(* (vetro-cli/src/linux: signal.rs, the run loop of mod.rs, the blocking   *)
(* calls of syscall.rs): masks and their saving across handlers,           *)
(* rt_sigsuspend and ppoll, interrupted calls, SA_RESTART, deadlines,      *)
(* futex wake-ups and the interval timer.                                  *)
(*                                                                         *)
(* A step of the run loop is: check_alarms, deliver_signals, one           *)
(* instruction (the clock may tick), and the system call if it was an SVC. *)
(* sgFresh says check_alarms has run since the last instruction.  Signals  *)
(* are numbers, the lowest is delivered first; their default action is to  *)
(* be ignored (signals that kill are in LinuxProc).                        *)
(***************************************************************************)
EXTENDS Integers, Sequences, FiniteSets

CONSTANTS
    SgThreads,      \* the threads of the process
    SgWaiters,      \* the threads that change their masks and block; the others send, wake and set timers
    SgSignals,      \* the signals
    SgAlarm,        \* SIGALRM among them
    SgActions,      \* the actions rt_sigaction installs
    SgMasks,        \* the masks the program uses
    SgTimeouts,     \* the relative timeouts the program uses, 0 for none
    SgLast,         \* the last instant of the clock
    SgSends,        \* how many signals are sent
    SgInHandlers    \* whether handlers make blocking calls of their own

ASSUME LinuxSignalsAssumption ==
    /\ SgThreads \subseteq Nat /\ SgWaiters \subseteq SgThreads
    /\ SgSignals \subseteq Nat /\ SgAlarm \in SgSignals
    /\ SgMasks \subseteq SUBSET SgSignals
    /\ \A act \in SgActions : act.mask \subseteq SgSignals
    /\ SgTimeouts \subseteq Nat
    /\ SgLast \in Nat /\ SgSends \in Nat
    /\ SgInHandlers \in BOOLEAN

VARIABLES
    sgT,       \* per thread: mask, pending, saved_mask, interrupted, state, the call in progress, deadline, futex_woken, handler frames
    sgAct,     \* per signal: SigHand.actions
    sgNow,     \* clock_ns
    sgItimer,  \* the leader's alarm and alarm_interval
    sgNextA,   \* next_alarm
    sgFresh,   \* check_alarms has run before the instruction to come
    sgCur,     \* the task run_task runs
    sgSent,    \* signals sent so far
    sgProg     \* per thread, for the properties: the mask the program set

sgVars == <<sgT, sgAct, sgNow, sgItimer, sgNextA, sgFresh, sgCur, sgSent, sgProg>>

Never == SgLast + 10
NoMask == {-1}
SgIdle == [op |-> "none", d |-> 0, m |-> {}]
SgDefault == [h |-> "dfl", restart |-> FALSE, mask |-> {}]

SgInit ==
    /\ sgT = [t \in SgThreads |->
                [mask |-> {}, pend |-> {}, saved |-> NoMask, intr |-> FALSE, state |-> "run",
                 call |-> SgIdle, until |-> Never, dl |-> Never, mine |-> TRUE,
                 woken |-> FALSE, frames |-> <<>>]]
    /\ sgAct = [s \in SgSignals |-> SgDefault]
    /\ sgNow = 0
    /\ sgItimer = [at |-> Never, iv |-> 0]
    /\ sgNextA = Never
    /\ sgFresh = FALSE
    /\ sgCur \in SgThreads
    /\ sgSent = 0
    /\ sgProg = [t \in SgThreads |-> {}]

DeliverableTo(me) == me.pend \ me.mask
Smallest(S) == CHOOSE s \in S : \A u \in S : s <= u

\* send_to_thread: an ignored signal does not stay pending.
SgPost(T, t, s) ==
    IF sgAct[s].h \in {"ign", "dfl"} THEN T
    ELSE [T EXCEPT ![t].pend = @ \cup {s}]

\* send_to_process prefers a thread that does not block the signal.
SgSend(T, s) ==
    LET open == {t \in SgThreads : s \notin T[t].mask}
    IN  SgPost(T, Smallest(IF open = {} THEN SgThreads ELSE open), s)

-----------------------------------------------------------------------------
(* The run loop.                                                           *)

\* A seeded fault: a periodic timer set again is not looked for again.
RescanForgets(due, at) == IF due THEN Never ELSE sgNextA

\* next_alarm after check_alarms.
Rescan(due, at) == IF due THEN at ELSE sgNextA

\* check_alarms: nothing to do before next_alarm; otherwise the timer that
\* expired fires, is set again if periodic, and next_alarm is worked out.
CheckAlarms ==
    LET due == sgNow >= sgNextA
        fires == due /\ sgItimer.at # Never /\ sgNow >= sgItimer.at
        at == IF ~fires THEN sgItimer.at
              ELSE IF sgItimer.iv > 0 THEN sgItimer.at + sgItimer.iv ELSE Never
    IN  /\ ~sgFresh
        /\ sgFresh' = TRUE
        /\ sgItimer' = [sgItimer EXCEPT !.at = IF at > SgLast THEN Never ELSE at]
        /\ sgNextA' = Rescan(due, sgItimer'.at)
        /\ sgT' = IF fires THEN SgSend(sgT, SgAlarm) ELSE sgT
        /\ UNCHANGED <<sgAct, sgNow, sgCur, sgSent, sgProg>>

\* wait_satisfied.
SgSatisfied(me) ==
    \/ me.call.op \in {"sleep", "futex", "poll"} /\ me.until # Never /\ sgNow >= me.until
    \/ me.call.op = "futex" /\ me.woken

\* pick and ready: a thread that can run, or can be woken, gets the quantum.
SgPick(t) ==
    LET me == sgT[t]
        done == SgSatisfied(me)
    IN  /\ t # sgCur \/ me.state = "blocked"
        /\ me.state = "run" \/ done \/ DeliverableTo(me) # {}
        /\ sgCur' = t
        /\ sgFresh' = FALSE
        /\ sgT' = IF me.state = "run" THEN sgT
                  ELSE [sgT EXCEPT ![t].state = "run", ![t].intr = ~done]
        /\ UNCHANGED <<sgAct, sgNow, sgItimer, sgNextA, sgSent, sgProg>>

\* next_deadline: nobody can run, and the clock jumps.
IdleJump ==
    LET due == {sgT[t].until : t \in SgThreads} \cup {sgItimer.at}
    IN  /\ \A t \in SgThreads : /\ sgT[t].state = "blocked"
                                /\ ~SgSatisfied(sgT[t])
                                /\ DeliverableTo(sgT[t]) = {}
        /\ \E d \in due : d # Never
        /\ sgNow' = Smallest(due)
        /\ sgFresh' = FALSE
        /\ UNCHANGED <<sgT, sgAct, sgItimer, sgNextA, sgCur, sgSent, sgProg>>

\* The mask a handler returns to, and the mask it runs with: setup_frame.
\* Seeded faults: the temporary mask is kept, the signal is not deferred.
OldMaskTemporary(me) == me.mask

OldMask(me) == IF me.saved = NoMask THEN me.mask ELSE me.saved

HandlerMask(me, s) == OldMask(me) \cup sgAct[s].mask \cup {s}

\* The calls a handler installed with SA_RESTART has executed again.
Restarts(me, s) == sgAct[s].restart /\ me.call.op \notin {"suspend", "sleep"}

\* setup_frame: what the thread was doing goes on the guest's stack.  An
\* interrupted call that is not restarted has returned EINTR.
SetupFrame(me, s) ==
    LET eintr == me.intr /\ ~Restarts(me, s)
        call == IF eintr THEN SgIdle ELSE me.call
    IN  [me EXCEPT !.pend = @ \ {s}, !.intr = FALSE,
                   !.frames = Append(@, [sig |-> s, mask |-> OldMask(me), call |-> call]),
                   !.mask = HandlerMask(me, s), !.saved = NoMask, !.call = SgIdle,
                   !.until = Never,
                   !.dl = IF eintr THEN Never ELSE @,
                   !.mine = IF eintr THEN TRUE ELSE @,
                   !.woken = IF eintr THEN FALSE ELSE @]

\* deliver_signals.
DeliverSignal ==
    LET me == sgT[sgCur]
        s == Smallest(DeliverableTo(me))
    IN  /\ sgFresh
        /\ me.state = "run"
        /\ DeliverableTo(me) # {}
        /\ sgT' = [sgT EXCEPT ![sgCur] =
                     IF sgAct[s].h # "handler"
                     THEN [me EXCEPT !.pend = @ \ {s}, !.intr = FALSE]
                     ELSE SetupFrame(me, s)]
        /\ UNCHANGED <<sgAct, sgNow, sgItimer, sgNextA, sgFresh, sgCur, sgSent, sgProg>>

-----------------------------------------------------------------------------
(* The instructions and system calls of the thread that runs.              *)

\* The instruction: no signal is left to deliver, the clock may tick, and
\* what follows sees the new time.
Instruction ==
    /\ sgFresh
    /\ sgT[sgCur].state = "run"
    /\ DeliverableTo(sgT[sgCur]) = {}
    /\ sgNow' \in {sgNow, sgNow + 1} \cap 0..SgLast
    /\ sgFresh' = FALSE
    /\ UNCHANGED sgCur

\* A new call: outside handlers, or in them if they make any.
NewCall ==
    /\ Instruction
    /\ sgT[sgCur].call = SgIdle
    /\ SgInHandlers \/ sgT[sgCur].frames = <<>>

SgSame == UNCHANGED <<sgAct, sgItimer, sgNextA, sgSent, sgProg>>
Thread(me) == sgT' = [sgT EXCEPT ![sgCur] = me]

\* syscall(): a call that returns leaves no deadline behind.
Returned(me) == [me EXCEPT !.call = SgIdle, !.until = Never, !.dl = Never, !.mine = TRUE]

\* The deadline is set on the first block, "so re-executing the SVC does not
\* move it" (mod.rs:267-269); mine says this very call set it.
WithDeadline(me, call) ==
    IF call.d = 0 \/ me.dl # Never THEN me
    ELSE [me EXCEPT !.dl = sgNow' + call.d, !.mine = TRUE]

Blocks(me, call) ==
    [me EXCEPT !.state = "blocked", !.call = call, !.until = me.dl]

\* nanosleep and clock_nanosleep.
Sleep(me, call) ==
    LET w == WithDeadline(me, call)
    IN  IF sgNow' >= w.dl THEN Returned(w) ELSE Blocks(w, call)

\* FUTEX_WAIT on a word that holds the expected value.
Futex(me, call) ==
    IF me.woken THEN Returned([me EXCEPT !.woken = FALSE])
    ELSE IF me.dl # Never /\ sgNow' >= me.dl THEN Returned(me)
    ELSE Blocks(WithDeadline(me, call), call)

\* rt_sigsuspend: the first time it replaces the mask.
TemporaryMask(me, m) ==
    IF me.saved = NoMask THEN [me EXCEPT !.saved = me.mask, !.mask = m] ELSE me
Suspend(me, call) ==
    [TemporaryMask(me, call.m) EXCEPT !.state = "blocked", !.call = call, !.until = Never]

\* ppoll on pipes that are not ready; restore_saved_mask at the end.
Poll(me, call) ==
    LET masked == IF call.m = NoMask THEN me ELSE TemporaryMask(me, call.m)
        w == WithDeadline(masked, call)
        back == IF w.saved = NoMask THEN w ELSE [w EXCEPT !.mask = w.saved, !.saved = NoMask]
    IN  IF w.dl = Never \/ sgNow' < w.dl THEN Blocks(w, call) ELSE Returned(back)

Calls ==
    [op : {"sleep"}, d : SgTimeouts \ {0}, m : {{}}]
    \cup [op : {"futex"}, d : SgTimeouts, m : {{}}]
    \cup [op : {"suspend"}, d : {0}, m : SgMasks]
    \cup [op : {"poll"}, d : SgTimeouts, m : SgMasks \cup {NoMask}]

Execute(me, call) ==
    CASE call.op = "sleep" -> Sleep(me, call)
      [] call.op = "futex" -> Futex(me, call)
      [] call.op = "suspend" -> Suspend(me, call)
      [] OTHER -> Poll(me, call)

\* A blocking call, and its execution again once the thread is woken.
Call(call) ==
    LET me == sgT[sgCur]
    IN  /\ NewCall
        /\ sgCur \in SgWaiters
        /\ Thread(Execute([me EXCEPT !.mine = me.dl = Never], call))
        /\ SgSame
CallAgain ==
    /\ Instruction
    /\ sgT[sgCur].call # SgIdle
    /\ Thread(Execute(sgT[sgCur], sgT[sgCur].call))
    /\ SgSame

\* rt_sigreturn: the mask and the registers of the innermost frame.
SigReturn ==
    LET me == sgT[sgCur]
        top == me.frames[Len(me.frames)]
    IN  /\ Instruction
        /\ me.call = SgIdle
        /\ me.frames # <<>>
        /\ Thread([me EXCEPT !.mask = top.mask, !.call = top.call,
                             !.frames = SubSeq(@, 1, Len(@) - 1)])
        /\ SgSame

\* rt_sigprocmask.
SigProcMask(m) ==
    /\ NewCall
    /\ sgCur \in SgWaiters
    /\ sgT[sgCur].frames = <<>>
    /\ Thread([sgT[sgCur] EXCEPT !.mask = m])
    /\ sgProg' = [sgProg EXCEPT ![sgCur] = m]
    /\ UNCHANGED <<sgAct, sgItimer, sgNextA, sgSent>>

\* rt_sigaction: SIG_IGN discards what is pending.
SigActionOf(s, act) ==
    /\ NewCall
    /\ sgCur \notin SgWaiters
    /\ sgAct' = [sgAct EXCEPT ![s] = act]
    /\ sgT' = IF act.h = "ign"
              THEN [t \in SgThreads |-> [sgT[t] EXCEPT !.pend = @ \ {s}]]
              ELSE sgT
    /\ UNCHANGED <<sgItimer, sgNextA, sgSent, sgProg>>

\* tgkill and kill.
SendSignal(s) ==
    /\ NewCall
    /\ sgCur \notin SgWaiters
    /\ sgSent < SgSends
    /\ \/ sgT' = SgSend(sgT, s)
       \/ \E t \in SgThreads : sgT' = SgPost(sgT, t, s)
    /\ sgSent' = sgSent + 1
    /\ UNCHANGED <<sgAct, sgItimer, sgNextA, sgProg>>

\* FUTEX_WAKE of one waiter.
WakeOne ==
    LET waits == {t \in SgThreads : /\ sgT[t].state = "blocked" /\ sgT[t].call.op = "futex"
                                    /\ ~sgT[t].woken}
    IN  /\ NewCall
        /\ waits # {}
        /\ sgT' = [sgT EXCEPT ![Smallest(waits)].woken = TRUE]
        /\ SgSame

\* setitimer.
SetItimer(value, iv) ==
    LET at == sgNow' + value
    IN  /\ NewCall
        /\ sgCur \notin SgWaiters
        /\ at <= SgLast
        /\ sgItimer' = [at |-> IF value = 0 THEN Never ELSE at, iv |-> iv]
        /\ sgNextA' = IF at < sgNextA THEN at ELSE sgNextA
        /\ UNCHANGED <<sgT, sgAct, sgSent, sgProg>>

SgNext ==
    \/ CheckAlarms
    \/ \E t \in SgThreads : SgPick(t)
    \/ IdleJump
    \/ DeliverSignal
    \/ \E call \in Calls : Call(call)
    \/ CallAgain
    \/ SigReturn
    \/ \E m \in SgMasks : SigProcMask(m)
    \/ \E s \in SgSignals, act \in SgActions : SigActionOf(s, act)
    \/ \E s \in SgSignals : SendSignal(s)
    \/ WakeOne
    \/ \E value \in SgTimeouts, iv \in {0, 1} : SetItimer(value, iv)

-----------------------------------------------------------------------------
(* Properties.                                                             *)

\* When every handler has returned and no wait with a temporary mask is in
\* progress, a thread's mask is the one its program set, whatever signals
\* were nested, deferred or taken inside rt_sigsuspend and ppoll
\* (signal.rs setup_frame and sigreturn, syscall.rs restore_saved_mask).
SgMaskRestored ==
    \A t \in SgThreads :
        sgT[t].frames = <<>> /\ sgT[t].call = SgIdle
            => sgT[t].mask = sgProg[t] /\ sgT[t].saved = NoMask

\* A handler is not entered again by its own signal before it returns
\* (signal.rs setup_frame without SA_NODEFER).
SgNoReentry ==
    \A t \in SgThreads :
        \A i, j \in 1..Len(sgT[t].frames) :
            i # j => sgT[t].frames[i].sig # sgT[t].frames[j].sig

\* next_alarm is a "lower bound of the next alarm/itimer deadline"
\* (mod.rs:287): no timer expires unseen because the scan is skipped.
SgAlarmSeen == sgItimer.at # Never => sgNextA <= sgItimer.at

\* A wait ends at the deadline of its own call: the deadline of a call that
\* is over, or that a handler interrupted, is not taken for this one's
\* ("Absolute deadline of the blocking syscall in progress", mod.rs:267).
SgOwnDeadline ==
    \A t \in SgThreads :
        sgT[t].state = "blocked" /\ sgT[t].until # Never
            => sgT[t].call.d # 0 /\ sgT[t].mine

\* Handlers leave a thread's mask as its program set it, and do not reenter; no
\* timer is missed and no wait ends by another call's deadline.
SgSafe == SgMaskRestored /\ SgNoReentry /\ SgAlarmSeen /\ SgOwnDeadline
=============================================================================
