----------------------------- MODULE LinuxProc -----------------------------
(***************************************************************************)
(* Processes and threads of the user-mode Linux layer                      *)
(* (vetro-cli/src/linux: process.rs, the scheduler of mod.rs, the signal   *)
(* delivery of signal.rs): clone, execve, exit, exit_group, wait4, kill,   *)
(* thread joins through the cleared tid, and who may run when.             *)
(*                                                                         *)
(* A task is a record of the sequence lkT; its index is its tid, as tids   *)
(* are handed out in order.  Two signals are told apart: SIGKILL and       *)
(* SIGCHLD; signal masks are the subject of LinuxSignals.  A task whose    *)
(* system call blocks keeps the call and executes it again when it runs.   *)
(***************************************************************************)
EXTENDS Integers, Sequences, FiniteSets

CONSTANTS
    LkTasks,     \* how many tasks are ever created
    LkKills,     \* how many SIGKILLs are sent
    LkRestart,   \* the SA_RESTART flags SIGCHLD handlers are installed with
    LkOdd        \* whether programs execve from a second thread, or end their first thread first

ASSUME LinuxProcAssumption ==
    /\ LkTasks \in Nat \ {0}
    /\ LkKills \in Nat
    /\ LkRestart \subseteq BOOLEAN
    /\ LkOdd \in BOOLEAN

VARIABLES
    lkT,        \* Kernel.tasks
    lkAct,      \* per process: the action for SIGCHLD, "dfl", "ign" or a handler with its SA_RESTART flag
    lkWord,     \* per thread: the word CLONE_CHILD_CLEARTID names still holds its tid
    lkOver,     \* init_exit is set: the run is over
    lkKills,    \* SIGKILLs sent so far
    lkReaped,   \* per process: how many wait4 calls returned its status
    lkOwed      \* per process: it ended while its parent, alive, did not ignore SIGCHLD

lkVars == <<lkT, lkAct, lkWord, lkOver, lkKills, lkReaped, lkOwed>>

Tids == 1..LkTasks
InitPid == 1
AnyChild == 0

\* What a task stopped in a system call waits for: Wait of mod.rs.
NoCall == [op |-> "none", on |-> 0]
WaitChild(pid) == [op |-> "child", on |-> pid]
WaitVfork(tid) == [op |-> "vfork", on |-> tid]
WaitFutex(tid) == [op |-> "futex", on |-> tid]

NewTask(tgid, ppid, mm, vf) ==
    [tgid |-> tgid, ppid |-> ppid, mm |-> mm, state |-> "run", call |-> NoCall,
     vf |-> vf, pend |-> {}, woken |-> FALSE, intr |-> FALSE]

LkInit ==
    /\ lkT = <<NewTask(InitPid, 0, InitPid, 0)>>
    /\ lkAct = [p \in Tids |-> "dfl"]
    /\ lkWord = [p \in Tids |-> FALSE]
    /\ lkOver = FALSE
    /\ lkKills = 0
    /\ lkReaped = [p \in Tids |-> 0]
    /\ lkOwed = [p \in Tids |-> FALSE]

-----------------------------------------------------------------------------
Created(T) == 1..Len(T)
Alive(T, i) == T[i].state \in {"run", "blocked"}
Threads(T, p) == {i \in Created(T) : T[i].tgid = p}
ProcAlive(T, p) == \E i \in Threads(T, p) : Alive(T, i)
FirstOf(S) == CHOOSE i \in S : \A j \in S : i <= j

\* Kernel::find: the task with that tid, unless it is Dead.
Found(T, p) == p \in Created(T) /\ T[p].state # "dead"

\* matches, with the process groups left out.
Matches(c, pid) == pid = AnyChild \/ c.tgid = pid

\* has_waitable_child and has_child.
Waitable(T, me, pid) ==
    {c \in Created(T) : /\ T[c].ppid = me /\ T[c].tgid = c
                        /\ T[c].state = "zombie" /\ Matches(T[c], pid)}
HasChild(T, me, pid) ==
    \E c \in Created(T) : /\ T[c].ppid = me /\ T[c].tgid = c
                          /\ T[c].state # "dead" /\ Matches(T[c], pid)

\* send_to_thread: an ignored signal does not stay pending, and SIGCHLD is
\* ignored by default.
SendThread(T, act, i, s) ==
    IF s = "chld" /\ act[T[i].tgid] \in {"dfl", "ign"}
    THEN T
    ELSE [T EXCEPT ![i].pend = @ \cup {s}]

\* send_to_process: the first live thread, as no mask is modelled here.
SendProcess(T, act, p, s) ==
    LET live == {i \in Threads(T, p) : Alive(T, i)}
    IN  IF live = {} THEN T ELSE SendThread(T, act, FirstOf(live), s)

\* futex_wake of one waiter on the word of thread tid in address space mm.
FutexWake(T, mm, tid) ==
    LET hit == {i \in Created(T) : /\ T[i].state = "blocked" /\ ~T[i].woken
                                   /\ T[i].call = WaitFutex(tid) /\ T[i].mm = mm}
    IN  IF hit = {} THEN T ELSE [T EXCEPT ![FirstOf(hit)].woken = TRUE]

\* A task that will not run again: its registers, its signals and its
\* address space are nobody's any more.
Gone(me, state) ==
    [me EXCEPT !.state = state, !.vf = 0, !.mm = 0, !.call = NoCall,
               !.pend = {}, !.woken = FALSE, !.intr = FALSE]

Husk(T, i) == Gone(T[i], IF T[i].tgid = i THEN "zombie" ELSE "dead")

\* finish_thread: the cleared tid wakes a joiner, a vfork parent is let go,
\* a group leader stays as a zombie.
FinishThread(T, i) ==
    LET woken == IF lkWord[i] THEN FutexWake(T, T[i].mm, i) ELSE T
    IN  [woken EXCEPT ![i] = Husk(woken, i)]

\* A seeded fault: only the children still running are handed over.
ReparentLive(T, p) ==
    [i \in Created(T) |->
        IF T[i].ppid = p /\ T[i].tgid # p /\ Alive(T, i)
        THEN [T[i] EXCEPT !.ppid = InitPid] ELSE T[i]]

\* "Orphans go to the initial process."
Reparent(T, p) ==
    [i \in Created(T) |->
        IF T[i].ppid = p /\ T[i].tgid # p THEN [T[i] EXCEPT !.ppid = InitPid] ELSE T[i]]

\* auto_reap of finish_process.
AutoReap(T, p) ==
    \/ ~Found(T, T[p].ppid)
    \/ lkAct[T[T[p].ppid].tgid] = "ign"

\* The leader's state after finish_process: the exit status waits for the
\* parent, unless nobody is to have it.
EndLeader(T, p) ==
    [T EXCEPT ![p].state = IF AutoReap(T, p) /\ p # InitPid THEN "dead" ELSE "zombie"]

FinishProcess(T, p) ==
    LET adopted == Reparent(T, p)
        ended == EndLeader(adopted, p)
    IN  IF Found(adopted, adopted[p].ppid)
        THEN SendProcess(ended, lkAct, ended[p].ppid, "chld")
        ELSE ended

\* What the parent is owed, for the properties: noted when a process ends.
Owe(T, p) ==
    lkOwed' = [lkOwed EXCEPT ![p] = /\ ProcAlive(T, T[p].ppid)
                                    /\ lkAct[T[p].ppid] # "ign"]

Ended(T, p) ==
    /\ lkT' = FinishProcess(T, p)
    /\ lkOver' = (lkOver \/ p = InitPid)
    /\ Owe(T, p)

\* The words of threads that ended are zero.
Cleared(S) == lkWord' = [i \in Tids |-> lkWord[i] /\ i \notin S]

\* exit_thread.
ExitThread(t) ==
    LET T == FinishThread(lkT, t)
        p == lkT[t].tgid
    IN  /\ Cleared({t})
        /\ IF ProcAlive(T, p)
           THEN lkT' = T /\ UNCHANGED <<lkOver, lkOwed>>
           ELSE Ended(T, p)

\* exit_group: every live thread in order, then the process.
FinishAll(T, live) ==
    LET done[k \in 0..Len(T)] ==
            IF k = 0 THEN T
            ELSE IF k \in live THEN FinishThread(done[k - 1], k)
            ELSE done[k - 1]
    IN  done[Len(T)]

ExitGroupOf(p) ==
    LET live == {i \in Threads(lkT, p) : Alive(lkT, i)}
    IN  Cleared(live) /\ Ended(FinishAll(lkT, live), p)

-----------------------------------------------------------------------------
(* The system calls of a task that runs, with no signal to deliver first.  *)

Runs(t) ==
    /\ ~lkOver
    /\ t \in Created(lkT)
    /\ lkT[t].state = "run"
    /\ lkT[t].pend = {}

Idle(t) == Runs(t) /\ lkT[t].call = NoCall
Leader(t) == lkT[t].tgid = t
Alone(t) == \A i \in Threads(lkT, lkT[t].tgid) \ {t} : ~Alive(lkT, i)

Quiet == UNCHANGED <<lkReaped, lkKills>>

\* sys_clone: a thread, a fork or a vfork.
Clone(t, kind) ==
    LET me == lkT[t]
        tid == Len(lkT) + 1
        tgid == IF kind = "thread" THEN me.tgid ELSE tid
        ppid == IF kind = "thread" THEN me.ppid ELSE me.tgid
        mm == IF kind = "fork" THEN tid ELSE me.mm
        child == NewTask(tgid, ppid, mm, IF kind = "vfork" THEN t ELSE 0)
        parent == IF kind = "vfork"
                  THEN [me EXCEPT !.state = "blocked", !.call = WaitVfork(tid)]
                  ELSE me
    IN  /\ Idle(t)
        /\ tid \in Tids
        /\ lkT' = Append([lkT EXCEPT ![t] = parent], child)
        /\ lkWord' = [lkWord EXCEPT ![tid] = kind = "thread"]
        /\ lkAct' = [lkAct EXCEPT ![tid] = lkAct[me.tgid]]
        /\ Quiet /\ UNCHANGED <<lkOver, lkOwed>>

\* sys_execve: the other threads disappear, the address space is new, the
\* handlers go back to the default, a vfork parent is let go.
Exec(t) ==
    LET p == lkT[t].tgid
    IN  /\ Idle(t)
        /\ LkOdd \/ Leader(t)
        /\ lkT' = [i \in Created(lkT) |->
                     IF i = t THEN [lkT[i] EXCEPT !.mm = LkTasks + t, !.vf = 0]
                     ELSE IF lkT[i].tgid = p /\ lkT[i].state # "dead"
                     THEN Gone(lkT[i], "dead")
                     ELSE lkT[i]]
        /\ lkAct' = [lkAct EXCEPT ![p] = IF @ = "ign" THEN "ign" ELSE "dfl"]
        /\ lkWord' = [lkWord EXCEPT ![t] = FALSE]
        /\ Quiet /\ UNCHANGED <<lkOver, lkOwed>>

\* exit.
Exit(t) ==
    /\ Idle(t)
    /\ LkOdd \/ ~Leader(t) \/ Alone(t)
    /\ ExitThread(t)
    /\ Quiet /\ UNCHANGED lkAct

\* exit_group.
ExitGroup(t) ==
    /\ Idle(t)
    /\ ExitGroupOf(lkT[t].tgid)
    /\ Quiet /\ UNCHANGED lkAct

\* reap: the first zombie child, which is Dead from then on.
Reap(T, c) == [T EXCEPT ![c].state = "dead"]

\* sys_wait4, executed for the first time or again after a wait.
Wait4(t, pid, nohang) ==
    LET me == lkT[t].tgid
        ready == Waitable(lkT, me, pid)
        c == FirstOf(ready)
    IN  /\ IF ready # {}
           THEN /\ lkT' = [Reap(lkT, c) EXCEPT ![t].call = NoCall]
                /\ lkReaped' = [lkReaped EXCEPT ![c] = IF @ = 2 THEN 2 ELSE @ + 1]
           ELSE /\ lkT' = [lkT EXCEPT ![t] =
                             IF ~HasChild(lkT, me, pid) \/ nohang
                             THEN [@ EXCEPT !.call = NoCall]
                             ELSE [@ EXCEPT !.state = "blocked", !.call = WaitChild(pid)]]
                /\ UNCHANGED lkReaped
        /\ UNCHANGED <<lkAct, lkWord, lkOver, lkKills, lkOwed>>

Wait(t, pid, nohang) == Idle(t) /\ Wait4(t, pid, nohang)

\* sys_futex FUTEX_WAIT on the tid word of another thread (a join).
FutexWait(t, tid) ==
    /\ lkT' = [lkT EXCEPT ![t] =
                 IF @.woken THEN [@ EXCEPT !.woken = FALSE, !.call = NoCall]
                 ELSE IF ~lkWord[tid] THEN [@ EXCEPT !.call = NoCall]
                 ELSE [@ EXCEPT !.state = "blocked", !.call = WaitFutex(tid)]]
    /\ UNCHANGED <<lkAct, lkWord, lkOver, lkKills, lkReaped, lkOwed>>

Join(t, tid) ==
    /\ Idle(t)
    /\ tid \in Threads(lkT, lkT[t].tgid) \ {t}
    /\ lkWord[tid]
    /\ \A i \in Created(lkT) : lkT[i].call # WaitFutex(tid)   \* one joiner, as in POSIX
    /\ FutexWait(t, tid)

\* The SVC a woken task executes again.
Again(t) ==
    /\ Runs(t)
    /\ \/ lkT[t].call.op = "child" /\ Wait4(t, lkT[t].call.on, FALSE)
       \/ lkT[t].call.op = "futex" /\ FutexWait(t, lkT[t].call.on)

\* sys_sigaction for SIGCHLD; SIG_IGN discards what is pending.
SigAction(t, act) ==
    LET p == lkT[t].tgid
    IN  /\ Idle(t)
        /\ lkAct[p] = "dfl"      \* bound: a program sets it once
        /\ lkAct' = [lkAct EXCEPT ![p] = act]
        /\ lkT' = [i \in Created(lkT) |->
                     IF act = "ign" /\ lkT[i].tgid = p
                     THEN [lkT[i] EXCEPT !.pend = @ \ {"chld"}] ELSE lkT[i]]
        /\ Quiet /\ UNCHANGED <<lkWord, lkOver, lkOwed>>

\* sys_kill with SIGKILL.
Kill(t, p) ==
    /\ Idle(t)
    /\ lkKills < LkKills
    /\ ProcAlive(lkT, p)
    /\ lkT' = SendProcess(lkT, lkAct, p, "kill")
    /\ lkKills' = lkKills + 1
    /\ UNCHANGED <<lkAct, lkWord, lkOver, lkReaped, lkOwed>>

-----------------------------------------------------------------------------
(* The scheduler: ready() and the signal delivery of run_task.             *)

\* wait_satisfied.
Satisfied(T, t) ==
    LET me == T[t]
    IN  CASE me.call.op = "child" -> \/ Waitable(T, me.tgid, me.call.on) # {}
                                     \/ ~HasChild(T, me.tgid, me.call.on)
          [] me.call.op = "futex" -> me.woken
          [] me.call.op = "vfork" -> ~Found(T, me.call.on) \/ T[me.call.on].vf = 0
          [] OTHER -> FALSE

\* ready: a blocked task becomes runnable when its wait is over, or, with
\* the wait noted as interrupted, when a signal is pending.  A vfork has
\* its result in the registers already, so nothing is executed again.
Ready(t) ==
    LET me == lkT[t]
        done == Satisfied(lkT, t)
    IN  /\ ~lkOver
        /\ t \in Created(lkT)
        /\ me.state = "blocked"
        /\ done \/ me.pend # {}
        /\ lkT' = [lkT EXCEPT ![t] = [me EXCEPT !.state = "run", !.intr = ~done,
                                                !.call = IF me.call.op = "vfork" THEN NoCall ELSE @]]
        /\ UNCHANGED <<lkAct, lkWord, lkOver, lkKills, lkReaped, lkOwed>>

\* deliver_signals: the lowest signal first.  SIGKILL ends the process; a
\* handler runs (its body makes no system call here) and an interrupted
\* call returns EINTR unless SA_RESTART has it executed again.
Deliver(t) ==
    LET me == lkT[t]
        act == lkAct[me.tgid]
        eintr == me.intr /\ act = "handler"
    IN  /\ ~lkOver
        /\ t \in Created(lkT)
        /\ me.state = "run"
        /\ me.pend # {}
        /\ IF "kill" \in me.pend
           THEN ExitGroupOf(me.tgid)
           ELSE /\ lkT' = [lkT EXCEPT ![t] =
                             [me EXCEPT !.pend = @ \ {"chld"}, !.intr = FALSE,
                                        !.woken = @ /\ ~eintr,
                                        !.call = IF eintr THEN NoCall ELSE @]]
                /\ UNCHANGED <<lkWord, lkOver, lkOwed>>
        /\ UNCHANGED <<lkAct, lkKills, lkReaped>>

Handlers == {IF r THEN "restart" ELSE "handler" : r \in LkRestart}

LkNext ==
    \E t \in Tids :
        \/ \E kind \in {"fork", "thread", "vfork"} : Clone(t, kind)
        \/ Exec(t)
        \/ Exit(t)
        \/ ExitGroup(t)
        \/ \E pid \in {AnyChild} \cup Tids, nohang \in BOOLEAN : Wait(t, pid, nohang)
        \/ \E tid \in Tids : Join(t, tid)
        \/ Again(t)
        \/ \E act \in {"ign"} \cup Handlers : SigAction(t, act)
        \/ \E p \in Tids : Kill(t, p)
        \/ Ready(t)
        \/ Deliver(t)

-----------------------------------------------------------------------------
(* Properties.                                                             *)

\* A process's exit status is returned by wait4 at most once, and only when
\* none of its threads runs any more (process.rs reap, finish_process).
LkReapedOnce ==
    \A p \in Created(lkT) :
        /\ lkReaped[p] <= 1
        /\ lkReaped[p] = 1 => ~ProcAlive(lkT, p)

\* The status of a process that ended while its parent lived, and did not
\* ignore SIGCHLD, is kept until somebody waits for it: the process is a
\* zombie of a process that lives (its parent, or init after an adoption),
\* or has been reaped (process.rs finish_process, Reparent).
LkStatusKept ==
    \A p \in Created(lkT) :
        lkOwed[p] /\ ~lkOver =>
            \/ lkReaped[p] = 1
            \/ lkT[p].state = "zombie" /\ ProcAlive(lkT, lkT[p].ppid)

\* "The parent resumes when the child execs or exits" (process.rs:112): a
\* process runs in the address space of another only while the other's
\* thread that called vfork does not.
LkVforkHeld ==
    \A c \in Created(lkT) :
        /\ Alive(lkT, c)
        /\ lkT[c].vf # 0
        /\ Alive(lkT, lkT[c].vf)
        => lkT[lkT[c].vf].call = WaitVfork(c)

\* A thread that waits for another to end is woken when it ends: nobody is
\* left stopped on a word that is already zero (process.rs finish_thread and
\* futex_wake, syscall.rs FUTEX_WAIT).
LkNoLostJoin ==
    \A t \in Created(lkT) :
        lkT[t].state = "blocked" /\ lkT[t].call.op = "futex"
            => lkWord[lkT[t].call.on] \/ lkT[t].woken

\* The end of threads and processes reaches those who wait for it, once.
LkExits == LkReapedOnce /\ LkStatusKept /\ LkNoLostJoin
=============================================================================
