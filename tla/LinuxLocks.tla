----------------------------- MODULE LinuxLocks -----------------------------
(***************************************************************************)
(* The record locks of the user-mode Linux layer                           *)
(* (vetro-cli/src/linux/locks.rs): F_SETLK and F_SETLKW on the byte ranges *)
(* of one file, by processes and by open file descriptions, the search for *)
(* a cycle of waits, interrupted waits, closes and exits.                  *)
(*                                                                         *)
(* The list of a file is kept sorted by owner and start, with the regions  *)
(* of one owner disjoint, so a set of regions stands for it.  Processes    *)
(* are positive, descriptions negative, as in the code; a process has one  *)
(* thread.  A waiting task executes its fcntl again whenever it is         *)
(* scheduled (Wait::Retry).                                                *)
(***************************************************************************)
EXTENDS Integers, FiniteSets

CONSTANTS
    LlProcs,      \* the processes
    LlOfds,       \* the open file descriptions that lock for themselves
    LlEnd,        \* the bytes are 0..LlEnd-1
    LlRequests,   \* per owner, the locks it asks for: ranges of bytes with a kind
    LlSteps,      \* posix_locks_deadlock follows at most so many waits
    LlSignals     \* how many waits are interrupted

ASSUME LinuxLocksAssumption ==
    /\ LlProcs \subseteq Nat \ {0}
    /\ LlOfds \subseteq {-n : n \in 2..9}
    /\ \A o \in LlProcs \cup LlOfds : \A r \in LlRequests[o] :
          r.start \in Nat /\ r.end \in r.start + 1..LlEnd /\ r.kind \in {"rd", "wr"}
    /\ LlEnd \in Nat \ {0} /\ LlSteps \in Nat /\ LlSignals \in Nat

VARIABLES
    llList,      \* files[key]
    llWaiting,   \* the table of recorded waits: owner to request
    llStop,      \* per owner: the request its task is stopped in, if any
    llShut,      \* the descriptions already closed
    llIntr,      \* waits interrupted so far
    llLast       \* per owner and byte, for the properties: the lock it asked for last

llVars == <<llList, llWaiting, llStop, llShut, llIntr, llLast>>

Owners == LlProcs \cup LlOfds
Kinds == {"rd", "wr"}
LlNone == [start |-> 0, end |-> 0, kind |-> "none"]
Ranges == {r \in [start : 0..LlEnd - 1, end : 1..LlEnd] : r.start < r.end}

LlInit ==
    /\ llList = {}
    /\ llWaiting = [o \in Owners |-> LlNone]
    /\ llStop = [o \in Owners |-> LlNone]
    /\ llShut = {}
    /\ llIntr = 0
    /\ llLast = [o \in Owners |-> [b \in 0..LlEnd - 1 |-> "none"]]

-----------------------------------------------------------------------------
Overlaps(l, start, end) == l.start < end /\ start < l.end

\* conflict: the regions of others that stand in the way; the first of the
\* sorted list is the one reported and followed.
Conflicts(list, owner, r) ==
    {l \in list : /\ l.owner # owner /\ Overlaps(l, r.start, r.end)
                  /\ (l.kind = "wr" \/ r.kind = "wr")}

Before(l, k) == l.owner < k.owner \/ (l.owner = k.owner /\ l.start <= k.start)
First(S) == CHOOSE l \in S : \A k \in S : Before(l, k)

\* apply: the owner's regions lose what the new one covers.
CutLeft(l, start) == IF l.start < start THEN {[l EXCEPT !.end = start]} ELSE {}
CutRight(l, end) == IF end < l.end THEN {[l EXCEPT !.start = end]} ELSE {}
\* A seeded fault: an unlock in the middle of a region loses what follows.
CutTail(list, owner, start, end) ==
    UNION {IF l.owner # owner \/ ~Overlaps(l, start, end) THEN {l}
           ELSE CutLeft(l, start) : l \in list}

Cut(list, owner, start, end) ==
    UNION {IF l.owner # owner \/ ~Overlaps(l, start, end) THEN {l}
           ELSE CutLeft(l, start) \cup CutRight(l, end) : l \in list}

\* apply: contiguous regions of one owner and kind become one (the
\* regions of the others are as they were).
Merge(list, owner) ==
    LET held == [k \in Kinds |-> UNION {l.start..(l.end - 1) : l \in {l \in list : l.owner = owner /\ l.kind = k}}]
        runs(k) == {r \in Ranges : /\ r.start..(r.end - 1) \subseteq held[k]
                                    /\ {r.start - 1, r.end} \cap held[k] = {}}
    IN  {l \in list : l.owner # owner}
        \cup UNION {{[owner |-> owner, start |-> r.start, end |-> r.end, kind |-> k] : r \in runs(k)} : k \in Kinds}

Apply(list, owner, start, end, kind) ==
    Merge(Cut(list, owner, start, end)
          \cup IF kind = "none" THEN {}
               ELSE {[owner |-> owner, start |-> start, end |-> end, kind |-> kind]}, owner)

\* A seeded fault: only two processes that wait for each other are found.
DeadlockDirect(list, waiting, owner, blocker) ==
    /\ waiting[blocker] # LlNone
    /\ Conflicts(list, blocker, waiting[blocker]) # {}
    /\ First(Conflicts(list, blocker, waiting[blocker])).owner = owner

\* deadlock: from the blocker, each wait recorded leads to the first region
\* that stands in its way.
Deadlock(list, waiting, owner, blocker) ==
    LET follow[n \in 0..LlSteps] ==
            IF n = 0 THEN blocker
            ELSE LET b == follow[n - 1]
                 IN  IF b \in {0, owner} THEN b
                     ELSE IF waiting[b] = LlNone \/ Conflicts(list, b, waiting[b]) = {} THEN 0
                     ELSE First(Conflicts(list, b, waiting[b])).owner
    IN  LlSteps > 0 /\ follow[LlSteps - 1] = owner

\* purge_ofd: the locks of closed descriptions, dropped on the next fcntl.
Purged(list) == {l \in list : l.owner \notin llShut}

\* prune_waiting: only the waits of tasks that are stopped in fcntl remain,
\* the caller's own excepted.
Pruned(owner) ==
    [o \in Owners |-> IF o # owner /\ o \in LlProcs /\ llStop[o] # LlNone THEN llWaiting[o] ELSE LlNone]

-----------------------------------------------------------------------------
(* The calls.                                                              *)

Free(o) == llStop[o] = LlNone /\ o \notin llShut

Remember(o, start, end, kind) ==
    llLast' = [llLast EXCEPT ![o] = [b \in 0..LlEnd - 1 |->
                                       IF start <= b /\ b < end THEN kind ELSE @[b]]]

\* fcntl_lock without a conflict: the wait recorded is gone, the lock is set.
Granted(o, r) ==
    /\ llList' = Apply(Purged(llList), o, r.start, r.end, r.kind)
    /\ llWaiting' = [llWaiting EXCEPT ![o] = LlNone]
    /\ llStop' = [llStop EXCEPT ![o] = LlNone]
    /\ Remember(o, r.start, r.end, r.kind)
    /\ UNCHANGED <<llShut, llIntr>>

\* F_SETLKW with a conflict: EDEADLK if the wait closes a cycle of
\* processes, else the wait is recorded and the task stops.
MustWait(o, r) ==
    LET list == Purged(llList)
        waiting == Pruned(o)
        blocker == First(Conflicts(list, o, r)).owner
        cycle == o \in LlProcs /\ Deadlock(list, waiting, o, blocker)
    IN  /\ llList' = list
        /\ llWaiting' = [waiting EXCEPT ![o] = IF cycle THEN LlNone ELSE r]
        /\ llStop' = [llStop EXCEPT ![o] = IF cycle THEN LlNone ELSE r]
        /\ UNCHANGED <<llShut, llIntr, llLast>>

SetLkW(o, r) ==
    IF Conflicts(Purged(llList), o, r) = {} THEN Granted(o, r) ELSE MustWait(o, r)

\* F_SETLK and F_OFD_SETLK: a lock that is free, or an unlock.
SetLk(o, r) ==
    /\ Free(o)
    /\ Conflicts(Purged(llList), o, r) = {}
    /\ Granted(o, r)

Unlock(o, r) ==
    /\ Free(o)
    /\ Granted(o, [start |-> r.start, end |-> r.end, kind |-> "none"])

\* F_SETLKW, and its execution again by a task that waits.
LockWait(o, r) == Free(o) /\ Conflicts(Purged(llList), o, r) # {} /\ MustWait(o, r)
Retry(o) == llStop[o] # LlNone /\ o \notin llShut /\ SetLkW(o, llStop[o])

\* A signal ends the wait with EINTR; the recorded wait is left behind.
Interrupted(o) ==
    /\ llIntr < LlSignals
    /\ llStop[o] # LlNone
    /\ llStop' = [llStop EXCEPT ![o] = LlNone]
    /\ llIntr' = llIntr + 1
    /\ UNCHANGED <<llList, llWaiting, llShut, llLast>>

\* release_locks_on_close, and finish_process: the locks of the process.
\* An exit forgets its wait as well.
Release(o, exits) ==
    /\ o \in LlProcs
    /\ llStop[o] = LlNone
    /\ llList' = {l \in llList : l.owner # o}
    /\ llWaiting' = IF exits THEN [llWaiting EXCEPT ![o] = LlNone] ELSE llWaiting
    /\ Remember(o, 0, LlEnd, "none")
    /\ UNCHANGED <<llStop, llShut, llIntr>>

\* The last reference to a description goes away.
CloseOfd(o) ==
    /\ o \in LlOfds \ llShut
    /\ llStop[o] = LlNone
    /\ llShut' = llShut \cup {o}
    /\ Remember(o, 0, LlEnd, "none")
    /\ UNCHANGED <<llList, llWaiting, llStop, llIntr>>

LlNext ==
    \E o \in Owners :
        \/ \E r \in LlRequests[o] : SetLk(o, r) \/ LockWait(o, r) \/ Unlock(o, r)
        \/ Retry(o)
        \/ Interrupted(o)
        \/ \E exits \in BOOLEAN : Release(o, exits)
        \/ CloseOfd(o)

-----------------------------------------------------------------------------
(* Properties.                                                             *)

\* Two owners never hold overlapping regions of which one is exclusive,
\* whatever was split, merged, waited for or interrupted before
\* (locks.rs conflict and apply).
LlCompatible ==
    \A l, k \in llList :
        l.owner # k.owner /\ Overlaps(l, k.start, k.end) /\ {l.owner, k.owner} \cap llShut = {}
            => l.kind = "rd" /\ k.kind = "rd"

\* Every byte is held as the last call of its owner left it: the list is
\* what a table of single bytes would be (locks.rs apply, release,
\* purge_ofd).
LlBytes ==
    \A o \in Owners \ llShut, b \in 0..LlEnd - 1 :
        {l.kind : l \in {l \in llList : l.owner = o /\ l.start <= b /\ b < l.end}}
            = IF llLast[o][b] = "none" THEN {} ELSE {llLast[o][b]}

\* EDEADLK is a cycle: a process refused a wait is one that processes
\* stopped in fcntl wait for, one after the other; a wait that a signal
\* ended counts for nothing ("must not show a cycle that is not there",
\* locks.rs prune_waiting).
LlWaitsFor(o) == {l.owner : l \in Conflicts(Purged(llList), o, llStop[o])}
LlReaches(from, to) ==
    LET near[n \in 0..Cardinality(LlProcs)] ==
            IF n = 0 THEN {from}
            ELSE near[n - 1] \cup UNION {IF llStop[o] = LlNone THEN {} ELSE LlWaitsFor(o) : o \in near[n - 1]}
    IN  to \in near[Cardinality(LlProcs)]
LlTrueCycle ==
    \A o \in LlProcs : \A r \in LlRequests[o] :
        LET list == Purged(llList)
            blocked == Conflicts(list, o, r)
        IN  llStop[o] = LlNone /\ blocked # {}
            /\ Deadlock(list, Pruned(o), o, First(blocked).owner)
            => LlReaches(First(blocked).owner, o)

\* Processes that wait only for one another do not wait for ever: whatever
\* waits were interrupted, one of them gets EDEADLK when it executes its
\* fcntl again (locks.rs deadlock; the table follows only the first region
\* in the way of each wait).
LlStuck(S) ==
    S # {} /\ \A o \in S : llStop[o] # LlNone /\ LlWaitsFor(o) # {} /\ LlWaitsFor(o) \subseteq S
LlDeadlockBroken ==
    \A S \in SUBSET LlProcs :
        LlStuck(S) => \E o \in S :
            LET list == Purged(llList)
            IN  Deadlock(list, Pruned(o), o, First(Conflicts(list, o, llStop[o])).owner)

\* The table of regions is a table of bytes, with no byte held against another;
\* EDEADLK is returned for a cycle of waits, and for each of them.
LlSafe == LlCompatible /\ LlBytes /\ LlTrueCycle /\ LlDeadlockBroken
=============================================================================
