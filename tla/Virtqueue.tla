----------------------------- MODULE Virtqueue -----------------------------
(***************************************************************************)
(* The split virtqueue of vetro-platform/src/virtio/queue.rs as operators: *)
(* what the device does to its own state (a queue record) and to the rings *)
(* it shares with the driver (a ring record).  The modules that extend     *)
(* this one decide in which order the two sides take these steps.          *)
(***************************************************************************)
EXTENDS Naturals, Sequences

CONSTANT Wrap          \* ring indices are kept modulo Wrap (2^16 in the code)

\* wrapping_add and wrapping_sub of ring indices.
Add(a, n) == (a + n) % Wrap
Sub(a, b) == ((a + Wrap) - b) % Wrap

\* Seeded fault: an event at the first index of the range does not count.
NeedEventOpen(event, new, old) == Sub(Sub(new, event), 1) + 1 < Sub(new, old)

\* need_event: event lies in [old, new), modulo Wrap.
NeedEvent(event, new, old) == Sub(Sub(new, event), 1) < Sub(new, old)

\* Virtqueue::new, also what a reset brings back.
NewQueue(max) ==
    [max |-> max, size |-> max, aligned |-> TRUE, ready |-> FALSE, last |-> 0,
     used |-> 0, signalled |-> 0, event |-> FALSE, indirect |-> FALSE]

\* The rings as the driver prepares them before QueueReady (external).
NewRing(max) ==
    [idx |-> 0, heads |-> [s \in 0..(max - 1) |-> 0], usedEvent |-> 0, quiet |-> FALSE,
     usedIdx |-> 0, used |-> [s \in 0..(max - 1) |-> 0], availEvent |-> 0]

\* QueueReady: only with a valid configuration, and the indices start from zero.
SetReady(q, ready, features) ==
    LET valid == q.size \in {2 ^ k : k \in 0..15} /\ q.size <= q.max /\ q.aligned
        p == [q EXCEPT !.event = "event_idx" \in features,
                       !.indirect = "indirect_desc" \in features,
                       !.ready = ready /\ valid]
    IN  IF p.ready THEN [p EXCEPT !.last = 0, !.used = 0, !.signalled = 0] ELSE p

\* avail_idx: more new entries than the queue has is an error of the driver.
AvailError(q, r) == Sub(r.idx, q.last) > q.size

\* The head pop reads from the available ring.
NextHead(q, r) == r.heads[q.last % q.size]

\* pop and rewind move last_avail; both go on to publish it.
Advance(q) == [q EXCEPT !.last = Add(@, 1)]

\* publish_avail_event.
PublishAvailEvent(q, r) ==
    IF q.event THEN [r EXCEPT !.availEvent = q.last] ELSE r

\* push_used: the element first, then the index the driver reads.
PushUsed(q, r, head) ==
    [r EXCEPT !.used[q.used % q.size] = head, !.usedIdx = Add(q.used, 1)]
UsedPushed(q) == [q EXCEPT !.used = Add(@, 1)]

\* should_notify, and what it leaves in the queue.
ShouldNotify(q, r) ==
    /\ q.ready
    /\ q.signalled # q.used
    /\ IF q.event THEN NeedEvent(r.usedEvent, q.used, q.signalled) ELSE ~r.quiet
Signalled(q) == IF q.ready THEN [q EXCEPT !.signalled = q.used] ELSE q

-----------------------------------------------------------------------------
(***************************************************************************)
(* walk: a descriptor chain.  A descriptor is a record of its flags and    *)
(* the index of the next one; a table is a function from 0..n-1.  indirect *)
(* is the table a head with INDIRECT points to, or an empty sequence where *)
(* its length is not valid.                                                *)
(***************************************************************************)

\* Seeded fault: a readable descriptor may follow a writable one.
WalkStepUnordered(table, n, w) ==
    LET d == table[w.at] IN
    IF w.res # "" THEN w
    ELSE IF w.visited + 1 > n THEN [w EXCEPT !.res = "loop"]
    ELSE IF d.indirect THEN [w EXCEPT !.res = "misplaced"]
    ELSE LET v == [w EXCEPT !.visited = @ + 1,
                            !.writable = IF d.write THEN Append(@, w.at) ELSE @,
                            !.readable = IF d.write THEN @ ELSE Append(@, w.at)]
         IN  IF ~d.next THEN [v EXCEPT !.res = "ok"]
             ELSE IF d.to >= n THEN [v EXCEPT !.res = "range"]
             ELSE [v EXCEPT !.at = d.to]

\* One turn of the loop of walk: res is "" while the loop goes on.
WalkStep(table, n, w) ==
    LET d == table[w.at] IN
    IF w.res # "" THEN w
    ELSE IF w.visited + 1 > n THEN [w EXCEPT !.res = "loop"]
    ELSE IF d.indirect THEN [w EXCEPT !.res = "misplaced"]
    ELSE IF ~d.write /\ w.writable # <<>> THEN [w EXCEPT !.res = "order"]
    ELSE LET v == [w EXCEPT !.visited = @ + 1,
                            !.writable = IF d.write THEN Append(@, w.at) ELSE @,
                            !.readable = IF d.write THEN @ ELSE Append(@, w.at)]
         IN  IF ~d.next THEN [v EXCEPT !.res = "ok"]
             ELSE IF d.to >= n THEN [v EXCEPT !.res = "range"]
             ELSE [v EXCEPT !.at = d.to]

\* The loop: at most one turn more than the table has descriptors.
WalkTable(table, n, start) ==
    LET turn[i \in 0..(n + 1)] ==
            IF i = 0 THEN [at |-> start, visited |-> 0, res |-> "",
                           readable |-> <<>>, writable |-> <<>>]
            ELSE WalkStep(table, n, turn[i - 1])
    IN  turn[n + 1]

WalkError(e) == [at |-> 0, visited |-> 0, res |-> e, readable |-> <<>>, writable |-> <<>>]

\* walk from head, in a queue whose table is desc; negotiated is INDIRECT_DESC.
Walk(desc, n, head, indirect, m, negotiated) ==
    IF head >= n THEN WalkError("head")
    ELSE IF ~desc[head].indirect THEN WalkTable(desc, n, head)
    ELSE IF ~negotiated THEN WalkError("negotiated")
    ELSE IF m = 0 THEN WalkError("length")
    ELSE WalkTable(indirect, m, 0)
=============================================================================
