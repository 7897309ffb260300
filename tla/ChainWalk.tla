----------------------------- MODULE ChainWalk -----------------------------
(***************************************************************************)
(* walk of queue.rs against what a descriptor chain is: a driver fills the *)
(* descriptor table, or the indirect table of its head, in every way, and  *)
(* publishes a head.                                                       *)
(***************************************************************************)
EXTENDS Virtqueue

CONSTANT TableSize       \* descriptors of a table

VARIABLES
    kTable,      \* the table the chain lies in
    kHead,       \* the published head
    kMode        \* "filling" until it is published: "direct", "indirect", "empty" or "refused" (not negotiated)

chainVars == <<kTable, kHead, kMode>>

\* A descriptor: the next one may be outside of the table.
Descs == [write : BOOLEAN, indirect : BOOLEAN, next : {TRUE}, to : 0..TableSize]
             \cup [write : BOOLEAN, indirect : BOOLEAN, next : {FALSE}, to : {0}]
LastDesc == [write |-> FALSE, indirect |-> FALSE, next |-> FALSE, to |-> 0]

ChainInit ==
    /\ kTable = [i \in 0..(TableSize - 1) |-> LastDesc]
    /\ kHead = 0
    /\ kMode = "filling"

WriteDesc(i, d) ==
    /\ kMode = "filling" /\ kTable[i] = LastDesc
    /\ kTable' = [kTable EXCEPT ![i] = d] /\ UNCHANGED <<kHead, kMode>>
Publish(head, mode) ==
    /\ kMode = "filling"
    /\ kHead' = head /\ kMode' = mode /\ UNCHANGED kTable

ChainNext ==
    \/ \E i \in 0..(TableSize - 1), d \in Descs : WriteDesc(i, d)
    \/ \E head \in 0..TableSize, mode \in {"direct", "indirect", "empty", "refused"} :
           Publish(head, mode)

\* What the device makes of it.  With a mode other than "direct" the head is
\* a descriptor with INDIRECT.
Walked ==
    IF kMode = "direct" THEN Walk(kTable, TableSize, kHead, <<>>, 0, TRUE)
    ELSE Walk([i \in 0..(TableSize - 1) |-> [LastDesc EXCEPT !.indirect = TRUE]], TableSize, kHead,
              kTable, IF kMode = "empty" THEN 0 ELSE TableSize, kMode # "refused")

-----------------------------------------------------------------------------
\* A chain from start: each descriptor names the next, the last one none,
\* none is indirect, and the readable ones come first.
IsChain(p, start) ==
    /\ p[1] = start
    /\ \A i \in DOMAIN p : /\ ~kTable[p[i]].indirect
                           /\ kTable[p[i]].next = (i < Len(p))
    /\ \A i \in 1..(Len(p) - 1) : /\ kTable[p[i]].to = p[i + 1]
                                  /\ kTable[p[i]].write => kTable[p[i + 1]].write
Chains(start) ==
    {p \in UNION {[1..n -> 0..(TableSize - 1)] : n \in 1..TableSize} : IsChain(p, start)}

\* walk accepts exactly the chains, hands over each of their descriptors
\* once and in order, and ends on every table, a loop or a next outside of
\* the table included (queue.rs walk).
WalkFindsChain ==
    kMode # "filling" =>
    LET w == Walked
        start == IF kMode = "direct" THEN kHead ELSE 0
    IN  /\ w.res # ""
        /\ w.res = "ok" <=> /\ kHead < TableSize /\ kMode \in {"direct", "indirect"}
                            /\ Chains(start) # {}
        /\ w.res = "ok" => Chains(start) = {w.readable \o w.writable}
=============================================================================
