---------------------------- MODULE DeferredSave ----------------------------
(***************************************************************************)
(* The deferred save (docs/adr/0046): the write trap of board.rs over the  *)
(* pages of RAM, the writers that keep a page's old bytes before they      *)
(* change it, the software TLBs that write with no trap at all, and the    *)
(* DeferredSave of machine/snapshot.rs that gives the pages piece by       *)
(* piece.  Core 0 runs in the machine's thread, which also starts, pumps   *)
(* and drops the saves; the others run meanwhile if the machine is         *)
(* parallel.                                                               *)
(***************************************************************************)
EXTENDS Integers, FiniteSets

CONSTANTS P, Value, Saves, None, \* as in SaveSpec
          N,                     \* cores
          MaxEpoch               \* bound on the traps started or voided

ASSUME PAssumption == P \in Nat \ {0}
ASSUME NoneAssumption == None \notin Value
ASSUME NAssumption == N \in Nat \ {0}
ASSUME MaxEpochAssumption == MaxEpoch \in Nat

Page == 0 .. P - 1
Core == 0 .. N - 1

VARIABLES mem,    \* Ram::bytes
          bits,   \* Trap::bits: the pages still trapped
          armed,  \* Trap::armed: their number
          kept,   \* Trap::kept: old bytes of pages written meanwhile
          epoch,  \* Trap::epoch
          par,    \* Machine::par: the cores run in parallel
          direct, \* per core, the pages its software TLB writes directly
          at,     \* where the core is in Ram::write
          pages,  \* the pages it writes
          todo,   \* those before_write has not passed yet
          save    \* the saves

trapVars == <<bits, armed, kept, epoch>>
writeVars == <<at, pages, todo>>
vars == <<mem, trapVars, par, direct, writeVars, save>>

Maybe == Value \cup {None}

Nothing == [p \in Page |-> None]

NoSave == [state |-> "none", epoch |-> 0, page |-> 0, image |-> Nothing, out |-> Nothing]

(***************************************************************************)
(* image is the RAM when the save started: no code holds it, the           *)
(* properties compare with it.  "lost": trap_take found a page neither     *)
(* trapped nor kept.                                                       *)
(***************************************************************************)
Save == [state : {"none", "open", "done", "lost"}, epoch : 0 .. MaxEpoch, page : 0 .. P,
         image : [Page -> Maybe], out : [Page -> Maybe]]

TypeOK ==
    /\ mem \in [Page -> Value]
    /\ bits \in SUBSET Page
    /\ armed \in 0 .. P
    /\ kept \in [Page -> Maybe]
    /\ epoch \in 0 .. MaxEpoch
    /\ par \in BOOLEAN
    /\ direct \in [Core -> SUBSET Page]
    /\ at \in [Core -> {"idle", "scan", "lock"}]
    /\ pages \in [Core -> SUBSET Page]
    /\ todo \in [Core -> SUBSET Page]
    /\ save \in [Saves -> Save]

Init ==
    /\ mem \in [Page -> Value]
    /\ bits = {}
    /\ armed = 0
    /\ kept = Nothing
    /\ epoch = 0
    /\ par = FALSE
    /\ direct = [c \in Core |-> {}]
    /\ at = [c \in Core |-> "idle"]
    /\ pages = [c \in Core |-> {}]
    /\ todo = [c \in Core |-> {}]
    /\ save = [h \in Saves |-> NoSave]

-----------------------------------------------------------------------------
(* Writes *)

Running(c) == at[c] = "idle" /\ (c = 0 \/ par)

\* Ram::write, write_watched, cmpxchg: before_write looks at the pages, unless
\* nothing is trapped.
WriteBegin(c, S) ==
    /\ Running(c)
    /\ S # {}
    /\ at' = [at EXCEPT ![c] = "scan"]
    /\ pages' = [pages EXCEPT ![c] = S]
    /\ todo' = [todo EXCEPT ![c] = IF armed = 0 THEN {} ELSE S]
    /\ UNCHANGED <<mem, trapVars, par, direct, save>>

\* Ram::keep: the pages in order, a bit seen clear is passed.
NextPage(c) == CHOOSE p \in todo[c] : \A q \in todo[c] : p <= q

KeepTest(c) ==
    /\ at[c] = "scan"
    /\ todo[c] # {}
    /\ IF NextPage(c) \in bits
       THEN at' = [at EXCEPT ![c] = "lock"] /\ UNCHANGED todo
       ELSE todo' = [todo EXCEPT ![c] = @ \ {NextPage(c)}] /\ UNCHANGED at
    /\ UNCHANGED <<mem, trapVars, par, direct, pages, save>>

\* Under the lock, if the bit is still set.
KeepLocked(c) ==
    /\ at[c] = "lock"
    /\ IF NextPage(c) \in bits
       THEN /\ kept' = [kept EXCEPT ![NextPage(c)] = mem[NextPage(c)]]
            /\ bits' = bits \ {NextPage(c)}
            /\ armed' = armed - 1
       ELSE UNCHANGED <<kept, bits, armed>>
    /\ at' = [at EXCEPT ![c] = "scan"]
    /\ todo' = [todo EXCEPT ![c] = @ \ {NextPage(c)}]
    /\ UNCHANGED <<mem, epoch, par, direct, pages, save>>

StoreBytes(c, v) ==
    /\ at[c] = "scan"
    /\ todo[c] = {}
    /\ mem' = [p \in Page |-> IF p \in pages[c] THEN v ELSE mem[p]]
    /\ at' = [at EXCEPT ![c] = "idle"]
    /\ pages' = [pages EXCEPT ![c] = {}]
    /\ UNCHANGED <<trapVars, par, direct, todo, save>>

\* SysHost::fill, for writing: not a trapped page (write_trapped).
Trapped(p) == armed # 0 /\ p \in bits

Fill(c, p) ==
    /\ Running(c)
    /\ ~Trapped(p)
    /\ direct' = [direct EXCEPT ![c] = @ \cup {p}]
    /\ UNCHANGED <<mem, trapVars, par, writeVars, save>>

\* A store of translated code that hits the software TLB.
DirectWrite(c, p, v) ==
    /\ Running(c)
    /\ p \in direct[c]
    /\ mem' = [mem EXCEPT ![p] = v]
    /\ UNCHANGED <<trapVars, par, direct, writeVars, save>>

-----------------------------------------------------------------------------
(* The machine's thread, between two runs *)

Between == at[0] = "idle"

\* trap_disarm.
Disarm ==
    /\ bits' = {}
    /\ armed' = 0
    /\ kept' = Nothing

\* Machine::save_deferred: trap_arm, then the JIT forgets its write entries.
SaveDeferred(h) ==
    /\ Between
    /\ ~par
    /\ save[h].state = "none"
    /\ epoch < MaxEpoch
    /\ bits' = Page
    /\ armed' = P
    /\ kept' = Nothing
    /\ epoch' = epoch + 1
    /\ direct' = [direct EXCEPT ![0] = {}]
    /\ save' = [save EXCEPT ![h] = [state |-> "open", epoch |-> epoch + 1, page |-> 0,
                                    image |-> mem, out |-> Nothing]]
    /\ UNCHANGED <<mem, par, writeVars>>

\* trap_take of page p: as it is, or as it was kept.
Taken(p) == IF p \in bits THEN mem[p] ELSE kept[p]

\* DeferredSave::pump of a save that is not void: the pages up to `to`.
Pump(h, to) ==
    /\ Between
    /\ save[h].state = "open"
    /\ save[h].epoch = epoch
    /\ to \in save[h].page + 1 .. P
    /\ LET given == save[h].page .. to - 1
           lost == \E p \in given : Taken(p) = None
       IN /\ save' = [save EXCEPT ![h] =
                        [state |-> IF lost THEN "lost" ELSE IF to = P THEN "done" ELSE "open",
                         epoch |-> @.epoch,
                         page |-> to,
                         image |-> @.image,
                         out |-> [p \in Page |-> IF p \in given THEN Taken(p) ELSE @.out[p]]]]
          /\ IF to = P
             THEN Disarm
             ELSE /\ bits' = bits \ given
                  /\ armed' = armed - Cardinality(bits \cap given)
                  /\ kept' = [p \in Page |-> IF p \in given THEN None ELSE kept[p]]
    /\ UNCHANGED <<mem, epoch, par, direct, writeVars>>

\* Seeded fault: ends the trap of whichever save holds it.
DropAnyTrap(h) ==
    /\ Between
    /\ save[h].state # "none"
    /\ Disarm
    /\ save' = [save EXCEPT ![h] = NoSave]
    /\ UNCHANGED <<mem, epoch, par, direct, writeVars>>

\* Seeded fault: the trap stays on.
DropNoTrap(h) ==
    /\ Between
    /\ save[h].state # "none"
    /\ save' = [save EXCEPT ![h] = NoSave]
    /\ UNCHANGED <<mem, trapVars, par, direct, writeVars>>

\* Drop for DeferredSave.
DropSave(h) ==
    /\ Between
    /\ save[h].state # "none"
    /\ IF save[h].state # "done" /\ save[h].epoch = epoch
       THEN Disarm
       ELSE UNCHANGED <<bits, armed, kept>>
    /\ save' = [save EXCEPT ![h] = NoSave]
    /\ UNCHANGED <<mem, epoch, par, direct, writeVars>>

\* Seeded fault: the epoch stays.
RestoreSameEpoch ==
    /\ Between
    /\ ~par
    /\ Disarm
    /\ mem' \in [Page -> Value]
    /\ UNCHANGED <<epoch, par, direct, writeVars, save>>

\* Ram::restore_from.
Restore ==
    /\ Between
    /\ ~par
    /\ epoch < MaxEpoch
    /\ epoch' = epoch + 1
    /\ Disarm
    /\ mem' \in [Page -> Value]
    /\ UNCHANGED <<par, direct, writeVars, save>>

\* start_parallel: each other core gets a new JIT.
StartParallel ==
    /\ Between
    /\ ~par
    /\ par' = TRUE
    /\ UNCHANGED <<mem, trapVars, direct, writeVars, save>>

\* stop_parallel: the other cores have returned, their JITs are gone.
StopParallel ==
    /\ \A c \in Core : at[c] = "idle"
    /\ par
    /\ par' = FALSE
    /\ direct' = [c \in Core |-> IF c = 0 THEN direct[0] ELSE {}]
    /\ UNCHANGED <<mem, trapVars, writeVars, save>>

-----------------------------------------------------------------------------
Writes(c) ==
    \/ \E S \in SUBSET Page : WriteBegin(c, S)
    \/ KeepTest(c)
    \/ KeepLocked(c)
    \/ \E v \in Value : StoreBytes(c, v)
    \/ \E p \in Page : Fill(c, p)
    \/ \E p \in Page, v \in Value : DirectWrite(c, p, v)

Next ==
    \/ \E c \in Core : Writes(c)
    \/ \E h \in Saves : SaveDeferred(h) \/ DropSave(h)
    \/ \E h \in Saves, to \in 1 .. P : Pump(h, to)
    \/ Restore
    \/ StartParallel
    \/ StopParallel

Spec == Init /\ [][Next]_vars

-----------------------------------------------------------------------------
\* The saves as SaveSpec sees them: an open save whose trap ended is void.
SpecSave ==
    [h \in Saves |->
        [state |-> IF save[h].state = "open" /\ save[h].epoch # epoch
                   THEN "void" ELSE save[h].state,
         page |-> save[h].page,
         image |-> save[h].image,
         out |-> save[h].out]]

Promise == INSTANCE SaveSpec WITH save <- SpecSave

\* The trap implements the promise: what pump gives, between any writes, is
\* the RAM of the instant save_deferred was called, a restore or a newer save
\* voids it, and a void save never completes.
Implements == Promise!Spec

\* trap_take never misses a page: until the save is void, a page it has not
\* given is trapped and unchanged, or kept.
UngivenSafe ==
    \A h \in Saves : save[h].state = "open" /\ save[h].epoch = epoch =>
        \A p \in save[h].page .. P - 1 : Taken(p) = save[h].image[p]

\* No bytes of a trapped page change: neither through a software TLB, nor by
\* a writer past before_write.
NoWriteUnderTrap ==
    \A c \in Core : /\ direct[c] \cap bits = {}
                    /\ (pages[c] \ todo[c]) \cap bits = {}

\* The trap is on only for an open save, and forgets nothing it should: kept
\* pages are pages no longer trapped, armed counts the bits.
TrapBalanced ==
    /\ armed = Cardinality(bits)
    /\ \A p \in bits : kept[p] = None
    /\ (\E p \in Page : p \in bits \/ kept[p] # None) =>
           \E h \in Saves : save[h].state = "open" /\ save[h].epoch = epoch

\* The trap does its work: no bytes of a trapped page change behind it, and
\* its bits and its kept pages are those of the save in progress.
TrapSafe == NoWriteUnderTrap /\ TrapBalanced
=============================================================================
