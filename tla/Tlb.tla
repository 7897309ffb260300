-------------------------------- MODULE Tlb --------------------------------
(***************************************************************************)
(* The translations a core keeps (vetro-mmu tlb.rs, mmu.rs): the software  *)
(* TLB, direct-mapped, with a generation for each slot and a log of its    *)
(* invalidations, and the cache of recent translations in front of it.     *)
(* The guest writes its tables and registers and invalidates as it likes.  *)
(* An address is a page number: two pages in each half of the space, where *)
(* a table maps both as one block or each as a page.                       *)
(***************************************************************************)
EXTENDS Naturals, Sequences, FiniteSets

CONSTANTS
    TlSpaces,   \* the guest's address spaces: a table for TTBR0 and an ASID
    TlUsed,     \* the pages it uses, among Addr
    TlSlots,    \* ENTRIES and RECENT
    TlLog,      \* LOG
    TlWrites,   \* bound on the changes of tables
    TlFlushes,  \* bound on the invalidations
    TlEpochs,   \* bound on the epochs of the recent cache
    TlGens,     \* bound on the generations of a slot that walks make
    TlNone,     \* no value
    TlAll       \* Inval::All

VARIABLES
    tlRegs,       \* the CPU's translation registers
    tlTables,     \* the guest's tables
    tlWritten,    \* how many times they were changed
    tlEntries,    \* Tlb::entries
    tlGens,       \* Tlb::gens
    tlFlushed,    \* Tlb::flushes
    tlLogged,     \* Tlb::log
    tlRecent,     \* Mmu::recent
    tlRecentRegs, \* Mmu::recent_regs
    tlEpoch       \* Mmu::recent_epoch

tlVars == <<tlRegs, tlTables, tlWritten, tlEntries, tlGens, tlFlushed, tlLogged,
            tlRecent, tlRecentRegs, tlEpoch>>

Addr == 0 .. 3

ASSUME TlSlotsAssumption == TlSlots \in Nat \ {0}
ASSUME TlUsedAssumption == TlUsed \subseteq Addr

Half(a) == a \div 2
Slots == 0 .. TlSlots - 1
Kernel == 0

\* Leaf descriptors: the user's (AP[1], nG) and the kernel's, of Device memory
\* where MAIR says so and read-only.
User == [pa |-> 0, ng |-> TRUE, may |-> {"r0", "w0", "r1", "w1"}, attr |-> 0]
System == [pa |-> 4, ng |-> FALSE, may |-> {"r1"}, attr |-> 1]
Leaves == {User, System}

Blocks(l) == [block |-> TRUE, leaf |-> [i \in 0 .. 1 |-> l]]
Paged(l, m) == [block |-> FALSE, leaf |-> [i \in 0 .. 1 |-> IF i = 0 THEN l ELSE m]]

\* slot.
SlotOf(a) == a % TlSlots

TableOf(regs, a) == IF Half(a) = 0 THEN regs.root ELSE Kernel

\* walk_tables and TlbEntry::new: the entry of a walk, TlNone for a fault.
Walk(tables, regs, a) ==
    LET t == tables[TableOf(regs, a)]
        l == t.leaf[a % 2]
    IN  IF l = TlNone THEN TlNone
        ELSE [base |-> IF t.block THEN 2 * Half(a) ELSE a, size |-> IF t.block THEN 2 ELSE 1,
              asid |-> regs.asid, global |-> ~l.ng, leaf |-> l]

\* TlbEntry::contains, and translation's pa.
Contains(e, a) == e.base <= a /\ a < e.base + e.size
Pa(e, a) == e.leaf.pa + (a - e.base)

\* Tlb::lookup.
Lookup(entries, regs, a) ==
    LET e == entries[SlotOf(a)]
    IN  IF e # TlNone /\ Contains(e, a) /\ (e.global \/ e.asid = regs.asid) THEN e ELSE TlNone

\* The entry translate_checked uses.
Entry(entries, tables, regs, a) ==
    LET e == Lookup(entries, regs, a) IN IF e = TlNone THEN Walk(tables, regs, a) ELSE e

\* check_device_alignment, check (Perms::allows).
IsDevice(leaf, regs) == leaf.attr = 1 /\ regs.device
Permits(leaf, device, rq) == (rq.aligned \/ ~device) /\ rq.access \in leaf.may

Requests == [access : {"r0", "w0", "r1", "w1"}, aligned : BOOLEAN]

\* One every leaf permits, and one that the kernel's refuse.
Asked == {[access |-> "r1", aligned |-> TRUE], [access |-> "w0", aligned |-> FALSE]}

\* translate_checked: the physical address, or TlNone for a fault.
Full(entries, tables, regs, a, rq) ==
    IF ~regs.on THEN IF rq.aligned THEN a ELSE TlNone
    ELSE LET e == Entry(entries, tables, regs, a)
         IN  IF e # TlNone /\ Permits(e.leaf, IsDevice(e.leaf, regs), rq) THEN Pa(e, a) ELSE TlNone

NoRecent == [page |-> TlNone, pa |-> 0, leaf |-> System, device |-> TRUE, epoch |-> 0, gen |-> 0]

\* MmuRegs::default, and the registers of a space.
NoRegs == [on |-> FALSE, device |-> FALSE, root |-> TlNone, asid |-> 0]
In(regs, space) == [regs EXCEPT !.root = space[1], !.asid = space[2]]

TlRoots == {space[1] : space \in TlSpaces}
TlAsids == {space[2] : space \in TlSpaces}

TlInit ==
    /\ \E space \in TlSpaces : tlRegs = In([NoRegs EXCEPT !.on = TRUE], space)
    /\ tlTables = [r \in TlRoots \cup {Kernel} |->
                     IF r = Kernel THEN Blocks(System) ELSE Paged(User, TlNone)]
    /\ tlWritten = 0
    /\ tlEntries = [s \in Slots |-> TlNone]
    /\ tlGens = [s \in Slots |-> 0]
    /\ tlFlushed = 0
    /\ tlLogged = [i \in 0 .. TlLog - 1 |-> TlAll]
    /\ tlRecent = [s \in Slots |-> NoRecent]
    /\ tlRecentRegs = NoRegs
    /\ tlEpoch = 1

-----------------------------------------------------------------------------
(* Tlb *)

\* note.
Note(i) ==
    /\ tlLogged' = [tlLogged EXCEPT ![tlFlushed % TlLog] = i]
    /\ tlFlushed' = tlFlushed + 1

\* tlbi of all notes twice: itself, then in flush_all.
NoteAll ==
    /\ tlLogged' = [tlLogged EXCEPT ![tlFlushed % TlLog] = TlAll, ![(tlFlushed + 1) % TlLog] = TlAll]
    /\ tlFlushed' = tlFlushed + 2

\* What the TLBI instructions remove; the "last level" and Inner Shareable
\* forms are the same here.
Covers(op, a, asid, e) ==
    CASE op = "vmalle1" -> TRUE
      [] op = "vae1" -> Contains(e, a) /\ (e.global \/ e.asid = asid)
      [] op = "aside1" -> ~e.global /\ e.asid = asid
      [] op = "vaae1" -> Contains(e, a)

\* Seeded fault: the slots keep their generations.
BumpedNone(gone) == tlGens

\* remove_if's and flush_all's generations.
Bumped(gone) == [s \in Slots |-> IF s \in gone THEN tlGens[s] + 1 ELSE tlGens[s]]

Remove(gone) == tlEntries' = [s \in Slots |-> IF s \in gone THEN TlNone ELSE tlEntries[s]]

\* The slots a TLBI empties.
Gone(op, a, asid) ==
    {s \in Slots : op = "vmalle1" \/ (tlEntries[s] # TlNone /\ Covers(op, a, asid, tlEntries[s]))}

Logs(op, a) ==
    CASE op \in {"vae1", "vaae1"} -> Note(a)
      [] op = "aside1" -> Note(TlAll)
      [] op = "vmalle1" -> NoteAll

Ops == {"vmalle1", "vae1", "aside1", "vaae1"}

\* tlbi.
Tlbi(op, a, asid) ==
    /\ tlFlushed < TlFlushes
    /\ Logs(op, a)
    /\ Remove(Gone(op, a, asid))
    /\ tlGens' = Bumped(Gone(op, a, asid))
    /\ UNCHANGED <<tlRegs, tlTables, tlWritten, tlRecent, tlRecentRegs, tlEpoch>>

\* MSR TTBR0 and MSR MAIR change no entry.
Msr(r) ==
    /\ r # tlRegs
    /\ tlRegs' = r
    /\ UNCHANGED <<tlTables, tlWritten, tlEntries, tlGens, tlFlushed, tlLogged, tlRecent,
                   tlRecentRegs, tlEpoch>>

\* MSR SCTLR flushes (regs.rs, flush_all).
MsrSctlr ==
    /\ tlFlushed < TlFlushes
    /\ tlRegs' = [tlRegs EXCEPT !.on = ~@]
    /\ Note(TlAll)
    /\ Remove(Slots)
    /\ tlGens' = Bumped(Slots)
    /\ UNCHANGED <<tlTables, tlWritten, tlRecent, tlRecentRegs, tlEpoch>>

\* The guest changes a table, and need not invalidate.
SetTable(r, t) ==
    /\ tlWritten < TlWrites
    /\ tlTables' = [tlTables EXCEPT ![r] = t]
    /\ tlWritten' = tlWritten + 1
    /\ UNCHANGED <<tlRegs, tlEntries, tlGens, tlFlushed, tlLogged, tlRecent, tlRecentRegs,
                   tlEpoch>>

-----------------------------------------------------------------------------
(* Mmu *)

\* MmuRegs::same, with the registers the recent cache was filled with.
SameRegs(r) == r = tlRecentRegs

\* translate_recent's fast path.
RecentHit(epoch, a, rq) ==
    LET r == tlRecent[SlotOf(a)]
    IN  /\ tlRegs.on
        /\ r.page = a /\ r.epoch = epoch /\ r.gen = tlGens[SlotOf(a)]
        /\ Permits(r.leaf, r.device, rq)

\* translate_pa_with: sync_recent, the recent cache, else the full path, which
\* keeps the entry of a walk even where the access faults, and translate_fill.
Translate(a, rq) ==
    LET epoch == IF SameRegs(tlRegs) THEN tlEpoch ELSE tlEpoch + 1
        s == SlotOf(a)
        found == Lookup(tlEntries, tlRegs, a)
        e == Entry(tlEntries, tlTables, tlRegs, a)
        insert == tlRegs.on /\ found = TlNone /\ e # TlNone
    IN  /\ epoch <= TlEpochs /\ tlGens[s] <= TlGens
        /\ tlEpoch' = epoch
        /\ tlRecentRegs' = IF SameRegs(tlRegs) THEN tlRecentRegs ELSE tlRegs
        /\ IF RecentHit(epoch, a, rq) THEN UNCHANGED <<tlEntries, tlGens, tlRecent>>
           ELSE /\ tlEntries' = IF insert THEN [tlEntries EXCEPT ![s] = e] ELSE tlEntries
                /\ tlGens' = IF insert THEN Bumped({s}) ELSE tlGens
                /\ tlRecent' =
                     IF tlRegs.on /\ Full(tlEntries, tlTables, tlRegs, a, rq) # TlNone
                     THEN [tlRecent EXCEPT ![s] =
                             [page |-> a, pa |-> Pa(e, a), leaf |-> e.leaf,
                              device |-> IsDevice(e.leaf, tlRegs), epoch |-> epoch,
                              gen |-> tlGens'[s]]]
                     ELSE tlRecent
        /\ UNCHANGED <<tlRegs, tlTables, tlWritten, tlFlushed, tlLogged>>

TlNext ==
    \/ \E op \in Ops, a \in TlUsed, asid \in TlAsids : Tlbi(op, a, asid)
    \/ \E space \in TlSpaces : Msr(In(tlRegs, space))
    \/ Msr([tlRegs EXCEPT !.device = ~@]) \/ MsrSctlr
    \/ \E r \in TlRoots, t \in {Blocks(User), Paged(System, User)} : SetTable(r, t)
    \/ \E a \in TlUsed, rq \in Asked : Translate(a, rq)

TlSpec == TlInit /\ [][TlNext]_tlVars

-----------------------------------------------------------------------------
\* The recent cache changes nothing observable: where it answers, the TLB has
\* the entry and the full path gives the same address (mmu.rs: "Result, fault
\* and TLB state after the call are identical to those of the full path").
RecentIsExact ==
    SameRegs(tlRegs) =>
        \A a \in Addr, rq \in Requests :
            RecentHit(tlEpoch, a, rq) =>
                /\ Lookup(tlEntries, tlRegs, a) # TlNone
                /\ tlRecent[SlotOf(a)].pa = Full(tlEntries, tlTables, tlRegs, a, rq)
=============================================================================
