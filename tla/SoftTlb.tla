------------------------------ MODULE SoftTlb ------------------------------
(***************************************************************************)
(* The JIT's software TLB (vetro-jit sys.rs): translations of data that    *)
(* its code looks up by itself, in groups by exception level and half of   *)
(* the address space.  SysJit::run brings them up to date with the TLB's   *)
(* log of invalidations (module Tlb) and with the table bases.  A copy     *)
(* carries where it comes from, and whether an invalidation has covered    *)
(* that since.  The MMU is on, and accesses are aligned.                   *)
(***************************************************************************)
EXTENDS Tlb

CONSTANTS
    StUsed,    \* the pages the guest uses, among Addr
    StMax,     \* TlbGroup::MAX
    StLive,    \* bound on the entries in use at once
    StFlushes  \* bound on the invalidations

VARIABLES
    stIn,       \* a SysJit::run is in progress
    stEl,       \* the exception level
    stCommon,   \* SysJit::common
    stFlushes,  \* SysJit::flushes
    stSoft,     \* the software TLB
    stGroups    \* Cache::groups

stRun == <<stIn, stEl, stCommon, stFlushes>>
stVars == <<stRun, stSoft, stGroups>>

\* The software TLB's tables by level and access, and the groups.
Index == (0 .. 1) \X {"r", "w"} \X Slots
Groups == (0 .. 1) \X (0 .. 1)
NoGroup == [key |-> TlNone, filled |-> <<>>, overflow |-> FALSE]

\* SCTLR, TCR and MAIR, of which MAIR changes.
Common == tlRegs.device

\* A table base without the ASID.
Key(regs, h) == IF h = 0 THEN regs.root ELSE Kernel

StInit ==
    /\ stIn = FALSE /\ stEl = 1
    /\ stCommon = TlNone /\ stFlushes = 0
    /\ stSoft = [i \in Index |-> TlNone]
    /\ stGroups = [g \in Groups |-> NoGroup]

-----------------------------------------------------------------------------
(* Copies of translations *)

Source(a) == Entry(tlEntries, tlTables, tlRegs, a)

Copy(a) ==
    [page |-> a, from |-> Source(a), key |-> Key(tlRegs, Half(a)), common |-> Common,
     dead |-> FALSE]

Fresh(c) == ~c.dead /\ c.key = Key(tlRegs, Half(c.page)) /\ c.common = Common

Access(el, rw) == CASE el = 0 /\ rw = "r" -> "r0" [] el = 0 /\ rw = "w" -> "w0"
                    [] el = 1 /\ rw = "r" -> "r1" [] el = 1 /\ rw = "w" -> "w1"

Translates(a, el, rw) ==
    Full(tlEntries, tlTables, tlRegs, a, [access |-> Access(el, rw), aligned |-> TRUE]) # TlNone

\* The MMU translates a: the entry of a walk enters the TLB.
Walked(a) ==
    /\ tlEntries' = IF Source(a) = TlNone THEN tlEntries
                    ELSE [tlEntries EXCEPT ![SlotOf(a)] = Source(a)]
    /\ UNCHANGED <<tlRegs, tlTables, tlWritten, tlGens, tlFlushed, tlLogged, tlRecent,
                   tlRecentRegs, tlEpoch>>

\* A TLBI between the runs, of this core or of another (Request::Tlbi).
Invalidated(op, a, asid) ==
    /\ ~stIn
    /\ tlFlushed < TlFlushes
    /\ Logs(op, a)
    /\ Remove(Gone(op, a, asid))
    /\ UNCHANGED <<tlRegs, tlTables, tlWritten, tlGens, tlRecent, tlRecentRegs, tlEpoch, stRun>>

Killed(op, a, asid, c) == [c EXCEPT !.dead = @ \/ Covers(op, a, asid, c.from)]

-----------------------------------------------------------------------------
(* Groups *)

\* TlbGroup::note.
Noted(g, i) ==
    IF g.overflow THEN g
    ELSE IF Len(g.filled) >= StMax THEN [g EXCEPT !.overflow = TRUE, !.filled = <<>>]
    ELSE [g EXCEPT !.filled = Append(@, i)]

IsWrite(i) == i[2] = "w"
IsRead(i) == ~IsWrite(i)

\* flush_group: the entries it empties, and what the group then is.
Emptied(g, writes) ==
    {i \in Index :
        /\ writes => IsWrite(i)
        /\ IF stGroups[g].overflow
           THEN i[1] = g[1] /\ stSoft[i] # TlNone /\ Half(stSoft[i].page) = g[2]
           ELSE \E j \in 1 .. Len(stGroups[g].filled) : stGroups[g].filled[j] = i}

\* Seeded fault: after a flush of the writes the count is taken as kept.
FlushedCounts(g, writes) ==
    [stGroups[g] EXCEPT
        !.filled = IF stGroups[g].overflow \/ ~writes THEN <<>> ELSE SelectSeq(@, IsRead),
        !.overflow = FALSE]

Flushed(g, writes) ==
    [stGroups[g] EXCEPT
        !.filled = IF stGroups[g].overflow \/ ~writes THEN <<>> ELSE SelectSeq(@, IsRead),
        !.overflow = @ /\ writes]

Without(gs, writes) ==
    [i \in Index |-> IF \E g \in gs : i \in Emptied(g, writes) THEN TlNone ELSE stSoft[i]]

\* sync_bases, after the groups gs and the entries also were emptied: so are the
\* groups of the current level that another base filled.
SyncBases(regs, gs, also) ==
    LET stale == gs \cup {g \in Groups : g[1] = stEl /\ stGroups[g].key # Key(regs, g[2])}
    IN  /\ stSoft' = [i \in Index |-> IF i \in also THEN TlNone ELSE Without(stale, FALSE)[i]]
        /\ stGroups' = [g \in Groups |->
             LET f == IF g \in stale THEN Flushed(g, FALSE) ELSE stGroups[g]
             IN  IF g[1] = stEl THEN [f EXCEPT !.key = Key(regs, g[2])] ELSE f]

\* flush_writes, for Request::Watch and the JIT's own pages of code.
StFlushWrites ==
    /\ stSoft' = Without(Groups, TRUE)
    /\ stGroups' = [g \in Groups |-> Flushed(g, TRUE)]
    /\ UNCHANGED <<tlVars, stRun>>

-----------------------------------------------------------------------------
(* SysJit::run *)

\* invalidations_since.
Remembered == tlFlushed - stFlushes <= TlLog
Since == {tlLogged[i % TlLog] : i \in stFlushes .. tlFlushed - 1}

\* Only TLBIs by VA, all of them in the log; or anything else that changed.
Partial == stCommon = Common /\ stFlushes # tlFlushed /\ Remembered /\ TlAll \notin Since
Changed == ~Partial /\ (stCommon # Common \/ stFlushes # tlFlushed)

\* A range of invalidate_ranges is as large as the largest block.
InRange(c) == \E a \in Since : Half(c.page) = Half(a)

\* sync_regime, all but the copies.
RunBegins ==
    /\ ~stIn
    /\ stIn' = TRUE
    /\ stCommon' = Common
    /\ stFlushes' = tlFlushed
    /\ UNCHANGED <<tlVars, stEl>>

\* invalidate_ranges and flush_tlb.
StBegin ==
    /\ RunBegins
    /\ \/ Partial /\ SyncBases(tlRegs, {}, {i \in Index : stSoft[i] # TlNone /\ InRange(stSoft[i])})
       \/ Changed /\ SyncBases(tlRegs, Groups, {})
       \/ ~Partial /\ ~Changed /\ SyncBases(tlRegs, {}, {})

StLeave == stIn /\ stIn' = FALSE /\ UNCHANGED <<tlVars, stEl, stCommon, stFlushes>>

\* An exception or ERET.
ChangeEl == ~stIn /\ stEl' = 1 - stEl /\ UNCHANGED <<tlVars, stIn, stCommon, stFlushes>>

\* MSR TTBR0 or MAIR, interpreted.
SetRegs(r) == ~stIn /\ stEl = 1 /\ Msr(r) /\ UNCHANGED stRun

\* A region's MSR TTBR0 (switch_regime).
Switch(space) ==
    /\ stIn /\ stEl = 1
    /\ Msr(In(tlRegs, space))
    /\ UNCHANGED stRun

\* utlb_ok.
UserTables == \A h \in 0 .. 1 : stGroups[<<0, h>>].key = Key(tlRegs, h)

\* A data access of translated code that misses: SysHost::ld and st, with the
\* permissions of EL0 for LDTR and STTR, and fill, which leaves out some writes.
StLoad(a, rw, unpriv) ==
    LET el == IF unpriv THEN 0 ELSE stEl
        i == <<el, rw, SlotOf(a)>>
        g == <<el, Half(a)>>
    IN  /\ stIn /\ (unpriv => stEl = 1)
        /\ ~((unpriv => UserTables) /\ stSoft[i] # TlNone /\ stSoft[i].page = a)
        /\ Cardinality({j \in Index \ {i} : stSoft[j] # TlNone}) < StLive
        /\ Walked(a)
        /\ \/ /\ Translates(a, el, rw) /\ (unpriv => UserTables)
              /\ stSoft' = [stSoft EXCEPT ![i] = Copy(a)]
              /\ stGroups' = [stGroups EXCEPT ![g] = Noted(@, i)]
              /\ UNCHANGED stIn
           \/ /\ Translates(a, el, rw) /\ ((unpriv /\ ~UserTables) \/ rw = "w")
              /\ UNCHANGED <<stIn, stSoft, stGroups>>
           \/ ~Translates(a, el, rw) /\ stIn' = FALSE /\ UNCHANGED <<stSoft, stGroups>>
        /\ UNCHANGED <<stEl, stCommon, stFlushes>>

\* The engine has no room left: reset.
StReset ==
    /\ stIn
    /\ stSoft' = [i \in Index |-> TlNone]
    /\ stGroups' = [g \in Groups |-> NoGroup]
    /\ UNCHANGED <<tlVars, stRun>>

Invalidate(op, a, asid) ==
    /\ tlFlushed < StFlushes
    /\ Invalidated(op, a, asid)
    /\ stSoft' = [i \in Index |->
         IF stSoft[i] = TlNone THEN TlNone ELSE Killed(op, a, asid, stSoft[i])]
    /\ UNCHANGED stGroups

StNext ==
    \/ StFlushWrites \/ StBegin \/ StReset
    \/ (StLeave \/ ChangeEl) /\ UNCHANGED <<stSoft, stGroups>>
    \/ \E space \in TlSpaces : Switch(space) /\ SyncBases(In(tlRegs, space), {}, {})
    \/ \E a \in StUsed, rw \in {"r", "w"}, unpriv \in BOOLEAN : StLoad(a, rw, unpriv)
    \/ \E op \in Ops, a \in StUsed, asid \in TlAsids : Invalidate(op, a, asid)
    \/ /\ \/ \E space \in TlSpaces : SetRegs(In(tlRegs, space))
          \/ SetRegs([tlRegs EXCEPT !.device = ~@])
       /\ UNCHANGED <<stSoft, stGroups>>

-----------------------------------------------------------------------------
\* The entries the running code finds.
Reads == {i \in Index : stSoft[i] # TlNone /\ (i[1] = stEl \/ (stEl = 1 /\ UserTables))}

\* No entry the running code finds was invalidated; each was made under the
\* current registers of its half, and permits what its table is for (sys.rs,
\* sync_regime: "entries become stale only if the guest changes the tables
\* without a TLBI").
SoftFresh ==
    stIn => \A i \in Reads : Fresh(stSoft[i]) /\ Access(i[1], i[2]) \in stSoft[i].from.leaf.may
=============================================================================
