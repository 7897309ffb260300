----------------------------- MODULE TlbProofs -----------------------------
(***************************************************************************)
(* The cache of recent translations answers as the full path does, for any *)
(* number of slots, any address spaces and any number of invalidations.    *)
(***************************************************************************)
EXTENDS Tlb, TLAPS

\* Slot s is where the recent translation r comes from, and still holds it.
Backed(s, r, e, regs) ==
    /\ e # TlNone
    /\ Contains(e, r.page)
    /\ e.global \/ e.asid = regs.asid
    /\ r.pa = Pa(e, r.page)
    /\ r.leaf = e.leaf
    /\ r.device = IsDevice(e.leaf, regs)

\* A recent translation of the current epoch and generation is backed; none is
\* of a later epoch or generation.
RecentBacked ==
    \A s \in Slots :
        /\ tlRecent[s].epoch \in Nat /\ tlRecent[s].epoch <= tlEpoch
        /\ tlRecent[s].gen \in Nat /\ tlRecent[s].gen <= tlGens[s]
        /\ tlRecent[s].epoch = tlEpoch /\ tlRecent[s].gen = tlGens[s]
              => Backed(s, tlRecent[s], tlEntries[s], tlRecentRegs)

TlIInv ==
    /\ tlEpoch \in Nat \ {0}
    /\ tlGens \in [Slots -> Nat]
    /\ tlEntries = [s \in Slots |-> tlEntries[s]]
    /\ tlRecent = [s \in Slots |-> tlRecent[s]]
    /\ RecentBacked

-----------------------------------------------------------------------------
\* Every address has a slot.
LEMMA SlotsOfAddr == \A a \in Addr : SlotOf(a) \in Slots
BY TlSlotsAssumption DEF Addr, SlotOf, Slots

\* The entry of a walk covers the address it is for (TlbEntry::new).
LEMMA WalkContains ==
    ASSUME NEW a \in Addr, NEW tables, NEW regs, Walk(tables, regs, a) # TlNone
    PROVE  /\ Contains(Walk(tables, regs, a), a)
           /\ Walk(tables, regs, a).asid = regs.asid
<1>1. 2 * Half(a) <= a /\ a < 2 * Half(a) + 2 /\ a <= a /\ a < a + 1
  BY DEF Addr, Half
<1>2. QED  BY <1>1 DEF Walk, Contains

\* Lookup returns what is in the slot, for this address and ASID.
LEMMA LookupFinds ==
    ASSUME NEW entries, NEW regs, NEW a, Lookup(entries, regs, a) # TlNone
    PROVE  /\ Lookup(entries, regs, a) = entries[SlotOf(a)]
           /\ Contains(entries[SlotOf(a)], a)
           /\ entries[SlotOf(a)].global \/ entries[SlotOf(a)].asid = regs.asid
BY DEF Lookup

-----------------------------------------------------------------------------
\* Nothing is remembered at the start.
LEMMA InitBacked == TlInit => TlIInv
BY DEF TlInit, TlIInv, RecentBacked, NoRecent

\* Emptying slots bumps their generations: what was recent in them no longer
\* matches, and the other slots keep theirs (remove_if, flush_all).
LEMMA EmptiedBacked ==
    ASSUME TlIInv, NEW gone, Remove(gone), tlGens' = Bumped(gone),
           UNCHANGED <<tlRecent, tlRecentRegs, tlEpoch>>
    PROVE  TlIInv'
<1>1. /\ tlGens' = [s \in Slots |-> IF s \in gone THEN tlGens[s] + 1 ELSE tlGens[s]]
      /\ tlEntries' = [s \in Slots |-> IF s \in gone THEN TlNone ELSE tlEntries[s]]
  BY DEF Remove, Bumped
<1>2. tlGens' \in [Slots -> Nat]
  BY <1>1 DEF TlIInv
<1>3. RecentBacked'
  <2> SUFFICES ASSUME NEW s \in Slots
               PROVE  /\ tlRecent[s].epoch \in Nat /\ tlRecent[s].epoch <= tlEpoch
                      /\ tlRecent[s].gen \in Nat /\ tlRecent[s].gen <= tlGens'[s]
                      /\ tlRecent[s].epoch = tlEpoch /\ tlRecent[s].gen = tlGens'[s]
                            => Backed(s, tlRecent[s], tlEntries'[s], tlRecentRegs)
    BY DEF RecentBacked
  <2>1. CASE s \in gone
    BY <1>1, <2>1 DEF TlIInv, RecentBacked
  <2>2. CASE s \notin gone
    BY <1>1, <2>2 DEF TlIInv, RecentBacked
  <2>3. QED  BY <2>1, <2>2
<1>4. QED  BY <1>1, <1>2, <1>3 DEF TlIInv

\* A translation, through the fast path or the full one (translate_pa_with).
LEMMA TranslateBacked ==
    ASSUME TlIInv, NEW a \in Addr, NEW rq, Translate(a, rq)
    PROVE  TlIInv'
<1> DEFINE epoch == IF SameRegs(tlRegs) THEN tlEpoch ELSE tlEpoch + 1
           i == SlotOf(a)
           found == Lookup(tlEntries, tlRegs, a)
           e == Entry(tlEntries, tlTables, tlRegs, a)
           insert == tlRegs.on /\ found = TlNone /\ e # TlNone
           new == [page |-> a, pa |-> Pa(e, a), leaf |-> e.leaf,
                   device |-> IsDevice(e.leaf, tlRegs), epoch |-> epoch, gen |-> tlGens'[i]]
           full == tlRegs.on /\ Full(tlEntries, tlTables, tlRegs, a, rq) # TlNone
<1>1. i \in Slots
  BY SlotsOfAddr
<1>2. /\ tlEpoch' = epoch
      /\ tlRecentRegs' = tlRegs
  BY DEF Translate, SameRegs
<1>3. /\ epoch \in Nat \ {0} /\ tlEpoch <= epoch
      /\ epoch = tlEpoch => tlRecentRegs = tlRegs
  BY DEF TlIInv, SameRegs
<1>4. CASE RecentHit(epoch, a, rq)
  <2>1. UNCHANGED <<tlEntries, tlGens, tlRecent>>
    BY <1>4 DEF Translate
  <2>2. RecentBacked'
    <3> SUFFICES ASSUME NEW s \in Slots
                 PROVE  /\ tlRecent[s].epoch \in Nat /\ tlRecent[s].epoch <= epoch
                        /\ tlRecent[s].gen \in Nat /\ tlRecent[s].gen <= tlGens[s]
                        /\ tlRecent[s].epoch = epoch /\ tlRecent[s].gen = tlGens[s]
                              => Backed(s, tlRecent[s], tlEntries[s], tlRegs)
      BY <1>2, <2>1 DEF RecentBacked
    <3> QED  BY <1>3 DEF TlIInv, RecentBacked
  <2>3. QED  BY <1>2, <1>3, <2>1, <2>2 DEF TlIInv
<1>5. CASE ~RecentHit(epoch, a, rq)
  <2>1. /\ tlEntries' = IF insert THEN [tlEntries EXCEPT ![i] = e] ELSE tlEntries
        /\ tlGens' = IF insert THEN Bumped({i}) ELSE tlGens
        /\ tlRecent' = IF full THEN [tlRecent EXCEPT ![i] = new] ELSE tlRecent
    BY <1>5 DEF Translate
  <2>2. /\ tlGens' \in [Slots -> Nat]
        /\ \A s \in Slots : tlGens'[s] = IF insert /\ s = i THEN tlGens[s] + 1 ELSE tlGens[s]
    BY <2>1 DEF Bumped, TlIInv
  <2>3. /\ tlEntries' = [s \in Slots |-> tlEntries'[s]]
        /\ \A s \in Slots : tlEntries'[s] = IF insert /\ s = i THEN e ELSE tlEntries[s]
    BY <1>1, <2>1 DEF TlIInv
  <2>4. /\ tlRecent' = [s \in Slots |-> tlRecent'[s]]
        /\ \A s \in Slots : tlRecent'[s] = IF full /\ s = i THEN new ELSE tlRecent[s]
    BY <1>1, <2>1 DEF TlIInv
  <2>5. full => Backed(i, new, tlEntries'[i], tlRegs)
    <3> HAVE full
    <3>1. e # TlNone
      BY DEF Full
    <3>2. CASE insert
      <4>1. e = Walk(tlTables, tlRegs, a)
        BY <3>2 DEF Entry
      <4>2. Contains(e, a) /\ e.asid = tlRegs.asid
        BY <3>1, <4>1, WalkContains
      <4>3. QED  BY <1>1, <2>3, <3>1, <3>2, <4>2 DEF Backed
    <3>3. CASE ~insert
      <4>1. found # TlNone /\ e = found
        BY <3>1, <3>3 DEF Entry
      <4>2. e = tlEntries[i] /\ Contains(e, a) /\ (e.global \/ e.asid = tlRegs.asid)
        BY <4>1, LookupFinds
      <4>3. QED  BY <1>1, <2>3, <3>1, <3>3, <4>2 DEF Backed
    <3>4. QED  BY <3>2, <3>3
  <2>6. RecentBacked'
    <3> SUFFICES ASSUME NEW s \in Slots
                 PROVE  /\ tlRecent'[s].epoch \in Nat /\ tlRecent'[s].epoch <= epoch
                        /\ tlRecent'[s].gen \in Nat /\ tlRecent'[s].gen <= tlGens'[s]
                        /\ tlRecent'[s].epoch = epoch /\ tlRecent'[s].gen = tlGens'[s]
                              => Backed(s, tlRecent'[s], tlEntries'[s], tlRegs)
      BY <1>2 DEF RecentBacked
    <3>1. CASE full /\ s = i
      <4>1. tlRecent'[s] = new /\ tlGens'[s] \in Nat
        BY <2>2, <2>4, <3>1
      <4>2. new.epoch = epoch /\ new.gen = tlGens'[i]
        OBVIOUS
      <4>3. QED  BY <1>3, <2>5, <3>1, <4>1, <4>2
    <3>2. CASE ~(full /\ s = i)
      <4>1. tlRecent'[s] = tlRecent[s]
        BY <2>4, <3>2
      <4>2. CASE insert /\ s = i
        BY <1>3, <2>2, <4>1, <4>2 DEF TlIInv, RecentBacked
      <4>3. CASE ~(insert /\ s = i)
        BY <1>3, <2>2, <2>3, <4>1, <4>3 DEF TlIInv, RecentBacked
      <4>4. QED  BY <4>2, <4>3
    <3>3. QED  BY <3>1, <3>2
  <2>7. QED  BY <1>2, <1>3, <2>2, <2>3, <2>4, <2>6 DEF TlIInv
<1>6. QED  BY <1>4, <1>5

\* Every step keeps what is remembered backed by the TLB.
LEMMA NextBacked == TlIInv /\ [TlNext]_tlVars => TlIInv'
<1> SUFFICES ASSUME TlIInv, [TlNext]_tlVars PROVE TlIInv'
  OBVIOUS
<1>1. ASSUME NEW op \in Ops, NEW a \in TlUsed, NEW asid \in TlAsids, Tlbi(op, a, asid)
      PROVE  TlIInv'
  BY <1>1, EmptiedBacked DEF Tlbi
<1>2. ASSUME NEW r, Msr(r) PROVE TlIInv'
  BY <1>2 DEF Msr, TlIInv, RecentBacked
<1>3. CASE MsrSctlr
  BY <1>3, EmptiedBacked DEF MsrSctlr
<1>4. ASSUME NEW r, NEW t, SetTable(r, t) PROVE TlIInv'
  BY <1>4 DEF SetTable, TlIInv, RecentBacked
<1>5. ASSUME NEW a \in TlUsed, NEW rq \in Asked, Translate(a, rq) PROVE TlIInv'
  <2>1. a \in Addr
    BY TlUsedAssumption
  <2>2. QED  BY <1>5, <2>1, TranslateBacked
<1>6. CASE UNCHANGED tlVars
  BY <1>6 DEF tlVars, TlIInv, RecentBacked
<1>7. QED  BY <1>1, <1>2, <1>3, <1>4, <1>5, <1>6 DEF TlNext

-----------------------------------------------------------------------------
\* A hit of translate_recent is what the full path gives.
LEMMA BackedIsExact == TlIInv => RecentIsExact
<1> SUFFICES ASSUME TlIInv, SameRegs(tlRegs), NEW a \in Addr, NEW rq \in Requests,
                    RecentHit(tlEpoch, a, rq)
             PROVE  /\ Lookup(tlEntries, tlRegs, a) # TlNone
                    /\ tlRecent[SlotOf(a)].pa = Full(tlEntries, tlTables, tlRegs, a, rq)
  BY DEF RecentIsExact
<1> DEFINE i == SlotOf(a)
           r == tlRecent[i]
           e == tlEntries[i]
<1>1. i \in Slots
  BY SlotsOfAddr
<1>2. tlRegs.on /\ r.page = a /\ r.epoch = tlEpoch /\ r.gen = tlGens[i]
      /\ Permits(r.leaf, r.device, rq)
  BY DEF RecentHit
<1>3. Backed(i, r, e, tlRegs)
  BY <1>1, <1>2 DEF TlIInv, RecentBacked, SameRegs
<1>4. Lookup(tlEntries, tlRegs, a) = e /\ e # TlNone
  BY <1>2, <1>3 DEF Backed, Lookup
<1>5. Entry(tlEntries, tlTables, tlRegs, a) = e
  BY <1>4 DEF Entry
<1>6. Permits(e.leaf, IsDevice(e.leaf, tlRegs), rq) /\ r.pa = Pa(e, a)
  BY <1>2, <1>3 DEF Backed
<1>7. QED  BY <1>2, <1>4, <1>5, <1>6 DEF Full

\* The inductive invariant of the TLB and the recent cache.
THEOREM Invariance == TlSpec => []TlIInv
BY InitBacked, NextBacked, PTL DEF TlSpec

\* translate_pa_with is observably translate_checked: "Result, fault and TLB
\* state after the call are identical to those of the full path" (mmu.rs).
THEOREM RecentExactness == TlSpec => []RecentIsExact
BY Invariance, BackedIsExact, PTL
=============================================================================
