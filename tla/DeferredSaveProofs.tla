------------------------- MODULE DeferredSaveProofs -------------------------
(***************************************************************************)
(* For every number of pages, cores, saves and epochs: the deferred save   *)
(* keeps its invariants, and implements SaveSpec.                          *)
(***************************************************************************)
EXTENDS DeferredSave, FiniteSetTheorems, TLAPS

\* A writer outside Ram::write holds no pages; with the cores in turns only
\* core 0 writes.
Writers ==
    /\ \A c \in Core : at[c] = "idle" => pages[c] = {}
    /\ ~par => \A c \in Core : c # 0 => at[c] = "idle" /\ direct[c] = {}

\* Saves have epochs of their own, none past the trap's; what they gave is the
\* image up to their page, and no page was missed.
SavesInv ==
    /\ \A h \in Saves : save[h].state # "none" => /\ save[h].epoch <= epoch
                                                  /\ save[h].image \in [Page -> Value]
    /\ \A g, h \in Saves : /\ save[g].state # "none"
                           /\ save[h].state # "none"
                           /\ save[g].epoch = save[h].epoch
                           => g = h
    /\ \A h \in Saves : save[h].state # "lost"
    /\ \A h \in Saves : save[h].state = "open" => save[h].page < P
    /\ \A h \in Saves : save[h].out =
           [p \in Page |-> IF p < save[h].page THEN save[h].image[p] ELSE None]

\* The inductive invariant.
IInv == TypeOK /\ NoWriteUnderTrap /\ TrapBalanced /\ Writers /\ SavesInv /\ UngivenSafe

-----------------------------------------------------------------------------
\* The set of pages is finite, and so is what is trapped.
LEMMA Finite ==
    ASSUME NEW S \in SUBSET Page
    PROVE  /\ IsFiniteSet(S)
           /\ Cardinality(S) \in 0 .. P
           /\ Cardinality(S) = 0 <=> S = {}
           /\ Cardinality(Page) = P
<1>1. IsFiniteSet(Page) /\ Cardinality(Page) = P
  BY PAssumption, FS_Interval DEF Page
<1>2. IsFiniteSet(S) /\ Cardinality(S) <= Cardinality(Page)
  BY <1>1, FS_Subset
<1>3. Cardinality(S) \in Nat
  BY <1>2, FS_CardinalityType
<1>4. Cardinality(S) = 0 <=> S = {}
  BY <1>2, FS_EmptySet
<1> QED
  BY <1>1, <1>2, <1>3, <1>4, PAssumption

\* What a pump takes off the trap.
LEMMA TakenOff ==
    ASSUME NEW S \in SUBSET Page, NEW T
    PROVE  Cardinality(S \ T) = Cardinality(S) - Cardinality(S \cap T)
<1>1. IsFiniteSet(S)
  BY Finite
<1> QED
  BY <1>1, FS_Difference

\* The initial values are of their types.
LEMMA Blank == Nothing \in [Page -> Maybe] /\ NoSave \in Save
<1>1. Nothing \in [Page -> Maybe]
  BY DEF Nothing, Maybe
<1>2. 0 \in 0 .. MaxEpoch /\ 0 \in 0 .. P
  BY PAssumption, MaxEpochAssumption
<1> QED
  BY <1>1, <1>2 DEF NoSave, Save

-----------------------------------------------------------------------------
\* Init: nothing is trapped, there is no save.
LEMMA InitIInv == Init => IInv
<1> SUFFICES ASSUME Init PROVE IInv
  OBVIOUS
<1> USE PAssumption, NAssumption, MaxEpochAssumption, NoneAssumption
<1>1. TypeOK
  <2>1. bits \in SUBSET Page /\ armed \in 0 .. P /\ epoch \in 0 .. MaxEpoch
    BY DEF Init
  <2>6. par \in BOOLEAN
    BY Zenon DEF Init
  <2>2. mem \in [Page -> Value] /\ kept \in [Page -> Maybe]
    BY Blank DEF Init
  <2>3. direct \in [Core -> SUBSET Page] /\ at \in [Core -> {"idle", "scan", "lock"}]
    BY DEF Init
  <2>4. pages \in [Core -> SUBSET Page] /\ todo \in [Core -> SUBSET Page]
    BY DEF Init
  <2>5. save \in [Saves -> Save]
    BY Blank DEF Init
  <2> QED
    BY <2>1, <2>2, <2>3, <2>4, <2>5, <2>6 DEF TypeOK
<1>2. NoWriteUnderTrap
  BY DEF Init, NoWriteUnderTrap
<1>3. TrapBalanced
  BY Finite DEF Init, TrapBalanced, Nothing
<1>4. Writers
  BY DEF Init, Writers
<1>5. SavesInv
  BY DEF Init, SavesInv, NoSave, Nothing, Page
<1>6. UngivenSafe
  BY DEF Init, UngivenSafe, NoSave
<1> QED
  BY <1>1, <1>2, <1>3, <1>4, <1>5, <1>6 DEF IInv

-----------------------------------------------------------------------------
(* The writers *)

\* No step of a writer but a store changes the RAM, none the saves: what is
\* left to show is the types, NoWriteUnderTrap, TrapBalanced and Writers.
LEMMA WriteBeginIInv ==
    ASSUME IInv, NEW c \in Core, NEW S \in SUBSET Page, WriteBegin(c, S)
    PROVE  IInv'
<1> USE DEF IInv, WriteBegin, Running, trapVars
<1>1. TypeOK'
  BY DEF TypeOK
<1>2. NoWriteUnderTrap'
  <2>1. armed = 0 => bits = {}
    BY Finite DEF TypeOK, TrapBalanced
  <2> QED
    BY <2>1 DEF NoWriteUnderTrap, TypeOK
<1>3. TrapBalanced'
  BY DEF TrapBalanced
<1>4. Writers'
  BY DEF Writers, TypeOK
<1>5. SavesInv' /\ UngivenSafe'
  BY DEF SavesInv, UngivenSafe, Taken
<1> QED
  BY <1>1, <1>2, <1>3, <1>4, <1>5

\* keep, the test of the page before the lock.
LEMMA KeepTestIInv ==
    ASSUME IInv, NEW c \in Core, KeepTest(c)
    PROVE  IInv'
<1> USE DEF IInv, KeepTest, trapVars
<1>1. TypeOK'
  BY DEF TypeOK
<1>2. NoWriteUnderTrap'
  BY DEF NoWriteUnderTrap, TypeOK
<1>3. TrapBalanced'
  BY DEF TrapBalanced
<1>4. Writers'
  BY DEF Writers, TypeOK
<1>5. SavesInv' /\ UngivenSafe'
  BY DEF SavesInv, UngivenSafe, Taken
<1> QED
  BY <1>1, <1>2, <1>3, <1>4, <1>5

\* A page kept leaves the trap with its bytes: Taken gives the same for it.
LEMMA KeepLockedIInv ==
    ASSUME IInv, NEW c \in Core, KeepLocked(c)
    PROVE  IInv'
<1> USE DEF IInv, KeepLocked
<1> DEFINE q == NextPage(c)
<1>1. CASE q \notin bits
  <2>1. TypeOK'
    BY <1>1 DEF TypeOK
  <2>2. NoWriteUnderTrap'
    BY <1>1 DEF NoWriteUnderTrap, TypeOK
  <2>3. TrapBalanced' /\ SavesInv' /\ UngivenSafe'
    BY <1>1 DEF TrapBalanced, SavesInv, UngivenSafe, Taken
  <2>4. Writers'
    BY <1>1 DEF Writers, TypeOK
  <2> QED
    BY <2>1, <2>2, <2>3, <2>4
<1>2. CASE q \in bits
  <2> q \in Page /\ kept \in [Page -> Maybe] /\ mem \in [Page -> Value] /\ bits \in SUBSET Page
    BY <1>2 DEF TypeOK
  <2>a. /\ kept' = [kept EXCEPT ![q] = mem[q]]
        /\ bits' = bits \ {q}
        /\ armed' = armed - 1
        /\ UNCHANGED <<mem, epoch, par, direct, pages, save>>
    BY <1>2
  <2>1. armed' = Cardinality(bits') /\ armed' \in 0 .. P
    <3>1. IsFiniteSet(bits) /\ bits' \in SUBSET Page
      BY <2>a, Finite
    <3>2. Cardinality(bits') = Cardinality(bits) - 1
      BY <1>2, <2>a, <3>1, FS_RemoveElement
    <3> QED
      BY <2>a, <3>1, <3>2, Finite DEF TrapBalanced
  <2>2. TypeOK'
    <3>1. kept' \in [Page -> Maybe]
      BY <2>a DEF Maybe
    <3> QED
      BY <2>a, <2>1, <3>1 DEF TypeOK
  <2>3. NoWriteUnderTrap'
    BY <2>a DEF NoWriteUnderTrap, TypeOK
  <2>4. TrapBalanced'
    BY <2>a, <2>1, <1>2 DEF TrapBalanced
  <2>5. Writers'
    BY <2>a DEF Writers, TypeOK
  <2>6. SavesInv'
    BY <2>a DEF SavesInv
  <2>7. UngivenSafe'
    <3>1. \A p \in Page : Taken(p)' = Taken(p)
      BY <2>a, <1>2 DEF Taken
    <3> QED
      BY <2>a, <3>1 DEF UngivenSafe, Page, TypeOK, Save
  <2> QED
    BY <2>2, <2>3, <2>4, <2>5, <2>6, <2>7
<1> QED
  BY <1>1, <1>2

\* The pages a store changes are not trapped, so Taken does not see it.
LEMMA StoreIInv ==
    ASSUME IInv, NEW c \in Core, NEW v \in Value, NEW S \in SUBSET Page, S \cap bits = {},
           mem' = [p \in Page |-> IF p \in S THEN v ELSE mem[p]],
           UNCHANGED <<trapVars, par, direct, todo, save>>,
           \/ UNCHANGED <<at, pages>>
           \/ /\ at' = [at EXCEPT ![c] = "idle"]
              /\ pages' = [pages EXCEPT ![c] = {}]
    PROVE  IInv'
<1> USE DEF IInv, trapVars
<1>1. TypeOK'
  BY DEF TypeOK
<1>2. NoWriteUnderTrap'
  BY DEF NoWriteUnderTrap, TypeOK
<1>3. TrapBalanced'
  BY DEF TrapBalanced
<1>4. Writers'
  BY DEF Writers, TypeOK
<1>5. SavesInv'
  BY DEF SavesInv
<1>6. UngivenSafe'
  <2>1. \A p \in Page : Taken(p)' = Taken(p)
    BY DEF Taken, TypeOK
  <2> QED
    BY <2>1 DEF UngivenSafe, Page, TypeOK, Save
<1> QED
  BY <1>1, <1>2, <1>3, <1>4, <1>5, <1>6

\* The store itself, after before_write.
LEMMA StoreBytesIInv ==
    ASSUME IInv, NEW c \in Core, NEW v \in Value, StoreBytes(c, v)
    PROVE  IInv'
<1>1. pages[c] \in SUBSET Page /\ pages[c] \cap bits = {}
  BY DEF IInv, TypeOK, NoWriteUnderTrap, StoreBytes
<1> QED
  BY <1>1, StoreIInv DEF StoreBytes

\* A store through the fast path, when no trap is armed.
LEMMA DirectWriteIInv ==
    ASSUME IInv, NEW c \in Core, NEW p \in Page, NEW v \in Value, DirectWrite(c, p, v)
    PROVE  IInv'
<1>1. {p} \in SUBSET Page /\ {p} \cap bits = {}
  BY DEF IInv, NoWriteUnderTrap, DirectWrite
<1>2. mem' = [q \in Page |-> IF q \in {p} THEN v ELSE mem[q]]
  BY DEF DirectWrite, IInv, TypeOK
<1> QED
  BY <1>1, <1>2, StoreIInv DEF DirectWrite, writeVars

\* fill asks the trap: a page it enters is not trapped.
LEMMA FillIInv ==
    ASSUME IInv, NEW c \in Core, NEW p \in Page, Fill(c, p)
    PROVE  IInv'
<1> USE DEF IInv, Fill, Running, trapVars, writeVars
<1>1. TypeOK'
  BY DEF TypeOK
<1>2. NoWriteUnderTrap'
  <2>1. p \notin bits
    BY Finite DEF Trapped, TypeOK, TrapBalanced
  <2> QED
    BY <2>1 DEF NoWriteUnderTrap, TypeOK
<1>3. TrapBalanced'
  BY DEF TrapBalanced
<1>4. Writers'
  BY DEF Writers, TypeOK
<1>5. SavesInv' /\ UngivenSafe'
  BY DEF SavesInv, UngivenSafe, Taken
<1> QED
  BY <1>1, <1>2, <1>3, <1>4, <1>5

-----------------------------------------------------------------------------
(* The machine's thread *)

\* Between two runs with the cores in turns, nobody is in Ram::write.
LEMMA Quiescent ==
    ASSUME IInv, Between, ~par
    PROVE  \A c \in Core : at[c] = "idle" /\ pages[c] = {} /\ (c # 0 => direct[c] = {})
BY DEF IInv, Between, Writers

\* save_deferred arms the trap with every core out of the guest.
LEMMA SaveDeferredIInv ==
    ASSUME IInv, NEW h \in Saves, SaveDeferred(h)
    PROVE  IInv'
<1> USE DEF IInv, SaveDeferred, writeVars
<1>0. \A c \in Core : at[c] = "idle" /\ pages[c] = {} /\ direct'[c] = {}
  BY Quiescent DEF TypeOK
<1>1. TypeOK'
  <2>1. epoch' \in 0 .. MaxEpoch
    BY MaxEpochAssumption DEF TypeOK
  <2>2. mem \in [Page -> Maybe] /\ 0 \in 0 .. P
    BY PAssumption DEF TypeOK, Maybe
  <2>3. [state |-> "open", epoch |-> epoch + 1, page |-> 0, image |-> mem, out |-> Nothing] \in Save
    BY <2>1, <2>2, Blank DEF Save
  <2>4. save' \in [Saves -> Save]
    BY <2>3 DEF TypeOK
  <2>5. bits' \in SUBSET Page /\ armed' \in 0 .. P /\ kept' \in [Page -> Maybe]
    BY Blank, PAssumption
  <2> QED
    BY <2>1, <2>4, <2>5 DEF TypeOK
<1>2. NoWriteUnderTrap'
  BY <1>0 DEF NoWriteUnderTrap
<1>3. TrapBalanced'
  <2>1. armed' = Cardinality(bits')
    BY Finite
  <2>2. \A p \in bits' : kept'[p] = None
    BY DEF Nothing
  <2>3. save'[h].state = "open" /\ save'[h].epoch = epoch'
    BY DEF TypeOK
  <2> QED
    BY <2>1, <2>2, <2>3 DEF TrapBalanced
<1>4. Writers'
  BY <1>0 DEF Writers
<1>5. SavesInv'
  <2> DEFINE new == [state |-> "open", epoch |-> epoch + 1, page |-> 0, image |-> mem, out |-> Nothing]
  <2>1. /\ save'[h] = new
        /\ \A g \in Saves \ {h} : save'[g] = save[g]
    BY DEF TypeOK
  <2>2. \A g \in Saves : save[g].state # "none" => save[g].epoch \in Nat /\ save[g].epoch < epoch'
    BY MaxEpochAssumption DEF SavesInv, TypeOK, Save
  <2>3. \A g \in Saves : save'[g].state # "none" => /\ save'[g].epoch <= epoch'
                                                    /\ save'[g].image \in [Page -> Value]
    BY <2>1, <2>2, MaxEpochAssumption DEF SavesInv, TypeOK
  <2>4. \A f, g \in Saves : /\ save'[f].state # "none"
                            /\ save'[g].state # "none"
                            /\ save'[f].epoch = save'[g].epoch
                            => f = g
    BY <2>1, <2>2 DEF SavesInv, TypeOK
  <2>5. \A g \in Saves : /\ save'[g].state # "lost"
                         /\ save'[g].state = "open" => save'[g].page < P
    BY <2>1, PAssumption DEF SavesInv
  <2>6. \A g \in Saves : save'[g].out =
           [p \in Page |-> IF p < save'[g].page THEN save'[g].image[p] ELSE None]
    <3>1. new.out = [p \in Page |-> IF p < new.page THEN new.image[p] ELSE None]
      BY PAssumption DEF Nothing, Page
    <3> SUFFICES ASSUME NEW g \in Saves
                 PROVE  save'[g].out =
                          [p \in Page |-> IF p < save'[g].page THEN save'[g].image[p] ELSE None]
      OBVIOUS
    <3>2. CASE g = h
      <4> HIDE DEF new
      <4> QED
        BY <2>1, <3>1, <3>2
    <3>3. CASE g # h
      <4>1. save'[g] = save[g]
        BY <2>1, <3>3
      <4>2. save[g].out =
              [p \in Page |-> IF p < save[g].page THEN save[g].image[p] ELSE None]
        BY DEF SavesInv
      <4> QED
        BY <4>1, <4>2
    <3> QED
      BY <3>2, <3>3
  <2> QED
    BY <2>3, <2>4, <2>5, <2>6 DEF SavesInv
<1>6. UngivenSafe'
  <2>1. \A g \in Saves : save'[g].state = "open" /\ save'[g].epoch = epoch' => g = h
    BY MaxEpochAssumption DEF TypeOK, SavesInv, Save
  <2>2. save'[h].image = mem /\ save'[h].page = 0
    BY DEF TypeOK
  <2>3. \A p \in Page : Taken(p)' = mem[p]
    BY DEF Taken
  <2> QED
    BY <2>1, <2>2, <2>3 DEF UngivenSafe, Page
<1> QED
  BY <1>1, <1>2, <1>3, <1>4, <1>5, <1>6

\* What a pump makes of its save: no page is missed, and those given are the
\* image's.
Given(h, to) ==
    [state |-> IF to = P THEN "done" ELSE "open",
     epoch |-> save[h].epoch,
     page |-> to,
     image |-> save[h].image,
     out |-> [p \in Page |-> IF p < to THEN save[h].image[p] ELSE None]]

\* pump gives pages the save still owes, with the bytes of its point.
LEMMA PumpGives ==
    ASSUME IInv, NEW h \in Saves, NEW to \in 1 .. P, Pump(h, to)
    PROVE  /\ save' = [save EXCEPT ![h] = Given(h, to)]
           /\ save[h].state = "open"
           /\ save[h].epoch = epoch
           /\ to \in save[h].page + 1 .. P
<1> USE DEF IInv
<1> DEFINE s == save[h]
           given == s.page .. to - 1
           lost == \E p \in given : Taken(p) = None
<1>1. /\ s.state = "open" /\ s.epoch = epoch /\ s.page \in Nat
      /\ to \in s.page + 1 .. P /\ s.image \in [Page -> Value]
      /\ given \subseteq Page
  <2>1. s.state = "open" /\ s.epoch = epoch /\ to \in s.page + 1 .. P
    BY DEF Pump
  <2>2. s \in Save
    BY DEF TypeOK
  <2>3. s.page \in Nat
    BY <2>2 DEF Save
  <2>4. s.image \in [Page -> Value]
    BY <2>1 DEF SavesInv
  <2>5. given \subseteq Page
    BY <2>1, <2>3, PAssumption DEF Page
  <2> QED
    BY <2>1, <2>3, <2>4, <2>5
<1>2. \A p \in given : Taken(p) = s.image[p]
  BY <1>1, PAssumption DEF UngivenSafe, Page
<1>3. ~lost
  BY <1>1, <1>2, NoneAssumption
<1>4. [p \in Page |-> IF p \in given THEN Taken(p) ELSE s.out[p]]
      = [p \in Page |-> IF p < to THEN s.image[p] ELSE None]
  <2>1. \A p \in Page : (IF p \in given THEN Taken(p) ELSE s.out[p])
                         = (IF p < to THEN s.image[p] ELSE None)
    <3> SUFFICES ASSUME NEW p \in Page
                 PROVE  (IF p \in given THEN Taken(p) ELSE s.out[p])
                         = (IF p < to THEN s.image[p] ELSE None)
      OBVIOUS
    <3>1. p \in Nat /\ to \in Nat
      BY PAssumption DEF Page
    <3>2. s.out[p] = IF p < s.page THEN s.image[p] ELSE None
      BY DEF SavesInv
    <3>3. p \in given <=> s.page <= p /\ p < to
      BY <1>1, <3>1
    <3> QED
      BY <1>1, <1>2, <3>1, <3>2, <3>3
  <2> QED
    BY <2>1
<1>5. save' = [save EXCEPT ![h] =
                 [state |-> IF lost THEN "lost" ELSE IF to = P THEN "done" ELSE "open",
                  epoch |-> s.epoch,
                  page |-> to,
                  image |-> s.image,
                  out |-> [p \in Page |-> IF p \in given THEN Taken(p) ELSE s.out[p]]]]
  BY DEF Pump, TypeOK
<1> HIDE DEF lost, given
<1> QED
  BY <1>1, <1>3, <1>4, <1>5 DEF Given

\* pump keeps the invariant.
LEMMA PumpIInv ==
    ASSUME IInv, NEW h \in Saves, NEW to \in 1 .. P, Pump(h, to)
    PROVE  IInv'
<1> USE DEF IInv
<1> DEFINE given == save[h].page .. to - 1
<1>1. /\ save' = [save EXCEPT ![h] = Given(h, to)]
      /\ save[h].state = "open"
      /\ save[h].epoch = epoch
      /\ to \in save[h].page + 1 .. P
      /\ save[h].page \in Nat
  BY PumpGives DEF TypeOK, Save
<1>2. UNCHANGED <<mem, epoch, par, direct, writeVars>>
  BY DEF Pump
<1>3. \/ to = P /\ bits' = {} /\ armed' = 0 /\ kept' = Nothing
      \/ /\ to # P
         /\ bits' = bits \ given
         /\ armed' = armed - Cardinality(bits \cap given)
         /\ kept' = [p \in Page |-> IF p \in given THEN None ELSE kept[p]]
  BY DEF Pump, Disarm
<1>4. bits' \in SUBSET bits /\ bits' \in SUBSET Page
  BY <1>3 DEF TypeOK
<1>5. armed' = Cardinality(bits') /\ armed' \in 0 .. P
  <2>1. CASE to = P
    BY <1>3, <2>1, <1>4, Finite
  <2>2. CASE to # P
    <3>1. Cardinality(bits') = Cardinality(bits) - Cardinality(bits \cap given)
      BY <1>3, <2>2, TakenOff DEF TypeOK
    <3> QED
      BY <1>3, <1>4, <2>2, <3>1, Finite DEF TrapBalanced
  <2> QED
    BY <2>1, <2>2
<1>6. TypeOK'
  <2>1. kept' \in [Page -> Maybe]
    BY <1>3, Blank DEF TypeOK, Maybe
  <2>2. Given(h, to) \in Save
    <3>1. save[h] \in Save
      BY DEF TypeOK
    <3>2. to \in 0 .. P
      BY PAssumption
    <3>3. [p \in Page |-> IF p < to THEN save[h].image[p] ELSE None] \in [Page -> Maybe]
      BY <3>1 DEF Save, Maybe
    <3> QED
      BY <3>1, <3>2, <3>3 DEF Given, Save
  <2>3. save' \in [Saves -> Save]
    BY <1>1, <2>2 DEF TypeOK
  <2> QED
    BY <1>2, <1>4, <1>5, <2>1, <2>3 DEF TypeOK, writeVars
<1>7. NoWriteUnderTrap'
  BY <1>2, <1>4 DEF NoWriteUnderTrap, writeVars
<1>8. \A g \in Saves : save'[g] = IF g = h THEN Given(h, to) ELSE save[g]
  BY <1>1 DEF TypeOK
<1>9. TrapBalanced'
  <2>1. \A p \in bits' : kept'[p] = None
    BY <1>3 DEF TrapBalanced, TypeOK
  <2>2. (\E p \in Page : p \in bits' \/ kept'[p] # None) => to # P
    BY <1>3 DEF Nothing
  <2>3. to # P => save'[h].state = "open" /\ save'[h].epoch = epoch'
    BY <1>1, <1>2, <1>8 DEF Given
  <2> QED
    BY <1>5, <2>1, <2>2, <2>3 DEF TrapBalanced
<1>10. Writers'
  BY <1>2 DEF Writers, writeVars
<1>11. SavesInv'
  <2>1. /\ Given(h, to).epoch = save[h].epoch /\ Given(h, to).image = save[h].image
        /\ Given(h, to).state \in {"open", "done"}
        /\ Given(h, to).page = to
        /\ Given(h, to).state = "open" => to # P
        /\ Given(h, to).out = [p \in Page |-> IF p < to THEN save[h].image[p] ELSE None]
    BY DEF Given
  <2>2. \A g \in Saves : save'[g].state # "none" =>
            save[g].state # "none" /\ save'[g].epoch = save[g].epoch /\ save'[g].image = save[g].image
    BY <1>1, <1>8, <2>1
  <2>3. \A g \in Saves : save'[g].state # "none" => /\ save'[g].epoch <= epoch'
                                                    /\ save'[g].image \in [Page -> Value]
    BY <1>2, <2>2 DEF SavesInv
  <2>4. \A f, g \in Saves : /\ save'[f].state # "none"
                            /\ save'[g].state # "none"
                            /\ save'[f].epoch = save'[g].epoch
                            => f = g
    BY <2>2 DEF SavesInv
  <2>5. \A g \in Saves : /\ save'[g].state # "lost"
                         /\ save'[g].state = "open" => save'[g].page < P
    BY <1>8, <2>1, PAssumption DEF SavesInv
  <2>6. \A g \in Saves : save'[g].out =
           [p \in Page |-> IF p < save'[g].page THEN save'[g].image[p] ELSE None]
    BY <1>8, <2>1 DEF SavesInv
  <2> QED
    BY <2>3, <2>4, <2>5, <2>6 DEF SavesInv
<1>12. UngivenSafe'
  <2> SUFFICES ASSUME NEW g \in Saves, save'[g].state = "open", save'[g].epoch = epoch,
                      NEW p \in save'[g].page .. P - 1
               PROVE  Taken(p)' = save'[g].image[p]
    BY <1>2 DEF UngivenSafe
  <2>1. g = h
    BY <1>1, <1>8 DEF SavesInv
  <2>2. to # P /\ p \in to .. P - 1 /\ save'[g].image = save[h].image
    <3>1. save'[g] = Given(h, to)
      BY <1>8, <2>1
    <3>2. Given(h, to).state = "open" => to # P
      BY DEF Given
    <3>3. Given(h, to).page = to /\ Given(h, to).image = save[h].image
      BY DEF Given
    <3> QED
      BY <3>1, <3>2, <3>3
  <2>3. p \in save[h].page .. P - 1 /\ p \notin given /\ p \in Page
    BY <1>1, <2>2, PAssumption DEF Page
  <2>4. Taken(p) = save[h].image[p]
    BY <1>1, <2>3 DEF UngivenSafe
  <2>5. Taken(p)' = Taken(p)
    BY <1>2, <1>3, <2>2, <2>3 DEF Taken
  <2> QED
    BY <2>2, <2>4, <2>5
<1> QED
  BY <1>6, <1>7, <1>9, <1>10, <1>11, <1>12

\* The save dropped held the trap, and then nobody holds it now, or it did not
\* and whoever holds it is another one.
LEMMA DropSaveIInv ==
    ASSUME IInv, NEW h \in Saves, DropSave(h)
    PROVE  IInv'
<1> USE DEF IInv
<1> DEFINE holds == save[h].state # "done" /\ save[h].epoch = epoch
<1>1. /\ save[h].state # "none"
      /\ save' = [save EXCEPT ![h] = NoSave]
      /\ UNCHANGED <<mem, epoch, par, direct, writeVars>>
  BY DEF DropSave
<1>2. \/ holds /\ bits' = {} /\ armed' = 0 /\ kept' = Nothing
      \/ ~holds /\ bits' = bits /\ armed' = armed /\ kept' = kept
  BY DEF DropSave, Disarm
<1>3. bits' \in SUBSET bits /\ bits' \in SUBSET Page
  BY <1>2 DEF TypeOK
<1>4. armed' = Cardinality(bits') /\ armed' \in 0 .. P
  BY <1>2, <1>3, Finite DEF TrapBalanced, TypeOK
<1>5. \A g \in Saves : save'[g] = IF g = h THEN NoSave ELSE save[g]
  BY <1>1 DEF TypeOK
<1>6. NoSave.state = "none" /\ NoSave.page = 0 /\ NoSave.out = Nothing
  BY DEF NoSave
<1>7. TypeOK'
  <2>1. kept' \in [Page -> Maybe]
    BY <1>2, Blank DEF TypeOK
  <2>2. save' \in [Saves -> Save]
    BY <1>1, Blank DEF TypeOK
  <2> QED
    BY <1>1, <1>3, <1>4, <2>1, <2>2 DEF TypeOK, writeVars
<1>8. NoWriteUnderTrap' /\ Writers'
  BY <1>1, <1>3 DEF NoWriteUnderTrap, Writers, writeVars
<1>9. TrapBalanced'
  <2>1. \A p \in bits' : kept'[p] = None
    BY <1>2 DEF TrapBalanced, Nothing
  <2>2. CASE holds
    BY <1>2, <1>4, <2>1, <2>2 DEF TrapBalanced, Nothing
  <2>3. CASE ~holds
    <3> SUFFICES ASSUME \E p \in Page : p \in bits \/ kept[p] # None
                 PROVE  \E g \in Saves : save'[g].state = "open" /\ save'[g].epoch = epoch'
      BY <1>2, <1>4, <2>1, <2>3 DEF TrapBalanced
    <3>1. PICK g \in Saves : save[g].state = "open" /\ save[g].epoch = epoch
      BY DEF TrapBalanced
    <3>2. g # h
      BY <2>3, <3>1
    <3> QED
      BY <1>1, <1>5, <3>1, <3>2
  <2> QED
    BY <2>2, <2>3
<1>10. SavesInv'
  <2>1. \A g \in Saves : save'[g].state # "none" => save'[g] = save[g]
    BY <1>5, <1>6
  <2>2. NoSave.out = [p \in Page |-> IF p < NoSave.page THEN NoSave.image[p] ELSE None]
    BY PAssumption DEF NoSave, Nothing, Page
  <2>3. \A g \in Saves : save'[g].out =
           [p \in Page |-> IF p < save'[g].page THEN save'[g].image[p] ELSE None]
    BY <1>5, <2>2 DEF SavesInv
  <2>4. \A g \in Saves : save'[g].state # "none" => /\ save'[g].epoch <= epoch'
                                                    /\ save'[g].image \in [Page -> Value]
    BY <1>1, <2>1 DEF SavesInv
  <2>5. \A f, g \in Saves : /\ save'[f].state # "none"
                            /\ save'[g].state # "none"
                            /\ save'[f].epoch = save'[g].epoch
                            => f = g
    <3> SUFFICES ASSUME NEW f \in Saves, NEW g \in Saves, save'[f].state # "none",
                        save'[g].state # "none", save'[f].epoch = save'[g].epoch
                 PROVE  f = g
      OBVIOUS
    <3>1. save'[f] = save[f] /\ save'[g] = save[g]
      BY <2>1
    <3> QED
      BY <3>1 DEF SavesInv
  <2>6. \A g \in Saves : /\ save'[g].state # "lost"
                         /\ save'[g].state = "open" => save'[g].page < P
    BY <1>5, <1>6 DEF SavesInv
  <2> QED
    BY <2>3, <2>4, <2>5, <2>6 DEF SavesInv
<1>11. UngivenSafe'
  <2> SUFFICES ASSUME NEW g \in Saves, save'[g].state = "open", save'[g].epoch = epoch,
                      NEW p \in save'[g].page .. P - 1
               PROVE  Taken(p)' = save'[g].image[p]
    BY <1>1 DEF UngivenSafe
  <2>1. g # h /\ save'[g] = save[g]
    BY <1>5, <1>6
  <2>2. ~holds
    BY <1>1, <2>1 DEF SavesInv
  <2>3. Taken(p)' = Taken(p)
    BY <1>1, <1>2, <2>2 DEF Taken
  <2> QED
    BY <2>1, <2>3 DEF UngivenSafe
<1> QED
  BY <1>7, <1>8, <1>9, <1>10, <1>11

\* A restore voids the open save: no save has the new epoch.
LEMMA RestoreIInv ==
    ASSUME IInv, Restore
    PROVE  IInv'
<1> USE DEF IInv, Restore, Disarm, writeVars
<1>1. epoch' \in 0 .. MaxEpoch /\ epoch \in Nat /\ epoch' = epoch + 1
  BY MaxEpochAssumption DEF TypeOK
<1>2. TypeOK'
  <2>1. bits' \in SUBSET Page /\ armed' \in 0 .. P /\ kept' \in [Page -> Maybe]
    BY Blank, PAssumption
  <2> QED
    BY <1>1, <2>1 DEF TypeOK
<1>3. NoWriteUnderTrap' /\ Writers'
  BY DEF NoWriteUnderTrap, Writers
<1>4. TrapBalanced'
  BY Finite DEF TrapBalanced, Nothing
<1>5. \A g \in Saves : save[g].state # "none" => save[g].epoch < epoch'
  BY <1>1 DEF SavesInv, TypeOK, Save
<1>6. SavesInv'
  BY <1>1, <1>5 DEF SavesInv, TypeOK, Save
<1>7. UngivenSafe'
  BY <1>5 DEF UngivenSafe, TypeOK, Save
<1> QED
  BY <1>2, <1>3, <1>4, <1>6, <1>7

\* The cores go in parallel or back in turns.
LEMMA SwitchIInv ==
    ASSUME IInv, StartParallel \/ StopParallel
    PROVE  IInv'
<1> USE DEF IInv, StartParallel, StopParallel, trapVars, writeVars
<1>1. TypeOK'
  <2>1. par' \in BOOLEAN
    BY Zenon
  <2>2. direct' \in [Core -> SUBSET Page]
    BY DEF TypeOK
  <2> QED
    BY <2>1, <2>2 DEF TypeOK
<1>2. NoWriteUnderTrap'
  BY DEF NoWriteUnderTrap
<1>3. Writers'
  BY DEF Writers
<1>4. TrapBalanced' /\ SavesInv' /\ UngivenSafe'
  BY DEF TrapBalanced, SavesInv, UngivenSafe, Taken
<1> QED
  BY <1>1, <1>2, <1>3, <1>4

\* Nothing happens.
LEMMA StutterIInv ==
    ASSUME IInv, UNCHANGED vars
    PROVE  IInv'
<1> USE DEF IInv, vars, trapVars, writeVars
<1>1. TypeOK' /\ NoWriteUnderTrap'
  BY DEF TypeOK, NoWriteUnderTrap
<1>2. TrapBalanced' /\ Writers'
  BY DEF TrapBalanced, Writers
<1>3. SavesInv'
  BY DEF SavesInv
<1>4. UngivenSafe'
  BY DEF UngivenSafe, Taken
<1> QED
  BY <1>1, <1>2, <1>3, <1>4

-----------------------------------------------------------------------------
\* Every step keeps the invariant: one lemma per action.
LEMMA NextIInv == IInv /\ [Next]_vars => IInv'
<1> SUFFICES ASSUME IInv, [Next]_vars PROVE IInv'
  OBVIOUS
<1>1. CASE \E c \in Core : Writes(c)
  BY <1>1, WriteBeginIInv, KeepTestIInv, KeepLockedIInv, StoreBytesIInv, FillIInv, DirectWriteIInv
     DEF Writes
<1>2. CASE \E h \in Saves : SaveDeferred(h) \/ DropSave(h)
  BY <1>2, SaveDeferredIInv, DropSaveIInv
<1>3. CASE \E h \in Saves, to \in 1 .. P : Pump(h, to)
  BY <1>3, PumpIInv
<1>4. CASE Restore
  BY <1>4, RestoreIInv
<1>5. CASE StartParallel \/ StopParallel
  BY <1>5, SwitchIInv
<1>6. CASE UNCHANGED vars
  BY <1>6, StutterIInv
<1> QED
  BY <1>1, <1>2, <1>3, <1>4, <1>5, <1>6 DEF Next

\* The inductive invariant holds in every reachable state, for every number of
\* pages, cores, saves and epochs.
THEOREM Invariance == Spec => []IInv
<1>1. Init => IInv
  BY InitIInv
<1>2. IInv /\ [Next]_vars => IInv'
  BY NextIInv
<1> QED
  BY <1>1, <1>2, PTL DEF Spec

\* Every variable keeps its type (board.rs Trap, machine/snapshot.rs
\* DeferredSave): armed never goes below zero, whoever clears the bits.
THEOREM TypeCorrect == Spec => []TypeOK
<1>1. IInv => TypeOK
  BY DEF IInv
<1> QED
  BY <1>1, Invariance, PTL

\* trap_take finds every page it has yet to give as it was when the save
\* started, whatever the writers, the software TLBs and the other saves do.
THEOREM UngivenSafety == Spec => []UngivenSafe
<1>1. IInv => UngivenSafe
  BY DEF IInv
<1> QED
  BY <1>1, Invariance, PTL

\* No bytes of a trapped page change behind the trap (before_write, fill).
THEOREM TrapSafety == Spec => []TrapSafe
<1>1. IInv => TrapSafe
  BY DEF IInv, TrapSafe
<1> QED
  BY <1>1, Invariance, PTL

-----------------------------------------------------------------------------
(* The refinement of SaveSpec *)

\* A save as SaveSpec sees it.
Seen(s, e) ==
    [state |-> IF s.state = "open" /\ s.epoch # e THEN "void" ELSE s.state,
     page |-> s.page,
     image |-> s.image,
     out |-> s.out]

\* The mapping of one save depends on that save, the memory and the epoch only.
LEMMA SpecSaveSeen ==
    /\ SpecSave = [h \in Saves |-> Seen(save[h], epoch)]
    /\ SpecSave' = [h \in Saves |-> Seen(save'[h], epoch')]
BY DEF SpecSave, Seen

\* A save that is not there maps to none.
LEMMA NoSaveSeen ==
    ASSUME NEW e
    PROVE  Seen(NoSave, e) = Promise!NoSave
BY DEF Seen, NoSave, Nothing, Page, Promise!NoSave, Promise!Nothing, Promise!Page

\* The machine starts where the promise does.
LEMMA InitRefines == Init => Promise!SpecInit
<1> SUFFICES ASSUME Init PROVE Promise!SpecInit
  OBVIOUS
<1>1. mem \in [Promise!Page -> Value]
  BY DEF Init, Page, Promise!Page
<1>2. SpecSave = [h \in Saves |-> Promise!NoSave]
  BY SpecSaveSeen, NoSaveSeen DEF Init
<1> QED
  BY <1>1, <1>2 DEF Promise!SpecInit

\* A step that leaves the saves and the epoch alone writes, or does nothing.
LEMMA WriteRefines ==
    ASSUME IInv', UNCHANGED <<save, epoch>>
    PROVE  Promise!SpecWrite
<1>1. mem' \in [Promise!Page -> Value]
  BY DEF IInv, TypeOK, Page, Promise!Page
<1>2. SpecSave' = SpecSave
  BY SpecSaveSeen
<1> QED
  BY <1>1, <1>2 DEF Promise!SpecWrite

\* No save is of an epoch that has not begun.
LEMMA EpochsPast ==
    ASSUME IInv, NEW g \in Saves, save[g].state = "open"
    PROVE  save[g].epoch # epoch + 1
<1>1. save[g] \in Save /\ epoch \in 0 .. MaxEpoch
  BY DEF IInv, TypeOK
<1>2. epoch \in Nat /\ save[g].epoch \in Nat
  BY <1>1, MaxEpochAssumption DEF Save
<1>3. save[g].epoch <= epoch
  BY DEF IInv, SavesInv
<1> QED
  BY <1>2, <1>3

\* save_deferred is the beginning of a save.
LEMMA BeginRefines ==
    ASSUME IInv, NEW h \in Saves, SaveDeferred(h)
    PROVE  Promise!SpecBegin(h)
<1> DEFINE new == [state |-> "open", page |-> 0, image |-> mem, out |-> Promise!Nothing]
<1>1. SpecSave[h].state = "none"
  BY SpecSaveSeen DEF SaveDeferred, Seen
<1>2. \A g \in Saves : Seen(save'[g], epoch') =
          IF g = h THEN new ELSE Promise!Void(SpecSave[g])
  <2> SUFFICES ASSUME NEW g \in Saves
               PROVE  Seen(save'[g], epoch') = IF g = h THEN new ELSE Promise!Void(SpecSave[g])
    OBVIOUS
  <2>1. CASE g = h
    <3>1. save'[g] = [state |-> "open", epoch |-> epoch', page |-> 0, image |-> mem, out |-> Nothing]
      BY <2>1 DEF SaveDeferred, IInv, TypeOK
    <3>2. Nothing = Promise!Nothing
      BY DEF Nothing, Page, Promise!Nothing, Promise!Page
    <3>3. /\ save'[g].state = "open" /\ save'[g].epoch = epoch' /\ save'[g].page = 0
          /\ save'[g].image = mem /\ save'[g].out = Promise!Nothing
      BY <3>1, <3>2
    <3>4. Seen(save'[g], epoch') = new
      BY <3>3 DEF Seen
    <3> QED
      BY <2>1, <3>4
  <2>2. CASE g # h
    <3>1. save'[g] = save[g]
      BY <2>2 DEF SaveDeferred, IInv, TypeOK
    <3>2. save[g].state = "open" => save[g].epoch # epoch'
      BY EpochsPast DEF SaveDeferred
    <3>3. SpecSave[g] = Seen(save[g], epoch)
      BY SpecSaveSeen
    <3> QED
      BY <2>2, <3>1, <3>2, <3>3 DEF Seen, Promise!Void
  <2> QED
    BY <2>1, <2>2
<1>3. SpecSave' = [g \in Saves |-> IF g = h THEN new ELSE Promise!Void(SpecSave[g])]
  BY <1>2, SpecSaveSeen
<1> QED
  BY <1>1, <1>3 DEF Promise!SpecBegin, SaveDeferred

\* pump gives pages of the point of the save.
LEMMA GiveRefines ==
    ASSUME IInv, NEW h \in Saves, NEW to \in 1 .. P, Pump(h, to)
    PROVE  Promise!SpecGive(h, to)
<1>1. /\ save' = [save EXCEPT ![h] = Given(h, to)]
      /\ save[h].state = "open"
      /\ save[h].epoch = epoch
      /\ to \in save[h].page + 1 .. P
  BY PumpGives
<1>2. mem' = mem /\ epoch' = epoch
  BY DEF Pump
<1>3. SpecSave[h] = [state |-> "open", page |-> save[h].page, image |-> save[h].image,
                     out |-> save[h].out]
  BY <1>1, SpecSaveSeen DEF Seen
<1> DEFINE new == [state |-> IF to = P THEN "done" ELSE "open",
                   page |-> to,
                   image |-> SpecSave[h].image,
                   out |-> [p \in Promise!Page |->
                              IF p < to THEN SpecSave[h].image[p] ELSE None]]
<1>4. Seen(Given(h, to), epoch) = new
  <2>1. Page = Promise!Page /\ SpecSave[h].image = save[h].image
    <3>1. Page = Promise!Page
      BY DEF Page, Promise!Page
    <3>2. SpecSave[h].image = save[h].image
      BY <1>3
    <3> QED
      BY <3>1, <3>2
  <2>2. /\ Given(h, to).state = new.state /\ Given(h, to).page = to
        /\ Given(h, to).epoch = epoch /\ Given(h, to).image = new.image
    BY <1>1, <2>1 DEF Given
  <2>3. Given(h, to).out = new.out
    BY <2>1 DEF Given
  <2> QED
    BY <2>2, <2>3 DEF Seen
<1>5. SpecSave' = [SpecSave EXCEPT ![h] = new]
  <2>1. SpecSave = [g \in Saves |-> Seen(save[g], epoch)]
    BY SpecSaveSeen
  <2>2. SpecSave' = [g \in Saves |-> Seen(save'[g], epoch)]
    BY SpecSaveSeen, <1>2
  <2>3. \A g \in Saves : save'[g] = IF g = h THEN Given(h, to) ELSE save[g]
    BY <1>1 DEF IInv, TypeOK
  <2> HIDE DEF new
  <2> QED
    BY <1>4, <2>1, <2>2, <2>3
<1> QED
  BY <1>1, <1>2, <1>3, <1>5 DEF Promise!SpecGive

\* Dropping a save ends it.
LEMMA DropRefines ==
    ASSUME IInv, NEW h \in Saves, DropSave(h)
    PROVE  Promise!SpecDrop(h)
<1>1. /\ save[h].state # "none"
      /\ save' = [save EXCEPT ![h] = NoSave]
      /\ mem' = mem /\ epoch' = epoch
  BY DEF DropSave
<1>2. SpecSave = [g \in Saves |-> Seen(save[g], epoch)]
  BY SpecSaveSeen
<1>3. SpecSave[h].state # "none"
  BY <1>1, <1>2 DEF Seen
<1>4. SpecSave' = [SpecSave EXCEPT ![h] = Promise!NoSave]
  <2>1. SpecSave' = [g \in Saves |-> Seen(save'[g], epoch)]
    BY SpecSaveSeen, <1>1
  <2>2. \A g \in Saves : save'[g] = IF g = h THEN NoSave ELSE save[g]
    BY <1>1 DEF IInv, TypeOK
  <2> QED
    BY <1>2, <2>1, <2>2, NoSaveSeen
<1> QED
  BY <1>1, <1>3, <1>4 DEF Promise!SpecDrop

\* A restore overwrites the memory and ends what was not given.
LEMMA RestoreRefines ==
    ASSUME IInv, IInv', Restore
    PROVE  Promise!SpecRestore
<1>1. mem' \in [Promise!Page -> Value]
  BY DEF IInv, TypeOK, Page, Promise!Page
<1>2. \A g \in Saves : Seen(save'[g], epoch') = Promise!Void(SpecSave[g])
  <2> SUFFICES ASSUME NEW g \in Saves
               PROVE  Seen(save'[g], epoch') = Promise!Void(SpecSave[g])
    OBVIOUS
  <2>1. save'[g] = save[g] /\ SpecSave[g] = Seen(save[g], epoch)
    BY SpecSaveSeen DEF Restore
  <2>2. save[g].state = "open" => save[g].epoch # epoch'
    BY EpochsPast DEF Restore
  <2> QED
    BY <2>1, <2>2 DEF Seen, Promise!Void
<1>3. SpecSave' = [g \in Saves |-> Promise!Void(SpecSave[g])]
  BY <1>2, SpecSaveSeen
<1> QED
  BY <1>1, <1>3 DEF Promise!SpecRestore

\* Every step is one of SaveSpec's, or changes nothing it sees.
LEMMA NextRefines ==
    IInv /\ IInv' /\ [Next]_vars => [Promise!SpecNext]_Promise!specVars
<1> SUFFICES ASSUME IInv, IInv', [Next]_vars
             PROVE  [Promise!SpecNext]_Promise!specVars
  OBVIOUS
<1>1. CASE UNCHANGED <<save, epoch>>
  BY <1>1, WriteRefines DEF Promise!SpecNext
<1>2. ASSUME NEW h \in Saves, SaveDeferred(h) \/ DropSave(h)
      PROVE  Promise!SpecNext
  BY <1>2, BeginRefines, DropRefines DEF Promise!SpecNext
<1>3. ASSUME NEW h \in Saves, NEW to \in 1 .. P, Pump(h, to)
      PROVE  Promise!SpecNext
  BY <1>3, GiveRefines DEF Promise!SpecNext
<1>4. CASE Restore
  BY <1>4, RestoreRefines DEF Promise!SpecNext
<1>5. CASE (\E c \in Core : Writes(c)) \/ StartParallel \/ StopParallel \/ UNCHANGED vars
  <2>1. UNCHANGED <<save, epoch>>
    BY <1>5 DEF Writes, WriteBegin, KeepTest, KeepLocked, StoreBytes, Fill, DirectWrite,
                StartParallel, StopParallel, vars, trapVars, writeVars
  <2> QED
    BY <1>1, <2>1
<1> QED
  BY <1>2, <1>3, <1>4, <1>5 DEF Next

\* The write trap and the pump implement the promise of save_deferred: the
\* pages given are those of the instant the save started, in order; a restore
\* or a newer save voids it.
THEOREM Refinement == Spec => Implements
<1>1. Init => Promise!SpecInit
  BY InitRefines
<1>2. IInv /\ IInv' /\ [Next]_vars => [Promise!SpecNext]_Promise!specVars
  BY NextRefines
<1> QED
  BY <1>1, <1>2, Invariance, PTL DEF Spec, Implements, Promise!Spec
=============================================================================
