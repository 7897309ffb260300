----------------------------- MODULE GicProofs -----------------------------
(***************************************************************************)
(* The interrupt controller, for every number of cores, all priorities and *)
(* any number of raises: the lines the cores read without the board's      *)
(* lock are the lines of the GIC, and handlers nest by priority on a core  *)
(* and exclude each other across cores.                                    *)
(***************************************************************************)
EXTENDS Gic, SequenceTheorems, TLAPS

GicSpec == GicInit /\ [][GicNext]_gicVars

-----------------------------------------------------------------------------
(* The cached lines.                                                       *)

CacheTypeOK == qCache \in [GicCores -> {"unknown", "low", "high"}]

CacheInv == CacheTypeOK /\ GicCacheFresh

\* Board::lines_changed is right about the state it is called on.
LEMMA Recomputed ==
    ASSUME qCache' = LinesChanged(qIrq', qCpu', qPar')
    PROVE  CacheInv'
<1>1. \A c \in GicCores : qCache'[c] = IF ~qPar' THEN "unknown"
                                       ELSE IF IrqLineOf(qIrq', qCpu', c) THEN "high" ELSE "low"
  BY DEF LinesChanged
<1>2. CacheTypeOK'
  BY DEF CacheTypeOK, LinesChanged
<1>3. GicCacheFresh'
  BY <1>1 DEF GicCacheFresh
<1> QED
  BY <1>2, <1>3 DEF CacheInv

\* Env::irq_line stores the line it computed.
LEMMA Looked ==
    ASSUME CacheInv, NEW c \in GicCores, qCache' = CacheLine(c), UNCHANGED <<qIrq, qCpu, qPar>>
    PROVE  CacheInv'
<1>1. CacheTypeOK'
  BY DEF CacheInv, CacheTypeOK, CacheLine
<1>2. CoreLine(c) <=> IrqLineOf(qIrq, qCpu, c)
  BY DEF CacheInv, CacheTypeOK, GicCacheFresh, CoreLine
<1>3. \A d \in GicCores : qCache'[d] = IF d = c THEN (IF CoreLine(c) THEN "high" ELSE "low") ELSE qCache[d]
  BY DEF CacheInv, CacheTypeOK, CacheLine
<1>4. GicCacheFresh'
  BY <1>2, <1>3 DEF CacheInv, GicCacheFresh
<1> QED
  BY <1>1, <1>4 DEF CacheInv

\* Nothing is pending at reset.
LEMMA InitCache == GicInit => CacheInv
<1> SUFFICES ASSUME NEW t \in GicTriggers, NEW p \in GicPrios, NEW par \in BOOLEAN,
                    NEW split \in BOOLEAN, GicInitAs(t, p, par, split)
             PROVE  CacheInv
  BY DEF GicInit
<1>1. ASSUME NEW c \in GicCores PROVE ~IrqLineOf(qIrq, qCpu, c)
  <2>1. \A i \in Intids : ~Eligible(qIrq, c, i)
    <3> SUFFICES ASSUME NEW i \in Intids PROVE ~Eligible(qIrq, c, i)
      OBVIOUS
    <3>1. Bank(c, i) \in Banks
      BY DEF Banks
    <3>2. ~qIrq[Bank(c, i)].pending /\ ~qIrq[Bank(c, i)].level
      BY <3>1 DEF GicInitAs
    <3> QED
      BY <3>2 DEF Eligible, IsPending
  <2>2. HighestPending(qIrq, c) = NoIrq
    BY <2>1 DEF HighestPending
  <2> QED
    BY <2>2 DEF IrqLineOf, Deliverable
<1>2. qCache = [c \in GicCores |-> IF par THEN "low" ELSE "unknown"] /\ qPar = par
  BY DEF GicInitAs
<1> QED
  BY <1>1, <1>2 DEF CacheInv, CacheTypeOK, GicCacheFresh

\* An access ends with the lines recomputed, at once or when irq_dirty is seen.
LEMMA TouchedRecomputes ==
    ASSUME NEW irqs, NEW cpus, NEW stat, NEW timer, Touched(irqs, cpus, stat, timer), UNCHANGED qPar
    PROVE  qCache' = LinesChanged(qIrq', qCpu', qPar')
BY DEF Touched, UpdateIrqs

\* What changes the GIC recomputes the lines; what looks at a line stores it.
LEMMA NextCache == ASSUME CacheInv, [GicNext]_gicVars PROVE CacheInv'
<1>1. CASE UNCHANGED gicVars
  BY <1>1 DEF gicVars, CacheInv, CacheTypeOK, GicCacheFresh
<1>2. CASE SyncIrqs \/ (\E b \in qBits : DeviceRaises(b)) \/ (\E c \in GicCores : TimerFires(c))
  <2>1. qCache' = LinesChanged(qIrq', qCpu', qPar')
    BY <1>2 DEF SyncIrqs, DeviceRaises, TimerFires, UpdateIrqs
  <2> QED
    BY <2>1, Recomputed
<1>3. CASE GoParallel \/ GoTurns \/ \E c \in GicCores : SwitchTurn(c)
  <2>1. qCache' = LinesChanged(qIrq', qCpu', qPar')
    BY <1>3 DEF GoParallel, GoTurns, SwitchTurn, UpdateIrqs
  <2> QED
    BY <2>1, Recomputed
<1>4. ASSUME NEW c \in GicCores, LookLine(c) \/ TakeInterrupt(c) PROVE CacheInv'
  BY <1>4, Looked DEF LookLine, TakeInterrupt
<1>5. ASSUME NEW c \in GicCores, ReadIar1(c) PROVE CacheInv'
  <2>1. qCache' = LinesChanged(qIrq', qCpu', qPar')
    BY <1>5 DEF ReadIar1
  <2> QED
    BY <2>1, Recomputed
<1>6. ASSUME NEW c \in GicCores, StopTimer(c) \/ EndInterrupt(c) \/ DeactivateInterrupt(c)
      PROVE  CacheInv'
  <2>1. qCache' = LinesChanged(qIrq', qCpu', qPar')
    BY <1>6, TouchedRecomputes DEF StopTimer, EndInterrupt, DeactivateInterrupt, WriteEoir1, WriteDir, gicRest
  <2> QED
    BY <2>1, Recomputed
<1>7. ASSUME NEW c \in GicCores, NEW bs \in SUBSET qBits, ReadStatus(c, bs) \/ AckStatus(c, bs)
      PROVE  CacheInv'
  <2>1. qCache' = LinesChanged(qIrq', qCpu', qPar')
    BY <1>7, TouchedRecomputes DEF ReadStatus, AckStatus, TouchSlot, gicRest
  <2> QED
    BY <2>1, Recomputed
<1>8. ASSUME NEW c \in GicCores,
             \/ \E d \in GicCores : SendSgi(c, d) \/ SetRouter(c, d)
             \/ \E v \in GicPmrs : SetPmr(c, v)
             \/ \E v \in GicBprs : SetBpr(c, v)
             \/ \E p \in GicPrios : SetPrio(c, p)
             \/ \E op \in GicOps : SetBits(c, op)
      PROVE  CacheInv'
  <2>1. qCache' = LinesChanged(qIrq', qCpu', qPar')
    BY <1>8, TouchedRecomputes DEF SendSgi, WriteSgi1r, SetRouter, SetPmr, SetBpr, SetPrio, SetBits, SetSpi, gicRest
  <2> QED
    BY <2>1, Recomputed
<1> QED
  BY <1>1, <1>2, <1>3, <1>4, <1>5, <1>6, <1>7, <1>8 DEF GicNext, GicHandles

\* The level a core reads from Slot::irq without the board's lock is the level
\* of its line, whoever changed the GIC last, and in parallel it is never
\* unknown: for every number of cores and every write to the GIC.
THEOREM CacheFreshness == GicSpec => []GicCacheFresh
<1>1. CacheInv => GicCacheFresh
  BY DEF CacheInv
<1> QED
  BY InitCache, NextCache, <1>1, PTL DEF GicSpec

-----------------------------------------------------------------------------
(* Handlers and active priorities, as sequences.                           *)

\* UNION of the bits devices raise.
GicBits == UNION {t[2] : t \in GicTriggers}

Handlers == [id : Intids, dropped : BOOLEAN, seen : SUBSET GicBits, at : {"new", "read", "done"}]

\* CpuIf::group_prio, by the binary point alone.
Masked(p, b) == p - (p % (2 ^ b))

GroupPrios == {Masked(p, b) : p \in 0 .. 255, b \in MinBpr .. 7}

\* A priority under a binary point is a group priority.
LEMMA MaskedIsGroupPrio == \A p \in 0 .. 255, b \in MinBpr .. 7 : Masked(p, b) \in GroupPrios
BY DEF GroupPrios

Actives == [id : Intids, prio : GroupPrios]

\* Dropping the last element of a sequence.
LEMMA Popped ==
    ASSUME NEW S, NEW s \in Seq(S), s # <<>>
    PROVE  LET r == SubSeq(s, 1, Len(s) - 1)
           IN  /\ r \in Seq(S)
               /\ Len(r) = Len(s) - 1
               /\ \A k \in 1 .. Len(s) - 1 : r[k] = s[k]
<1>1. Len(s) \in Nat \ {0} /\ \A k \in 1 .. Len(s) - 1 : s[k] \in S
  OBVIOUS
<1> DEFINE n == Len(s) - 1
<1>0. \A m \in Nat \ {0} : m - 1 \in Int /\ m - 1 - 1 + 1 = m - 1 /\ (~(1 <= m - 1) => m - 1 = 0)
  OBVIOUS
<1>2. n \in Int /\ n - 1 + 1 = n /\ (~(1 <= n) => n = 0)
  BY <1>0, <1>1, Zenon
<1>3. \A k \in 1 .. n : s[1 + k - 1] = s[k]
  OBVIOUS
<1>4. /\ SubSeq(s, 1, n) \in Seq(S)
      /\ Len(SubSeq(s, 1, n)) = IF 1 <= n THEN n - 1 + 1 ELSE 0
      /\ \A k \in 1 .. n - 1 + 1 : SubSeq(s, 1, n)[k] = s[1 + k - 1]
  <2> HIDE DEF n
  <2> QED
    BY <1>1, <1>2, SubSeqProperties DEF n
<1>5. Len(SubSeq(s, 1, n)) = n /\ \A k \in 1 .. n : SubSeq(s, 1, n)[k] = s[k]
  <2> HIDE DEF n
  <2> QED
    BY <1>2, <1>3, <1>4
<1> QED
  BY <1>4, <1>5

\* The empty stack goes with no handler.
LEMMA OpenEmpty == OpenHandlers(<<>>, <<>>)
<1>1. [k \in 1 .. 0 |-> k] \in [1 .. Len(<<>>) -> 1 .. Len(<<>>)]
  OBVIOUS
<1>2. Embeds([k \in 1 .. 0 |-> k], <<>>, <<>>)
  BY DEF Embeds
<1> QED
  BY <1>1, <1>2 DEF OpenHandlers

\* An acknowledged interrupt is the innermost handler and the top of the stack.
LEMMA OpenPush ==
    ASSUME NEW h \in Seq(Handlers), NEW s \in Seq(Actives), OpenHandlers(h, s),
           NEW x \in Handlers, NEW y \in Actives, ~x.dropped, x.id = y.id
    PROVE  OpenHandlers(Append(h, x), Append(s, y))
<1> DEFINE h2 == Append(h, x)
           s2 == Append(s, y)
<1>1. PICK f \in [1 .. Len(s) -> 1 .. Len(h)] : Embeds(f, h, s)
  BY DEF OpenHandlers
<1>a. \A j, k \in 1 .. Len(s) : j < k => f[j] < f[k]
  BY <1>1, Zenon DEF Embeds
<1>b. \A k \in 1 .. Len(s) : ~h[f[k]].dropped /\ h[f[k]].id = s[k].id
  BY <1>1, Zenon DEF Embeds
<1>c. \A m \in 1 .. Len(h) : ~h[m].dropped => \E k \in 1 .. Len(s) : f[k] = m
  BY <1>1, Zenon DEF Embeds
<1>d. \A k \in 1 .. Len(s) : f[k] \in 1 .. Len(h)
  BY <1>1
<1> DEFINE g == [k \in 1 .. Len(s2) |-> IF k <= Len(s) THEN f[k] ELSE Len(h2)]
<1>2. /\ Len(h) \in Nat /\ Len(s) \in Nat
      /\ Len(h2) = Len(h) + 1 /\ Len(s2) = Len(s) + 1
      /\ \A k \in 1 .. Len(h) : h2[k] = h[k]
      /\ \A k \in 1 .. Len(s) : s2[k] = s[k]
      /\ h2[Len(h2)] = x /\ s2[Len(s2)] = y
  OBVIOUS
<1> HIDE DEF h2, s2
<1>3. /\ \A k \in 1 .. Len(s) : g[k] = f[k] /\ f[k] \in 1 .. Len(h)
      /\ g[Len(s2)] = Len(h2)
  BY <1>1, <1>2
<1>4. g \in [1 .. Len(s2) -> 1 .. Len(h2)]
  BY <1>1, <1>2
<1> HIDE DEF g
<1>5. \A j, k \in 1 .. Len(s2) : j < k => g[j] < g[k]
  <2> SUFFICES ASSUME NEW j \in 1 .. Len(s2), NEW k \in 1 .. Len(s2), j < k PROVE g[j] < g[k]
    OBVIOUS
  <2>1. j \in 1 .. Len(s) /\ g[j] = f[j] /\ f[j] \in 1 .. Len(h)
    BY <1>2, <1>3
  <2>2. CASE k \in 1 .. Len(s)
    <3>1. f[j] < f[k] /\ g[k] = f[k]
      BY <1>3, <1>a, <2>1, <2>2
    <3> QED
      BY <2>1, <3>1
  <2>3. CASE k = Len(s2)
    <3>1. g[k] = Len(h) + 1
      BY <1>2, <1>3, <2>3
    <3> QED
      BY <1>2, <2>1, <3>1
  <2>4. k \in 1 .. Len(s) \/ k = Len(s2)
    BY <1>2
  <2> QED
    BY <2>2, <2>3, <2>4
<1>6. \A k \in 1 .. Len(s2) : ~h2[g[k]].dropped /\ h2[g[k]].id = s2[k].id
  <2> SUFFICES ASSUME NEW k \in 1 .. Len(s2)
               PROVE  ~h2[g[k]].dropped /\ h2[g[k]].id = s2[k].id
    OBVIOUS
  <2>1. CASE k \in 1 .. Len(s)
    BY <1>2, <1>3, <1>b, <2>1
  <2>2. CASE k = Len(s2)
    BY <1>2, <1>3, <2>2
  <2> QED
    BY <1>2, <2>1, <2>2
<1>7. \A m \in 1 .. Len(h2) : ~h2[m].dropped => \E k \in 1 .. Len(s2) : g[k] = m
  <2> SUFFICES ASSUME NEW m \in 1 .. Len(h2), ~h2[m].dropped
               PROVE  \E k \in 1 .. Len(s2) : g[k] = m
    OBVIOUS
  <2>1. CASE m \in 1 .. Len(h)
    <3>1. PICK k \in 1 .. Len(s) : f[k] = m
      BY <1>2, <1>c, <2>1
    <3> QED
      BY <1>2, <1>3, <3>1
  <2>2. CASE m = Len(h2)
    BY <1>2, <1>3, <2>2
  <2> QED
    BY <1>2, <2>1, <2>2
<1> QED
  BY <1>4, <1>5, <1>6, <1>7 DEF Embeds, OpenHandlers, h2, s2

\* The innermost handler with its priority still active is at the top of the
\* stack: the top goes when that handler ends or drops its priority.
LEMMA OpenPop ==
    ASSUME NEW h \in Seq(Handlers), NEW s \in Seq(Actives), OpenHandlers(h, s),
           h # <<>>, ~h[Len(h)].dropped,
           NEW h2 \in Seq(Handlers), Len(h2) \in {Len(h), Len(h) - 1},
           \A k \in 1 .. Len(h) - 1 : h2[k] = h[k],
           Len(h2) = Len(h) => h2[Len(h)].dropped
    PROVE  s # <<>> /\ OpenHandlers(h2, SubSeq(s, 1, Len(s) - 1))
<1>1. PICK f \in [1 .. Len(s) -> 1 .. Len(h)] : Embeds(f, h, s)
  BY DEF OpenHandlers
<1>a. \A j, k \in 1 .. Len(s) : j < k => f[j] < f[k]
  BY <1>1, Zenon DEF Embeds
<1>b. \A k \in 1 .. Len(s) : ~h[f[k]].dropped /\ h[f[k]].id = s[k].id
  BY <1>1, Zenon DEF Embeds
<1>c. \A m \in 1 .. Len(h) : ~h[m].dropped => \E k \in 1 .. Len(s) : f[k] = m
  BY <1>1, Zenon DEF Embeds
<1>d. \A k \in 1 .. Len(s) : f[k] \in 1 .. Len(h)
  BY <1>1
<1>2. Len(h) \in Nat \ {0} /\ Len(s) \in Nat /\ Len(h2) \in Nat
  OBVIOUS
<1>3. PICK t \in 1 .. Len(s) : f[t] = Len(h)
  BY <1>2, <1>c
<1>4. t = Len(s)
  <2> SUFFICES ASSUME t < Len(s) PROVE FALSE
    BY <1>2
  <2>1. f[t] < f[Len(s)] /\ f[Len(s)] \in 1 .. Len(h)
    BY <1>2, <1>a, <1>d
  <2> QED
    BY <1>2, <1>3, <2>1
<1>5. Len(s) \in Nat \ {0} /\ s # <<>>
  BY <1>2, <1>3
<1> DEFINE s2 == SubSeq(s, 1, Len(s) - 1)
           g == [k \in 1 .. Len(s) - 1 |-> f[k]]
<1>6. Len(s2) = Len(s) - 1 /\ \A k \in 1 .. Len(s) - 1 : s2[k] = s[k]
  BY <1>5, Popped
<1>7. \A k \in 1 .. Len(s) - 1 : g[k] = f[k] /\ f[k] \in 1 .. Len(h) - 1
  <2> SUFFICES ASSUME NEW k \in 1 .. Len(s) - 1 PROVE f[k] \in 1 .. Len(h) - 1
    OBVIOUS
  <2>1. f[k] < f[Len(s)] /\ f[k] \in 1 .. Len(h)
    BY <1>5, <1>a, <1>d
  <2> QED
    BY <1>2, <1>3, <1>4, <2>1
<1> HIDE DEF s2
<1>8. g \in [1 .. Len(s2) -> 1 .. Len(h2)]
  BY <1>2, <1>6, <1>7
<1> HIDE DEF g
<1>9. \A j, k \in 1 .. Len(s2) : j < k => g[j] < g[k]
  BY <1>5, <1>6, <1>7, <1>a
<1>10. \A k \in 1 .. Len(s2) : ~h2[g[k]].dropped /\ h2[g[k]].id = s2[k].id
  <2> SUFFICES ASSUME NEW k \in 1 .. Len(s) - 1
               PROVE  ~h2[g[k]].dropped /\ h2[g[k]].id = s2[k].id
    BY <1>6
  <2>1. g[k] = f[k] /\ f[k] \in 1 .. Len(h) - 1 /\ k \in 1 .. Len(s)
    BY <1>5, <1>7
  <2>2. h2[f[k]] = h[f[k]]
    BY <2>1
  <2>3. s2[k] = s[k]
    BY <1>6
  <2> QED
    BY <1>b, <2>1, <2>2, <2>3
<1>11. \A m \in 1 .. Len(h2) : ~h2[m].dropped => \E k \in 1 .. Len(s2) : g[k] = m
  <2> SUFFICES ASSUME NEW m \in 1 .. Len(h2), ~h2[m].dropped
               PROVE  \E k \in 1 .. Len(s2) : g[k] = m
    OBVIOUS
  <2>1. m \in 1 .. Len(h) - 1
    BY <1>2
  <2>2. PICK k \in 1 .. Len(s) : f[k] = m
    BY <1>2, <1>c, <2>1
  <2>3. k # Len(s)
    BY <1>2, <1>3, <1>4, <2>1, <2>2
  <2>4. k \in 1 .. Len(s2)
    BY <1>5, <1>6, <2>3
  <2>5. g[k] = m
    BY <1>6, <1>7, <2>2, <2>4
  <2> QED
    BY <2>4, <2>5
<1>12. Embeds(g, h2, s2)
  BY <1>9, <1>10, <1>11, Zenon DEF Embeds
<1> QED
  BY <1>8, <1>12 DEF OpenHandlers, s2

\* Handlers that keep their interrupts and their priorities, and one that goes
\* after it dropped its priority, leave the stack as it is.
LEMMA OpenKept ==
    ASSUME NEW h \in Seq(Handlers), NEW s \in Seq(Actives), OpenHandlers(h, s),
           NEW h2 \in Seq(Handlers), Len(h2) <= Len(h),
           \A k \in 1 .. Len(h2) : h2[k].id = h[k].id /\ (h2[k].dropped <=> h[k].dropped),
           \A k \in 1 .. Len(h) : ~h[k].dropped => k <= Len(h2)
    PROVE  OpenHandlers(h2, s)
<1>1. PICK f \in [1 .. Len(s) -> 1 .. Len(h)] : Embeds(f, h, s)
  BY DEF OpenHandlers
<1>a. \A j, k \in 1 .. Len(s) : j < k => f[j] < f[k]
  BY <1>1, Zenon DEF Embeds
<1>b. \A k \in 1 .. Len(s) : ~h[f[k]].dropped /\ h[f[k]].id = s[k].id
  BY <1>1, Zenon DEF Embeds
<1>c. \A m \in 1 .. Len(h) : ~h[m].dropped => \E k \in 1 .. Len(s) : f[k] = m
  BY <1>1, Zenon DEF Embeds
<1>d. \A k \in 1 .. Len(s) : f[k] \in 1 .. Len(h)
  BY <1>1
<1>2. Len(h) \in Nat /\ Len(s) \in Nat /\ Len(h2) \in Nat
  OBVIOUS
<1>3. \A k \in 1 .. Len(s) : f[k] \in 1 .. Len(h2)
  <2> SUFFICES ASSUME NEW k \in 1 .. Len(s) PROVE f[k] \in 1 .. Len(h2)
    OBVIOUS
  <2>1. f[k] <= Len(h2)
    BY <1>b, <1>d
  <2> QED
    BY <1>2, <1>d, <2>1
<1>4. f \in [1 .. Len(s) -> 1 .. Len(h2)]
  BY <1>1, <1>3
<1>5. \A k \in 1 .. Len(s) : ~h2[f[k]].dropped /\ h2[f[k]].id = s[k].id
  BY <1>3, <1>b
<1>6. \A m \in 1 .. Len(h2) : m \in 1 .. Len(h)
  BY <1>2
<1>7. \A m \in 1 .. Len(h2) : ~h2[m].dropped => \E k \in 1 .. Len(s) : f[k] = m
  BY <1>6, <1>c
<1> QED
  BY <1>4, <1>5, <1>7, <1>a DEF Embeds, OpenHandlers

-----------------------------------------------------------------------------
(* Types, and what every access leaves alone.                              *)

Irqs == [enabled : BOOLEAN, pending : BOOLEAN, level : BOOLEAN, active : BOOLEAN,
         edge : BOOLEAN, prio : 0 .. 255, router : GicCores]

Cpus == [pmr : Int, bpr : MinBpr .. 7, eoimode : BOOLEAN, stack : Seq(Actives)]

GicTypeOK ==
    /\ qIrq \in [Banks -> Irqs]
    /\ qCpu \in [GicCores -> Cpus]
    /\ qHand \in [GicCores -> Seq(Handlers)]
    /\ qStat \in SUBSET GicBits
    /\ qBits \in SUBSET GicBits
    /\ qTimer \in [GicCores -> BOOLEAN]

\* The bank of the SPI, whichever core asks.
LEMMA SpiBank ==
    /\ \A c \in GicCores : Bank(c, Spi) = <<0, Spi>>
    /\ <<0, Spi>> \in Banks
    /\ \A c \in GicCores, i \in Intids : Bank(c, i) \in Banks /\ (Bank(c, i) = <<0, Spi>> <=> i = Spi)
<1>1. \A c \in GicCores : Bank(c, Spi) = <<0, Spi>>
  BY DEF Bank, Spi
<1>2. \A c \in GicCores, i \in Intids : Bank(c, i) \in Banks
  BY DEF Banks
<1>3. \A c \in GicCores, i \in Intids : Bank(c, i) = <<0, Spi>> <=> i = Spi
  BY DEF Bank, Intids, Sgi, Ppi, Spi
<1> QED
  BY <1>1, <1>2, <1>3, GicCoresAssumption DEF Intids

\* A bit of an interrupt is written.
LEMMA BitWritten ==
    ASSUME NEW q \in Irqs, NEW v \in BOOLEAN
    PROVE  /\ [q EXCEPT !.enabled = v] \in Irqs /\ [q EXCEPT !.enabled = v].active = q.active
           /\ [q EXCEPT !.pending = v] \in Irqs /\ [q EXCEPT !.pending = v].active = q.active
           /\ [q EXCEPT !.active = v] \in Irqs /\ [q EXCEPT !.active = v].active = v
<1>1. [q EXCEPT !.enabled = v] \in Irqs /\ [q EXCEPT !.enabled = v].active = q.active
  BY DEF Irqs
<1>2. [q EXCEPT !.pending = v] \in Irqs /\ [q EXCEPT !.pending = v].active = q.active
  BY DEF Irqs
<1>3. [q EXCEPT !.active = v] \in Irqs /\ [q EXCEPT !.active = v].active = v
  BY DEF Irqs
<1> QED
  BY <1>1, <1>2, <1>3

\* The line of a device or timer moves nothing but pending and level.
LEMMA SetLevelType ==
    ASSUME NEW q \in Irqs, NEW l \in BOOLEAN
    PROVE  SetLevel(q, l) \in Irqs /\ SetLevel(q, l).active = q.active
<1>1. SetLevel(q, l) = [q EXCEPT !.pending = q.pending \/ (q.edge /\ l /\ ~q.level), !.level = l]
  BY DEF SetLevel
<1>2. (q.pending \/ (q.edge /\ l /\ ~q.level)) \in BOOLEAN
  BY Zenon DEF Irqs
<1> QED
  BY <1>1, <1>2 DEF Irqs

\* update_irqs moves no active state.
LEMMA LinesTypes ==
    ASSUME NEW irqs \in [Banks -> Irqs], NEW stat, NEW timer \in [GicCores -> BOOLEAN]
    PROVE  /\ Lines(irqs, stat, timer) \in [Banks -> Irqs]
           /\ \A b \in Banks : Lines(irqs, stat, timer)[b].active = irqs[b].active
<1>1. ASSUME NEW b \in Banks
      PROVE  /\ Lines(irqs, stat, timer)[b] \in Irqs
             /\ Lines(irqs, stat, timer)[b].active = irqs[b].active
  <2>0. irqs[b] \in Irqs /\ (stat # {}) \in BOOLEAN
    OBVIOUS
  <2>1. CASE b[2] = Spi
    <3>1. Lines(irqs, stat, timer)[b] = SetLevel(irqs[b], stat # {})
      BY <2>1 DEF Lines, Spi, Ppi
    <3> QED
      BY <2>0, <3>1, SetLevelType
  <2>2. CASE b[2] = Ppi
    <3>1. Lines(irqs, stat, timer)[b] = SetLevel(irqs[b], timer[b[1]])
      BY <2>2 DEF Lines, Spi, Ppi
    <3>2. b[1] \in GicCores
      BY <2>2, GicCoresAssumption DEF Banks, Bank, Intids
    <3>3. timer[b[1]] \in BOOLEAN
      BY <3>2
    <3> QED
      BY <2>0, <3>1, <3>3, SetLevelType
  <2>3. CASE b[2] # Spi /\ b[2] # Ppi
    BY <2>0, <2>3 DEF Lines
  <2> QED
    BY <2>1, <2>2, <2>3
<1>2. Lines(irqs, stat, timer) = [b \in Banks |-> Lines(irqs, stat, timer)[b]]
  BY DEF Lines
<1> QED
  BY <1>1, <1>2

\* What Board::settle and irq_dirty leave of an access.
LEMMA TouchedTypes ==
    ASSUME NEW irqs \in [Banks -> Irqs], NEW cpus, NEW stat, NEW timer \in [GicCores -> BOOLEAN],
           Touched(irqs, cpus, stat, timer)
    PROVE  /\ qIrq' \in [Banks -> Irqs]
           /\ \A b \in Banks : qIrq'[b].active = irqs[b].active
           /\ qCpu' = cpus /\ qStat' = stat /\ qTimer' = timer
<1>1. qIrq' = irqs \/ qIrq' = Lines(irqs, stat, timer)
  BY DEF Touched, UpdateIrqs
<1>2. qCpu' = cpus /\ qStat' = stat /\ qTimer' = timer
  BY DEF Touched
<1> QED
  BY <1>1, <1>2, LinesTypes

\* Among the interrupts that may be signalled one goes first.
LEMMA OneIsFirst ==
    ASSUME NEW p \in [Intids -> 0 .. 255], NEW S \in SUBSET Intids, S # {}
    PROVE  \E i \in S : \A j \in S : p[i] < p[j] \/ (p[i] = p[j] /\ i <= j)
<1> DEFINE Before(i, j) == p[i] < p[j] \/ (p[i] = p[j] /\ i <= j)
<1>1. Intids \subseteq Int /\ \A i \in Intids : p[i] \in Int
  BY DEF Intids, Sgi, Ppi, Spi
<1>2. \A i, j \in Intids : Before(i, j) \/ Before(j, i)
  BY <1>1
<1>3. \A i, j, k \in Intids : Before(i, j) /\ Before(j, k) => Before(i, k)
  BY <1>1
<1> HIDE DEF Before
<1>4. PICK b \in S : Sgi \in S => Before(b, Sgi)
  BY <1>2
<1>5. PICK d \in S : Before(d, b) /\ (Ppi \in S => Before(d, Ppi))
  BY <1>2
<1>6. PICK e \in S : Before(e, d) /\ (Spi \in S => Before(e, Spi))
  BY <1>2
<1>7. Before(e, b)
  BY <1>3, <1>5, <1>6
<1>8. \A j \in S : Before(e, j)
  BY <1>3, <1>4, <1>5, <1>6, <1>7 DEF Intids
<1> QED
  BY <1>8 DEF Before

\* highest_pending_of returns an interrupt that may be signalled, or none.
LEMMA HighestEligible ==
    ASSUME NEW irqs \in [Banks -> Irqs], NEW c \in GicCores, HighestPending(irqs, c) # NoIrq
    PROVE  /\ HighestPending(irqs, c) \in Intids
           /\ Eligible(irqs, c, HighestPending(irqs, c))
<1> DEFINE S == {i \in Intids : Eligible(irqs, c, i)}
           p == [i \in Intids |-> irqs[Bank(c, i)].prio]
           First(i) == \A j \in S : \/ irqs[Bank(c, i)].prio < irqs[Bank(c, j)].prio
                                    \/ irqs[Bank(c, i)].prio = irqs[Bank(c, j)].prio /\ i <= j
<1>1. S # {} /\ HighestPending(irqs, c) = CHOOSE i \in S : First(i)
  BY DEF HighestPending
<1>2. p \in [Intids -> 0 .. 255]
  <2> SUFFICES ASSUME NEW i \in Intids PROVE irqs[Bank(c, i)].prio \in 0 .. 255
    OBVIOUS
  <2>1. irqs[Bank(c, i)] \in Irqs
    BY SpiBank
  <2> QED
    BY <2>1 DEF Irqs
<1>3. \E i \in S : \A j \in S : p[i] < p[j] \/ (p[i] = p[j] /\ i <= j)
  <2>1. S \in SUBSET Intids
    OBVIOUS
  <2> HIDE DEF S, p
  <2> QED
    BY <1>1, <1>2, <2>1, OneIsFirst
<1>4. \A i \in S : p[i] = irqs[Bank(c, i)].prio
  OBVIOUS
<1>5. \E i \in S : First(i)
  <2> HIDE DEF S, p
  <2> QED
    BY <1>3, <1>4
<1>6. HighestPending(irqs, c) \in S
  <2> HIDE DEF S, First
  <2> QED
    BY <1>1, <1>5
<1> QED
  BY <1>6

-----------------------------------------------------------------------------
(* The handlers.                                                           *)

\* The SPI of a handler that has not deactivated it is active in the GIC.
SpiHeld ==
    \A c \in GicCores : \A k \in 1 .. Len(qHand[c]) :
        qHand[c][k].id = Spi => qIrq[<<0, Spi>>].active

HandInv == GicTypeOK /\ GicHandlers /\ SpiHeld

Decreasing(s) == \A k \in 2 .. Len(s) : s[k].prio < s[k - 1].prio

\* An interrupt above the running priority goes on top of the stack.
LEMMA DecreasingPush ==
    ASSUME NEW s \in Seq(Actives), NEW y \in Actives, Decreasing(s),
           s # <<>> => y.prio < s[Len(s)].prio
    PROVE  Decreasing(Append(s, y))
<1> DEFINE s2 == Append(s, y)
<1>1. /\ Len(s) \in Nat /\ Len(s2) = Len(s) + 1 /\ s2[Len(s) + 1] = y
      /\ \A k \in 1 .. Len(s) : s2[k] = s[k]
  OBVIOUS
<1> HIDE DEF s2
<1> SUFFICES ASSUME NEW k \in 2 .. Len(s2) PROVE s2[k].prio < s2[k - 1].prio
  BY DEF Decreasing, s2
<1>2. CASE k = Len(s) + 1
  <2>1. s # <<>> /\ k - 1 = Len(s) /\ s2[k - 1] = s[Len(s)]
    BY <1>1, <1>2
  <2> QED
    BY <1>1, <1>2, <2>1
<1>3. CASE k \in 2 .. Len(s)
  <2>1. s2[k] = s[k] /\ s2[k - 1] = s[k - 1]
    BY <1>1, <1>3
  <2> QED
    BY <1>3, <2>1 DEF Decreasing
<1> QED
  BY <1>1, <1>2, <1>3

\* The stack without its top is still ordered.
LEMMA DecreasingPop ==
    ASSUME NEW s \in Seq(Actives), s # <<>>, Decreasing(s)
    PROVE  Decreasing(SubSeq(s, 1, Len(s) - 1))
<1> DEFINE s2 == SubSeq(s, 1, Len(s) - 1)
<1>1. Len(s) \in Nat /\ Len(s2) = Len(s) - 1 /\ \A k \in 1 .. Len(s) - 1 : s2[k] = s[k]
  BY Popped
<1> HIDE DEF s2
<1> SUFFICES ASSUME NEW k \in 2 .. Len(s2) PROVE s2[k].prio < s2[k - 1].prio
  BY DEF Decreasing, s2
<1>2. k \in 2 .. Len(s) /\ s2[k] = s[k] /\ s2[k - 1] = s[k - 1]
  BY <1>1
<1> QED
  BY <1>2 DEF Decreasing

\* Handlers that only go, the one of the SPI with its active state.
LEMMA HandlersGo ==
    ASSUME HandInv, GicTypeOK',
           \A d \in GicCores : /\ Len(qHand'[d]) <= Len(qHand[d])
                               /\ \A k \in 1 .. Len(qHand'[d]) : qHand'[d][k].id = qHand[d][k].id,
           \/ qIrq[<<0, Spi>>].active => qIrq'[<<0, Spi>>].active
           \/ \E c \in GicCores : /\ qHand[c] # <<>> /\ Innermost(c).id = Spi
                                  /\ Len(qHand'[c]) = Len(qHand[c]) - 1
    PROVE  GicOneHandler' /\ SpiHeld'
<1>1. \A d \in GicCores : Len(qHand[d]) \in Nat /\ Len(qHand'[d]) \in Nat
  BY DEF HandInv, GicTypeOK
<1>2. \A d \in GicCores : \A k \in 1 .. Len(qHand'[d]) : k \in 1 .. Len(qHand[d])
  BY <1>1
<1>3. GicOneHandler'
  <2> SUFFICES ASSUME NEW d \in GicCores, NEW e \in GicCores,
                      NEW k \in 1 .. Len(qHand'[d]), NEW l \in 1 .. Len(qHand'[e]),
                      qHand'[d][k].id = Spi, qHand'[e][l].id = Spi
               PROVE  d = e /\ k = l
    BY DEF GicOneHandler
  <2>1. k \in 1 .. Len(qHand[d]) /\ qHand[d][k].id = Spi
    BY <1>2
  <2>2. l \in 1 .. Len(qHand[e]) /\ qHand[e][l].id = Spi
    BY <1>2
  <2> QED
    BY <2>1, <2>2 DEF HandInv, GicHandlers, GicOneHandler
<1>4. CASE qIrq[<<0, Spi>>].active => qIrq'[<<0, Spi>>].active
  BY <1>2, <1>3, <1>4 DEF HandInv, SpiHeld
<1>5. ASSUME NEW c \in GicCores, qHand[c] # <<>>, Innermost(c).id = Spi,
             Len(qHand'[c]) = Len(qHand[c]) - 1
      PROVE  SpiHeld'
  <2> SUFFICES ASSUME NEW d \in GicCores, NEW k \in 1 .. Len(qHand'[d]), qHand'[d][k].id = Spi
               PROVE  FALSE
    BY DEF SpiHeld
  <2>1. Len(qHand[c]) \in 1 .. Len(qHand[c]) /\ qHand[c][Len(qHand[c])].id = Spi
    BY <1>1, <1>5 DEF Innermost, HandInv, GicTypeOK
  <2>2. k \in 1 .. Len(qHand[d]) /\ qHand[d][k].id = Spi
    BY <1>2
  <2>3. d = c /\ k = Len(qHand[c])
    BY <2>1, <2>2 DEF HandInv, GicHandlers, GicOneHandler
  <2> QED
    BY <1>1, <1>5, <2>3
<1> QED
  BY <1>3, <1>4, <1>5

\* A step that leaves handlers and stacks as they are.
LEMMA HandlersKept ==
    ASSUME HandInv, GicTypeOK',
           \A d \in GicCores :
               /\ Len(qHand'[d]) = Len(qHand[d])
               /\ \A k \in 1 .. Len(qHand[d]) : /\ qHand'[d][k].id = qHand[d][k].id
                                                /\ qHand'[d][k].dropped <=> qHand[d][k].dropped
               /\ qCpu'[d].stack = qCpu[d].stack,
           qIrq[<<0, Spi>>].active => qIrq'[<<0, Spi>>].active
    PROVE  HandInv'
<1>1. \A d \in GicCores : /\ qHand[d] \in Seq(Handlers) /\ qHand'[d] \in Seq(Handlers)
                          /\ qCpu[d].stack \in Seq(Actives)
  BY DEF HandInv, GicTypeOK, Cpus
<1>2. \A d \in GicCores : Len(qHand[d]) \in Nat
  BY <1>1
<1>3. GicOneHandler' /\ SpiHeld'
  BY <1>2, HandlersGo
<1>4. ASSUME NEW d \in GicCores
      PROVE  OpenHandlers(qHand'[d], qCpu'[d].stack) /\ Decreasing(qCpu'[d].stack)
  <2>1. OpenHandlers(qHand[d], qCpu[d].stack) /\ Decreasing(qCpu[d].stack)
    BY DEF HandInv, GicHandlers, GicStackOrdered, Decreasing
  <2>2. \A k \in 1 .. Len(qHand[d]) : k <= Len(qHand'[d])
    BY <1>2
  <2>3. OpenHandlers(qHand'[d], qCpu[d].stack)
    <3> DEFINE h == qHand[d]
               h2 == qHand'[d]
               s == qCpu[d].stack
    <3>1. h \in Seq(Handlers) /\ h2 \in Seq(Handlers) /\ s \in Seq(Actives) /\ OpenHandlers(h, s)
      BY <1>1, <2>1
    <3>2. /\ Len(h2) <= Len(h)
          /\ \A k \in 1 .. Len(h) : ~h[k].dropped => k <= Len(h2)
      BY <1>2, <2>2
    <3>3. \A k \in 1 .. Len(h2) : h2[k].id = h[k].id /\ (h2[k].dropped <=> h[k].dropped)
      OBVIOUS
    <3> HIDE DEF h, h2, s
    <3>4. OpenHandlers(h2, s)
      BY <3>1, <3>2, <3>3, OpenKept
    <3> QED
      BY <3>4 DEF h2, s
  <2> QED
    BY <2>1, <2>3
<1> QED
  BY <1>3, <1>4 DEF HandInv, GicHandlers, GicStackOrdered, Decreasing

\* A core acknowledges an interrupt that no core has active.
LEMMA HandlersPush ==
    ASSUME HandInv, GicTypeOK', NEW c \in GicCores, NEW x \in Handlers, NEW y \in Actives,
           ~x.dropped, x.id = y.id,
           qHand' = [qHand EXCEPT ![c] = Append(@, x)],
           qCpu'[c].stack = Append(qCpu[c].stack, y),
           \A d \in GicCores \ {c} : qCpu'[d].stack = qCpu[d].stack,
           qCpu[c].stack # <<>> => y.prio < qCpu[c].stack[Len(qCpu[c].stack)].prio,
           x.id = Spi => ~qIrq[<<0, Spi>>].active,
           x.id = Spi \/ qIrq[<<0, Spi>>].active => qIrq'[<<0, Spi>>].active
    PROVE  HandInv'
<1>1. \A d \in GicCores : /\ qHand[d] \in Seq(Handlers) /\ qHand'[d] \in Seq(Handlers)
                          /\ qCpu[d].stack \in Seq(Actives)
  BY DEF HandInv, GicTypeOK, Cpus
<1>2. \A d \in GicCores : Len(qHand[d]) \in Nat
  BY <1>1
<1>3. qHand'[c] = Append(qHand[c], x) /\ \A d \in GicCores \ {c} : qHand'[d] = qHand[d]
  BY DEF HandInv, GicTypeOK
<1>4. /\ Len(qHand'[c]) = Len(qHand[c]) + 1
      /\ qHand'[c][Len(qHand[c]) + 1] = x
      /\ \A k \in 1 .. Len(qHand[c]) : qHand'[c][k] = qHand[c][k]
  BY <1>1, <1>3
<1>5. ASSUME NEW d \in GicCores, NEW k \in 1 .. Len(qHand'[d])
      PROVE  \/ d = c /\ k = Len(qHand[c]) + 1 /\ qHand'[d][k] = x
             \/ k \in 1 .. Len(qHand[d]) /\ qHand'[d][k] = qHand[d][k]
  BY <1>2, <1>3, <1>4
<1>6. \A d \in GicCores : \A k \in 1 .. Len(qHand[d]) :
          qHand[d][k].id = Spi => qIrq[<<0, Spi>>].active
  BY DEF HandInv, SpiHeld
<1>7. SpiHeld'
  BY <1>5, <1>6 DEF SpiHeld
<1>8. GicOneHandler'
  <2> SUFFICES ASSUME NEW d \in GicCores, NEW e \in GicCores,
                      NEW k \in 1 .. Len(qHand'[d]), NEW l \in 1 .. Len(qHand'[e]),
                      qHand'[d][k].id = Spi, qHand'[e][l].id = Spi
               PROVE  d = e /\ k = l
    BY DEF GicOneHandler
  <2>1. CASE x.id = Spi
    <3>1. d = c /\ k = Len(qHand[c]) + 1
      BY <1>5, <1>6, <2>1
    <3>2. e = c /\ l = Len(qHand[c]) + 1
      BY <1>5, <1>6, <2>1
    <3> QED
      BY <3>1, <3>2
  <2>2. CASE x.id # Spi
    BY <1>5, <2>2 DEF HandInv, GicHandlers, GicOneHandler
  <2> QED
    BY <2>1, <2>2
<1>9. ASSUME NEW d \in GicCores
      PROVE  OpenHandlers(qHand'[d], qCpu'[d].stack) /\ Decreasing(qCpu'[d].stack)
  <2>1. OpenHandlers(qHand[d], qCpu[d].stack) /\ Decreasing(qCpu[d].stack)
    BY DEF HandInv, GicHandlers, GicStackOrdered, Decreasing
  <2>2. CASE d = c
    <3> DEFINE h == qHand[c]
               s == qCpu[c].stack
    <3>1. h \in Seq(Handlers) /\ s \in Seq(Actives) /\ OpenHandlers(h, s) /\ Decreasing(s)
      BY <1>1, <2>1, <2>2
    <3>2. s # <<>> => y.prio < s[Len(s)].prio
      OBVIOUS
    <3>3. qHand'[d] = Append(h, x) /\ qCpu'[d].stack = Append(s, y)
      BY <1>3, <2>2
    <3> HIDE DEF h, s
    <3>4. OpenHandlers(Append(h, x), Append(s, y))
      BY <3>1, OpenPush
    <3>5. Decreasing(Append(s, y))
      BY <3>1, <3>2, DecreasingPush
    <3> QED
      BY <3>3, <3>4, <3>5
  <2>3. CASE d # c
    BY <1>3, <2>1, <2>3
  <2> QED
    BY <2>2, <2>3
<1> QED
  BY <1>7, <1>8, <1>9 DEF HandInv, GicHandlers, GicStackOrdered, Decreasing

\* The innermost handler of c drops its priority or ends: the stack is popped.
LEMMA HandlersDrop ==
    ASSUME HandInv, GicTypeOK', NEW c \in GicCores, qHand[c] # <<>>, ~Innermost(c).dropped,
           NEW h2 \in Seq(Handlers), qHand' = [qHand EXCEPT ![c] = h2],
           Len(h2) \in {Len(qHand[c]), Len(qHand[c]) - 1},
           \A k \in 1 .. Len(qHand[c]) - 1 : h2[k] = qHand[c][k],
           Len(h2) = Len(qHand[c]) => /\ h2[Len(h2)].dropped
                                      /\ h2[Len(h2)].id = Innermost(c).id,
           qCpu'[c].stack = SubSeq(qCpu[c].stack, 1, Len(qCpu[c].stack) - 1),
           \A d \in GicCores \ {c} : qCpu'[d].stack = qCpu[d].stack,
           \/ qIrq[<<0, Spi>>].active => qIrq'[<<0, Spi>>].active
           \/ Innermost(c).id = Spi /\ Len(h2) = Len(qHand[c]) - 1
    PROVE  HandInv'
<1>1. \A d \in GicCores : /\ qHand[d] \in Seq(Handlers) /\ qHand'[d] \in Seq(Handlers)
                          /\ qCpu[d].stack \in Seq(Actives)
  BY DEF HandInv, GicTypeOK, Cpus
<1>2. Len(h2) \in Nat /\ \A d \in GicCores : Len(qHand[d]) \in Nat
  BY <1>1
<1>3. qHand'[c] = h2 /\ \A d \in GicCores \ {c} : qHand'[d] = qHand[d]
  BY DEF HandInv, GicTypeOK
<1>4. ASSUME NEW d \in GicCores
      PROVE  /\ Len(qHand'[d]) <= Len(qHand[d])
             /\ \A k \in 1 .. Len(qHand'[d]) : qHand'[d][k].id = qHand[d][k].id
  <2>1. CASE d # c
    BY <1>2, <1>3, <2>1
  <2>2. CASE d = c
    <3>1. Len(h2) <= Len(qHand[c])
      BY <1>2
    <3>2. ASSUME NEW k \in 1 .. Len(h2) PROVE h2[k].id = qHand[c][k].id
      <4>1. k \in 1 .. Len(qHand[c]) - 1 \/ (k = Len(h2) /\ Len(h2) = Len(qHand[c]))
        BY <1>2
      <4> QED
        BY <4>1 DEF Innermost
    <3> QED
      BY <1>3, <2>2, <3>1, <3>2
  <2> QED
    BY <2>1, <2>2
<1>5. GicOneHandler' /\ SpiHeld'
  BY <1>3, <1>4, HandlersGo
<1>6. ASSUME NEW d \in GicCores
      PROVE  OpenHandlers(qHand'[d], qCpu'[d].stack) /\ Decreasing(qCpu'[d].stack)
  <2>1. OpenHandlers(qHand[d], qCpu[d].stack) /\ Decreasing(qCpu[d].stack)
    BY DEF HandInv, GicHandlers, GicStackOrdered, Decreasing
  <2>2. CASE d = c
    <3>1. ~qHand[c][Len(qHand[c])].dropped /\ (Len(h2) = Len(qHand[c]) => h2[Len(qHand[c])].dropped)
      BY DEF Innermost
    <3>2. qCpu[c].stack # <<>> /\ OpenHandlers(h2, SubSeq(qCpu[c].stack, 1, Len(qCpu[c].stack) - 1))
      BY <1>1, <2>1, <2>2, <3>1, OpenPop
    <3> QED
      BY <1>1, <1>3, <2>1, <2>2, <3>2, DecreasingPop
  <2>3. CASE d # c
    BY <1>3, <2>1, <2>3
  <2> QED
    BY <2>2, <2>3
<1> QED
  BY <1>5, <1>6 DEF HandInv, GicHandlers, GicStackOrdered, Decreasing

\* The innermost handler of c ends after it dropped its priority.
LEMMA HandlersDone ==
    ASSUME HandInv, GicTypeOK', NEW c \in GicCores, qHand[c] # <<>>, Innermost(c).dropped,
           qHand' = [qHand EXCEPT ![c] = SubSeq(@, 1, Len(@) - 1)],
           \A d \in GicCores : qCpu'[d].stack = qCpu[d].stack,
           (qIrq[<<0, Spi>>].active => qIrq'[<<0, Spi>>].active) \/ Innermost(c).id = Spi
    PROVE  HandInv'
<1>1. \A d \in GicCores : /\ qHand[d] \in Seq(Handlers) /\ qHand'[d] \in Seq(Handlers)
                          /\ qCpu[d].stack \in Seq(Actives)
  BY DEF HandInv, GicTypeOK, Cpus
<1>2. \A d \in GicCores : Len(qHand[d]) \in Nat
  BY <1>1
<1>3. /\ qHand'[c] = SubSeq(qHand[c], 1, Len(qHand[c]) - 1)
      /\ \A d \in GicCores \ {c} : qHand'[d] = qHand[d]
  BY DEF HandInv, GicTypeOK
<1>4. /\ Len(qHand'[c]) = Len(qHand[c]) - 1
      /\ \A k \in 1 .. Len(qHand[c]) - 1 : qHand'[c][k] = qHand[c][k]
  BY <1>1, <1>3, Popped
<1>5. ASSUME NEW d \in GicCores
      PROVE  /\ Len(qHand'[d]) <= Len(qHand[d])
             /\ \A k \in 1 .. Len(qHand'[d]) : qHand'[d][k] = qHand[d][k]
  BY <1>2, <1>3, <1>4
<1>6. GicOneHandler' /\ SpiHeld'
  BY <1>4, <1>5, HandlersGo
<1>7. ASSUME NEW d \in GicCores
      PROVE  OpenHandlers(qHand'[d], qCpu'[d].stack) /\ Decreasing(qCpu'[d].stack)
  <2>1. OpenHandlers(qHand[d], qCpu[d].stack) /\ Decreasing(qCpu[d].stack)
    BY DEF HandInv, GicHandlers, GicStackOrdered, Decreasing
  <2>2. CASE d = c
    <3>1. \A k \in 1 .. Len(qHand[c]) : k = Len(qHand[c]) \/ k <= Len(qHand'[c])
      BY <1>2, <1>4
    <3>2. \A k \in 1 .. Len(qHand[c]) : ~qHand[c][k].dropped => k <= Len(qHand'[c])
      BY <3>1 DEF Innermost
    <3>3. OpenHandlers(qHand'[c], qCpu[c].stack)
      <4> DEFINE h == qHand[c]
                 h2 == qHand'[c]
                 s == qCpu[c].stack
      <4>1. /\ h \in Seq(Handlers) /\ h2 \in Seq(Handlers) /\ s \in Seq(Actives) /\ OpenHandlers(h, s)
            /\ \A k \in 1 .. Len(h) : ~h[k].dropped => k <= Len(h2)
        BY <1>1, <2>1, <2>2, <3>2
      <4>2. Len(h2) <= Len(h) /\ \A k \in 1 .. Len(h2) : h2[k] = h[k]
        BY <1>5
      <4> HIDE DEF h, h2, s
      <4>3. \A k \in 1 .. Len(h2) : h2[k].id = h[k].id /\ (h2[k].dropped <=> h[k].dropped)
        BY <4>2
      <4>4. OpenHandlers(h2, s)
        BY <4>1, <4>2, <4>3, OpenKept
      <4> QED
        BY <4>4 DEF h2, s
    <3> QED
      BY <2>1, <2>2, <3>3
  <2>3. CASE d # c
    BY <1>3, <2>1, <2>3
  <2> QED
    BY <2>2, <2>3
<1> QED
  BY <1>6, <1>7 DEF HandInv, GicHandlers, GicStackOrdered, Decreasing

-----------------------------------------------------------------------------
(* The steps.                                                              *)

\* At reset no interrupt is in anybody's hands.
LEMMA InitHand == GicInit => HandInv
<1> SUFFICES ASSUME NEW t \in GicTriggers, NEW p \in GicPrios, NEW par \in BOOLEAN,
                    NEW split \in BOOLEAN, GicInitAs(t, p, par, split)
             PROVE  HandInv
  BY DEF GicInit
<1>1. qIrq \in [Banks -> Irqs]
  <2>1. p \in 0 .. 255 /\ 0 \in GicCores
    BY GicPriosAssumption, GicCoresAssumption
  <2>2. \A b \in Banks : (b[2] = Sgi \/ (b[2] = Spi /\ t[1])) \in BOOLEAN
    BY Zenon
  <2> QED
    BY <2>1, <2>2 DEF GicInitAs, Irqs
<1>2. qCpu \in [GicCores -> Cpus]
  <2>1. 240 \in Int /\ MinBpr \in MinBpr .. 7 /\ <<>> \in Seq(Actives)
    BY DEF MinBpr
  <2> QED
    BY <2>1 DEF GicInitAs, Cpus
<1>3. qHand \in [GicCores -> Seq(Handlers)] /\ qTimer \in [GicCores -> BOOLEAN]
  BY DEF GicInitAs
<1>4. qStat \in SUBSET GicBits /\ qBits \in SUBSET GicBits
  BY DEF GicInitAs, GicBits
<1>5. \A c \in GicCores : qHand[c] = <<>> /\ qCpu[c].stack = <<>>
  BY DEF GicInitAs
<1>6. SpiHeld /\ GicOneHandler
  BY <1>5 DEF SpiHeld, GicOneHandler
<1>7. GicStackOrdered
  BY <1>5, OpenEmpty DEF GicStackOrdered
<1> QED
  BY <1>1, <1>2, <1>3, <1>4, <1>6, <1>7 DEF HandInv, GicTypeOK, GicHandlers

\* The types of what handlers and priorities are about, when only the lines move.
LEMMA QuietInv ==
    ASSUME HandInv, GicTypeOK', UNCHANGED <<qCpu, qHand>>,
           qIrq[<<0, Spi>>].active => qIrq'[<<0, Spi>>].active
    PROVE  HandInv'
BY HandlersKept

\* The host and the devices: update_irqs, and the modes of running.
LEMMA DevicesInv ==
    ASSUME HandInv,
           \/ SyncIrqs \/ GoParallel \/ GoTurns
           \/ \E b \in qBits : DeviceRaises(b)
           \/ \E c \in GicCores : TimerFires(c) \/ SwitchTurn(c) \/ LookLine(c) \/ TakeInterrupt(c)
    PROVE  HandInv'
<1>1. UNCHANGED <<qCpu, qHand, qBits>>
  BY DEF SyncIrqs, GoParallel, GoTurns, DeviceRaises, TimerFires, SwitchTurn, LookLine,
         TakeInterrupt, gicGuest
<1>2. qStat' \in SUBSET GicBits
  BY DEF SyncIrqs, GoParallel, GoTurns, DeviceRaises, TimerFires, SwitchTurn, LookLine,
         TakeInterrupt, HandInv, GicTypeOK
<1>3. qTimer' \in [GicCores -> BOOLEAN]
  <2>1. UNCHANGED qTimer \/ \E c \in GicCores : qTimer' = [qTimer EXCEPT ![c] = TRUE]
    BY DEF SyncIrqs, GoParallel, GoTurns, DeviceRaises, TimerFires, SwitchTurn, LookLine, TakeInterrupt
  <2> QED
    BY <2>1, Zenon DEF HandInv, GicTypeOK
<1>4. qIrq' = qIrq \/ qIrq' = Lines(qIrq, qStat', qTimer')
  BY DEF SyncIrqs, GoParallel, GoTurns, DeviceRaises, TimerFires, SwitchTurn, LookLine,
         TakeInterrupt, UpdateIrqs
<1>5. qIrq' \in [Banks -> Irqs] /\ \A b \in Banks : qIrq'[b].active = qIrq[b].active
  <2>1. qIrq \in [Banks -> Irqs]
    BY DEF HandInv, GicTypeOK
  <2> QED
    BY <1>3, <1>4, <2>1, LinesTypes
<1>6. GicTypeOK'
  BY <1>1, <1>2, <1>3, <1>5 DEF HandInv, GicTypeOK
<1> QED
  BY <1>1, <1>5, <1>6, QuietInv, SpiBank

\* An access that leaves the handlers alone: it writes irqs, whose active SPI
\* stays active, and CPU interfaces, whose stacks stay.
LEMMA AccessInv ==
    ASSUME HandInv, NEW irqs \in [Banks -> Irqs], NEW cpus \in [GicCores -> Cpus],
           Touched(irqs, cpus, qStat, qTimer), UNCHANGED <<qHand, qBits>>,
           qIrq[<<0, Spi>>].active => irqs[<<0, Spi>>].active,
           \A c \in GicCores : cpus[c].stack = qCpu[c].stack
    PROVE  HandInv'
<1>1. qTimer \in [GicCores -> BOOLEAN] /\ qStat \in SUBSET GicBits
  BY DEF HandInv, GicTypeOK
<1>2. /\ qIrq' \in [Banks -> Irqs] /\ qCpu' = cpus /\ qStat' = qStat /\ qTimer' = qTimer
      /\ \A b \in Banks : qIrq'[b].active = irqs[b].active
  BY <1>1, TouchedTypes
<1>3. GicTypeOK'
  BY <1>1, <1>2 DEF HandInv, GicTypeOK
<1>4. qIrq[<<0, Spi>>].active => qIrq'[<<0, Spi>>].active
  BY <1>2, SpiBank
<1> QED
  BY <1>2, <1>3, <1>4, HandlersKept

\* Writes of the guest outside its handlers, with the SPI not deactivated.
LEMMA WritesInv ==
    ASSUME HandInv, "ClearActive" \notin GicOps, NEW c \in GicCores,
           \/ \E d \in GicCores : SendSgi(c, d) \/ SetRouter(c, d)
           \/ \E v \in GicPmrs : SetPmr(c, v)
           \/ \E v \in GicBprs : SetBpr(c, v)
           \/ \E p \in GicPrios : SetPrio(c, p)
           \/ \E op \in GicOps : SetBits(c, op)
    PROVE  HandInv'
<1>0. qIrq \in [Banks -> Irqs] /\ qCpu \in [GicCores -> Cpus]
  BY DEF HandInv, GicTypeOK
<1>1. ASSUME NEW d \in GicCores, SendSgi(c, d) PROVE HandInv'
  <2> DEFINE b == Bank(d, Sgi)
             q == [qIrq[b] EXCEPT !.pending = TRUE]
             irqs == [qIrq EXCEPT ![b] = q]
  <2>1. b \in Banks /\ b # <<0, Spi>>
    BY SpiBank DEF Intids, Sgi, Spi
  <2> HIDE DEF b
  <2>2. q \in Irqs
    <3>1. qIrq[b] \in Irqs /\ TRUE \in BOOLEAN
      BY <1>0, <2>1
    <3> QED
      BY <3>1, BitWritten
  <2>3. irqs \in [Banks -> Irqs] /\ irqs[<<0, Spi>>] = qIrq[<<0, Spi>>]
    <3> HIDE DEF q
    <3> QED
      BY <1>0, <2>1, <2>2, SpiBank
  <2>4. Touched(irqs, qCpu, qStat, qTimer) /\ UNCHANGED <<qHand, qBits>>
    BY <1>1 DEF SendSgi, WriteSgi1r, gicRest, b
  <2> HIDE DEF irqs
  <2> QED
    BY <1>0, <2>3, <2>4, AccessInv
<1>2. ASSUME NEW q \in Irqs, SetSpi(c, q), qIrq[<<0, Spi>>].active => q.active PROVE HandInv'
  <2> DEFINE irqs == [qIrq EXCEPT ![<<0, Spi>>] = q]
  <2>1. irqs \in [Banks -> Irqs] /\ irqs[<<0, Spi>>] = q
    BY <1>0, SpiBank
  <2>2. Touched(irqs, qCpu, qStat, qTimer) /\ UNCHANGED <<qHand, qBits>>
    BY <1>2, SpiBank DEF SetSpi, gicRest
  <2> HIDE DEF irqs
  <2> QED
    BY <1>0, <1>2, <2>1, <2>2, AccessInv
<1>3. qIrq[<<0, Spi>>] \in Irqs /\ Bank(c, Spi) = <<0, Spi>>
  BY <1>0, SpiBank
<1>4. ASSUME NEW d \in GicCores, SetRouter(c, d) PROVE HandInv'
  <2>1. /\ [qIrq[<<0, Spi>>] EXCEPT !.router = d] \in Irqs
        /\ [qIrq[<<0, Spi>>] EXCEPT !.router = d].active = qIrq[<<0, Spi>>].active
    BY <1>3 DEF Irqs
  <2> QED
    BY <1>2, <1>3, <1>4, <2>1 DEF SetRouter
<1>5. ASSUME NEW p \in GicPrios, SetPrio(c, p) PROVE HandInv'
  <2>1. p \in 0 .. 255
    BY GicPriosAssumption
  <2>2. /\ [qIrq[<<0, Spi>>] EXCEPT !.prio = p] \in Irqs
        /\ [qIrq[<<0, Spi>>] EXCEPT !.prio = p].active = qIrq[<<0, Spi>>].active
    BY <1>3, <2>1 DEF Irqs
  <2> QED
    BY <1>2, <1>3, <1>5, <2>2 DEF SetPrio
<1>6. ASSUME NEW op \in GicOps, SetBits(c, op) PROVE HandInv'
  <2> DEFINE q == qIrq[<<0, Spi>>]
  <2>1. op \in {"SetEnable", "ClearEnable", "SetPending", "ClearPending", "SetActive"}
    BY GicOpsAssumption
  <2>2. \/ WriteBits(q, op) = [q EXCEPT !.enabled = TRUE]
        \/ WriteBits(q, op) = [q EXCEPT !.enabled = FALSE]
        \/ WriteBits(q, op) = [q EXCEPT !.pending = TRUE]
        \/ WriteBits(q, op) = [q EXCEPT !.pending = FALSE]
        \/ WriteBits(q, op) = [q EXCEPT !.active = TRUE]
    BY <2>1 DEF WriteBits
  <2>3. q \in Irqs
    BY <1>3
  <2>4. WriteBits(q, op) \in Irqs /\ (q.active => WriteBits(q, op).active)
    <3> HIDE DEF q
    <3>1. CASE WriteBits(q, op) = [q EXCEPT !.enabled = TRUE]
      BY <2>3, <3>1 DEF Irqs
    <3>2. CASE WriteBits(q, op) = [q EXCEPT !.enabled = FALSE]
      BY <2>3, <3>2 DEF Irqs
    <3>3. CASE WriteBits(q, op) = [q EXCEPT !.pending = TRUE]
      BY <2>3, <3>3 DEF Irqs
    <3>4. CASE WriteBits(q, op) = [q EXCEPT !.pending = FALSE]
      BY <2>3, <3>4 DEF Irqs
    <3>5. CASE WriteBits(q, op) = [q EXCEPT !.active = TRUE]
      BY <2>3, <3>5 DEF Irqs
    <3> QED
      BY <2>2, <3>1, <3>2, <3>3, <3>4, <3>5
  <2> QED
    BY <1>2, <1>3, <1>6, <2>4 DEF SetBits
<1>7. ASSUME NEW u \in Cpus, u.stack = qCpu[c].stack,
             Touched(qIrq, [qCpu EXCEPT ![c] = u], qStat, qTimer), UNCHANGED <<qHand, qBits>>
      PROVE  HandInv'
  <2> DEFINE cpus == [qCpu EXCEPT ![c] = u]
  <2>1. cpus \in [GicCores -> Cpus] /\ \A d \in GicCores : cpus[d].stack = qCpu[d].stack
    BY <1>0, <1>7
  <2>2. Touched(qIrq, cpus, qStat, qTimer)
    BY <1>7
  <2> HIDE DEF cpus
  <2> QED
    BY <1>0, <1>7, <2>1, <2>2, AccessInv
<1>8. qCpu[c] \in Cpus
  BY <1>0
<1>9. ASSUME NEW v \in GicPmrs, SetPmr(c, v) PROVE HandInv'
  <2>1. v - (v % 8) \in Int
    BY GicPmrsAssumption
  <2>2. /\ [qCpu[c] EXCEPT !.pmr = v - (v % 8)] \in Cpus
        /\ [qCpu[c] EXCEPT !.pmr = v - (v % 8)].stack = qCpu[c].stack
    BY <1>8, <2>1 DEF Cpus
  <2> QED
    BY <1>7, <1>9, <2>2 DEF SetPmr, gicRest
<1>10. ASSUME NEW v \in GicBprs, SetBpr(c, v) PROVE HandInv'
  <2> DEFINE w == IF v < MinBpr THEN MinBpr ELSE v
  <2>1. w \in MinBpr .. 7
    BY GicBprsAssumption DEF MinBpr
  <2>2. Touched(qIrq, [qCpu EXCEPT ![c] = [qCpu[c] EXCEPT !.bpr = w]], qStat, qTimer)
        /\ UNCHANGED <<qHand, qBits>>
    BY <1>10 DEF SetBpr, gicRest
  <2> HIDE DEF w
  <2>3. [qCpu[c] EXCEPT !.bpr = w] \in Cpus /\ [qCpu[c] EXCEPT !.bpr = w].stack = qCpu[c].stack
    BY <1>8, <2>1 DEF Cpus
  <2> QED
    BY <1>7, <2>2, <2>3
<1> QED
  BY <1>1, <1>4, <1>5, <1>6, <1>9, <1>10

\* The handler a core is in, and one of its fields written.
LEMMA InnermostType ==
    ASSUME HandInv, NEW c \in GicCores, qHand[c] # <<>>
    PROVE  /\ qHand[c] \in Seq(Handlers)
           /\ Len(qHand[c]) \in Nat \ {0}
           /\ Innermost(c) \in Handlers
<1>1. qHand[c] \in Seq(Handlers)
  BY DEF HandInv, GicTypeOK
<1>2. Len(qHand[c]) \in Nat \ {0}
  BY <1>1
<1> QED
  BY <1>1, <1>2 DEF Innermost

\* Only the innermost handler changes.
LEMMA InnermostSet ==
    ASSUME HandInv, NEW c \in GicCores, qHand[c] # <<>>, NEW h \in Handlers, SetInnermost(c, h)
    PROVE  LET h2 == [qHand[c] EXCEPT ![Len(qHand[c])] = h]
           IN  /\ h2 \in Seq(Handlers)
               /\ qHand' = [qHand EXCEPT ![c] = h2]
               /\ qHand' \in [GicCores -> Seq(Handlers)]
               /\ Len(h2) = Len(qHand[c])
               /\ h2[Len(h2)] = h
               /\ \A k \in 1 .. Len(qHand[c]) - 1 : h2[k] = qHand[c][k]
<1> DEFINE n == Len(qHand[c])
           h2 == [qHand[c] EXCEPT ![n] = h]
<1>1. qHand[c] \in Seq(Handlers) /\ n \in Nat \ {0} /\ n \in 1 .. Len(qHand[c])
  BY InnermostType
<1>2. /\ h2 \in Seq(Handlers) /\ Len(h2) = n
      /\ \A j \in 1 .. n : h2[j] = IF j = n THEN h ELSE qHand[c][j]
  BY <1>1, ExceptSeq
<1>3. qHand' = [qHand EXCEPT ![c] = h2]
  BY DEF SetInnermost
<1> HIDE DEF h2
<1>4. h2[n] = h /\ \A k \in 1 .. n - 1 : h2[k] = qHand[c][k]
  BY <1>1, <1>2
<1>5. qHand' \in [GicCores -> Seq(Handlers)]
  BY <1>2, <1>3 DEF HandInv, GicTypeOK
<1> QED
  BY <1>2, <1>3, <1>4, <1>5 DEF h2

\* In a handler: the device's status, or the timer.
LEMMA HandleInv ==
    ASSUME HandInv, NEW c \in GicCores, NEW bs \in SUBSET qBits,
           ReadStatus(c, bs) \/ AckStatus(c, bs) \/ StopTimer(c)
    PROVE  HandInv'
<1>0. /\ qIrq \in [Banks -> Irqs] /\ qCpu \in [GicCores -> Cpus] /\ qStat \in SUBSET GicBits
      /\ qBits \in SUBSET GicBits /\ qTimer \in [GicCores -> BOOLEAN]
  BY DEF HandInv, GicTypeOK
<1>1. qHand[c] # <<>> /\ UNCHANGED qBits
  BY DEF ReadStatus, AckStatus, StopTimer, MayHandle, InHandler, gicRest
<1>2. Innermost(c) \in Handlers
  BY <1>1, InnermostType
<1>3. PICK h \in Handlers : /\ SetInnermost(c, h)
                            /\ h.id = Innermost(c).id
                            /\ h.dropped <=> Innermost(c).dropped
  <2> DEFINE i == Innermost(c)
  <2> HIDE DEF i
  <2>1. i \in Handlers
    BY <1>2 DEF i
  <2>2. CASE ReadStatus(c, bs)
    <3> DEFINE h == [i EXCEPT !.at = "read", !.seen = qStat]
    <3>1. SetInnermost(c, h)
      BY <2>2 DEF ReadStatus, i
    <3>2. h \in Handlers /\ h.id = i.id /\ h.dropped = i.dropped
      BY <1>0, <2>1 DEF Handlers
    <3> QED
      BY <3>1, <3>2 DEF i
  <2>3. CASE AckStatus(c, bs)
    <3> DEFINE h == [i EXCEPT !.at = "done", !.seen = {}]
    <3>1. SetInnermost(c, h)
      BY <2>3 DEF AckStatus, i
    <3>2. h \in Handlers /\ h.id = i.id /\ h.dropped = i.dropped
      BY <2>1 DEF Handlers
    <3> QED
      BY <3>1, <3>2 DEF i
  <2>4. CASE StopTimer(c)
    <3> DEFINE h == [i EXCEPT !.at = "done"]
    <3>1. SetInnermost(c, h)
      BY <2>4 DEF StopTimer, i
    <3>2. h \in Handlers /\ h.id = i.id /\ h.dropped = i.dropped
      BY <2>1 DEF Handlers
    <3> QED
      BY <3>1, <3>2 DEF i
  <2> QED
    BY <2>2, <2>3, <2>4
<1> DEFINE h2 == [qHand[c] EXCEPT ![Len(qHand[c])] = h]
<1>4. /\ h2 \in Seq(Handlers)
      /\ qHand' = [qHand EXCEPT ![c] = h2]
      /\ qHand' \in [GicCores -> Seq(Handlers)]
      /\ Len(h2) = Len(qHand[c])
      /\ h2[Len(h2)] = h
      /\ \A k \in 1 .. Len(qHand[c]) - 1 : h2[k] = qHand[c][k]
  BY <1>1, <1>3, InnermostSet
<1> HIDE DEF h2
<1>5. PICK stat \in SUBSET GicBits, timer \in [GicCores -> BOOLEAN] : Touched(qIrq, qCpu, stat, timer)
  <2>1. CASE ReadStatus(c, bs)
    BY <1>0, <2>1 DEF ReadStatus, TouchSlot
  <2>2. CASE AckStatus(c, bs)
    <3>1. (qStat \ Innermost(c).seen) \cup bs \in SUBSET GicBits
      BY <1>0
    <3> QED
      BY <1>0, <2>2, <3>1 DEF AckStatus, TouchSlot
  <2>3. CASE StopTimer(c)
    <3>1. [qTimer EXCEPT ![c] = FALSE] \in [GicCores -> BOOLEAN]
      BY <1>0, Zenon
    <3> QED
      BY <1>0, <2>3, <3>1 DEF StopTimer
  <2> QED
    BY <2>1, <2>2, <2>3
<1>6. /\ qIrq' \in [Banks -> Irqs] /\ qCpu' = qCpu /\ qStat' = stat /\ qTimer' = timer
      /\ \A b \in Banks : qIrq'[b].active = qIrq[b].active
  BY <1>0, <1>5, TouchedTypes
<1>7. GicTypeOK'
  BY <1>0, <1>1, <1>4, <1>5, <1>6 DEF GicTypeOK
<1>8. ASSUME NEW d \in GicCores
      PROVE  /\ Len(qHand'[d]) = Len(qHand[d])
             /\ \A k \in 1 .. Len(qHand[d]) : /\ qHand'[d][k].id = qHand[d][k].id
                                              /\ qHand'[d][k].dropped <=> qHand[d][k].dropped
  <2>1. qHand'[c] = h2 /\ (d # c => qHand'[d] = qHand[d])
    BY <1>4 DEF HandInv, GicTypeOK
  <2>2. CASE d = c
    <3>1. \A k \in 1 .. Len(qHand[c]) : k = Len(qHand[c]) \/ k \in 1 .. Len(qHand[c]) - 1
      BY <1>1, InnermostType
    <3>2. h2[Len(qHand[c])] = h /\ qHand[c][Len(qHand[c])] = Innermost(c)
      BY <1>4 DEF Innermost
    <3>3. \A k \in 1 .. Len(qHand[c]) : /\ h2[k].id = qHand[c][k].id
                                        /\ h2[k].dropped <=> qHand[c][k].dropped
      BY <1>3, <1>4, <3>1, <3>2
    <3> QED
      BY <1>4, <2>1, <2>2, <3>3
  <2> QED
    BY <2>1, <2>2
<1> QED
  BY <1>6, <1>7, <1>8, SpiBank, HandlersKept

\* read_iar1: what is acknowledged was not active, and is above what runs.
LEMMA ReadIar1Inv == ASSUME HandInv, NEW c \in GicCores, ReadIar1(c) PROVE HandInv'
<1> DEFINE i == Deliverable(qIrq, qCpu, c)
           b == Bank(c, i)
           q == [qIrq[b] EXCEPT !.active = TRUE, !.pending = FALSE]
           y == [id |-> i, prio |-> GroupPrio(qCpu[c], qIrq[b].prio)]
           x == [id |-> i, dropped |-> FALSE, seen |-> {}, at |-> IF i = Sgi THEN "done" ELSE "new"]
           u == [qCpu[c] EXCEPT !.stack = Append(qCpu[c].stack, y)]
<1>0. /\ qIrq \in [Banks -> Irqs] /\ qCpu \in [GicCores -> Cpus]
      /\ qHand \in [GicCores -> Seq(Handlers)]
  BY DEF HandInv, GicTypeOK
<1>1. UNCHANGED <<qStat, qTimer, qBits>>
  BY DEF ReadIar1
<1>2. CASE i = NoIrq
  <2>1. UNCHANGED <<qIrq, qCpu, qHand>>
    BY <1>2 DEF ReadIar1
  <2>2. GicTypeOK'
    BY <1>1, <2>1 DEF HandInv, GicTypeOK
  <2> QED
    BY <2>1, <2>2, QuietInv
<1>3. CASE i # NoIrq
  <2>1. /\ i = HighestPending(qIrq, c)
        /\ GroupPrio(qCpu[c], qIrq[b].prio) < Running(qCpu[c])
    BY <1>3 DEF Deliverable
  <2>2. i \in Intids /\ Eligible(qIrq, c, i)
    BY <1>0, <1>3, <2>1, HighestEligible
  <2>3. b \in Banks /\ qIrq[b] \in Irqs /\ ~qIrq[b].active /\ (b = <<0, Spi>> <=> i = Spi)
    BY <1>0, <2>2, SpiBank DEF Eligible
  <2>4. /\ qIrq' = [qIrq EXCEPT ![b] = q]
        /\ qCpu' = [qCpu EXCEPT ![c] = u]
        /\ qHand' = [qHand EXCEPT ![c] = Append(@, x)]
    BY <1>0, <1>3, <2>3 DEF ReadIar1
  <2>5. qCpu[c] \in Cpus /\ qCpu[c].stack \in Seq(Actives)
    BY <1>0 DEF Cpus
  <2>6. y \in Actives
    <3>1. qIrq[b].prio \in 0 .. 255 /\ qCpu[c].bpr \in MinBpr .. 7
      BY <2>3, <2>5 DEF Irqs, Cpus
    <3>2. GroupPrio(qCpu[c], qIrq[b].prio) = Masked(qIrq[b].prio, qCpu[c].bpr)
      BY Zenon DEF GroupPrio, Masked
    <3> HIDE DEF b
    <3>3. Masked(qIrq[b].prio, qCpu[c].bpr) \in GroupPrios
      BY <3>1, MaskedIsGroupPrio, Zenon
    <3> QED
      BY <2>2, <3>2, <3>3 DEF Actives
  <2>7. x \in Handlers /\ ~x.dropped /\ x.id = i /\ y.id = i
        /\ y.prio = GroupPrio(qCpu[c], qIrq[b].prio)
    BY <2>2 DEF Handlers
  <2> HIDE DEF i, b, x, y
  <2>8. q \in Irqs /\ q.active
    BY <2>3 DEF Irqs
  <2>9. u \in Cpus /\ u.stack = Append(qCpu[c].stack, y)
    <3> DEFINE s == Append(qCpu[c].stack, y)
    <3>1. s \in Seq(Actives)
      BY <2>5, <2>6
    <3> HIDE DEF s
    <3>2. [qCpu[c] EXCEPT !.stack = s] \in Cpus /\ [qCpu[c] EXCEPT !.stack = s].stack = s
      BY <2>5, <3>1 DEF Cpus
    <3> QED
      BY <3>2 DEF s
  <2> HIDE DEF q, u
  <2>10. qIrq' \in [Banks -> Irqs]
    BY <1>0, <2>3, <2>4, <2>8
  <2>11. qCpu' \in [GicCores -> Cpus]
    BY <1>0, <2>4, <2>9
  <2>12. qHand' \in [GicCores -> Seq(Handlers)]
    <3>1. Append(qHand[c], x) \in Seq(Handlers)
      BY <1>0, <2>7
    <3> QED
      BY <1>0, <2>4, <3>1
  <2>13. GicTypeOK'
    BY <1>1, <2>10, <2>11, <2>12 DEF HandInv, GicTypeOK
  <2>14. /\ qCpu'[c].stack = Append(qCpu[c].stack, y)
         /\ \A d \in GicCores \ {c} : qCpu'[d].stack = qCpu[d].stack
    BY <1>0, <2>4, <2>9
  <2>15. qCpu[c].stack # <<>> => y.prio < qCpu[c].stack[Len(qCpu[c].stack)].prio
    BY <2>1, <2>7 DEF Running
  <2>16. /\ x.id = Spi => ~qIrq[<<0, Spi>>].active
         /\ x.id = Spi \/ qIrq[<<0, Spi>>].active => qIrq'[<<0, Spi>>].active
    BY <1>0, <2>3, <2>4, <2>7, <2>8, SpiBank
  <2> QED
    BY <2>4, <2>6, <2>7, <2>13, <2>14, <2>15, <2>16, HandlersPush
<1> QED
  BY <1>2, <1>3

\* deactivate clears one interrupt's active state.
LEMMA DeactivateTypes ==
    ASSUME HandInv, NEW c \in GicCores, NEW i \in Intids
    PROVE  /\ Deactivate(qIrq, c, i) \in [Banks -> Irqs]
           /\ i # Spi => Deactivate(qIrq, c, i)[<<0, Spi>>] = qIrq[<<0, Spi>>]
<1> DEFINE b == Bank(c, i)
           q == [qIrq[b] EXCEPT !.active = FALSE]
<1>0. qIrq \in [Banks -> Irqs]
  BY DEF HandInv, GicTypeOK
<1>1. b \in Banks /\ (b = <<0, Spi>> <=> i = Spi) /\ qIrq[b] \in Irqs
  BY <1>0, SpiBank
<1>2. Deactivate(qIrq, c, i) = [qIrq EXCEPT ![b] = q]
  BY DEF Deactivate
<1> HIDE DEF b
<1>3. q \in Irqs
  BY <1>1 DEF Irqs
<1> HIDE DEF q
<1> QED
  BY <1>0, <1>1, <1>2, <1>3, SpiBank

\* write_eoir1: the priority is dropped, and with EOImode 0 the handler over.
LEMMA EndInterruptInv == ASSUME HandInv, NEW c \in GicCores, EndInterrupt(c) PROVE HandInv'
<1> DEFINE i == Innermost(c)
           irqs == IF qCpu[c].eoimode THEN qIrq ELSE Deactivate(qIrq, c, i.id)
           s == SubSeq(qCpu[c].stack, 1, Len(qCpu[c].stack) - 1)
           u == [qCpu[c] EXCEPT !.stack = s]
<1>0. /\ qIrq \in [Banks -> Irqs] /\ qCpu \in [GicCores -> Cpus] /\ qStat \in SUBSET GicBits
      /\ qBits \in SUBSET GicBits /\ qTimer \in [GicCores -> BOOLEAN]
      /\ qHand \in [GicCores -> Seq(Handlers)]
  BY DEF HandInv, GicTypeOK
<1>1. qHand[c] # <<>> /\ ~i.dropped /\ UNCHANGED qBits
  BY DEF EndInterrupt, InHandler, gicRest
<1>2. i \in Handlers /\ i.id \in Intids /\ qHand[c] \in Seq(Handlers) /\ Len(qHand[c]) \in Nat \ {0}
  BY <1>1, InnermostType DEF Handlers
<1>3. Touched(irqs, PopStack(qCpu, c), qStat, qTimer) /\ PopStack(qCpu, c) = [qCpu EXCEPT ![c] = u]
  BY DEF EndInterrupt, WriteEoir1, PopStack
<1>4. /\ irqs \in [Banks -> Irqs]
      /\ irqs[<<0, Spi>>] = qIrq[<<0, Spi>>] \/ (i.id = Spi /\ ~qCpu[c].eoimode)
  BY <1>0, <1>2, DeactivateTypes
<1> HIDE DEF irqs
<1>5. /\ qIrq' \in [Banks -> Irqs] /\ qCpu' = [qCpu EXCEPT ![c] = u]
      /\ qStat' = qStat /\ qTimer' = qTimer
      /\ qIrq'[<<0, Spi>>].active = irqs[<<0, Spi>>].active
  BY <1>0, <1>3, <1>4, TouchedTypes, SpiBank
<1>6. PICK h2 \in Seq(Handlers) :
          /\ qHand' = [qHand EXCEPT ![c] = h2]
          /\ Len(h2) = IF qCpu[c].eoimode THEN Len(qHand[c]) ELSE Len(qHand[c]) - 1
          /\ \A k \in 1 .. Len(qHand[c]) - 1 : h2[k] = qHand[c][k]
          /\ Len(h2) = Len(qHand[c]) => h2[Len(h2)].dropped /\ h2[Len(h2)].id = i.id
  <2>1. CASE qCpu[c].eoimode
    <3> DEFINE h == [i EXCEPT !.dropped = TRUE]
               h2 == [qHand[c] EXCEPT ![Len(qHand[c])] = h]
    <3>1. SetInnermost(c, h)
      BY <2>1 DEF EndInterrupt
    <3> HIDE DEF i
    <3>2. h \in Handlers /\ h.dropped /\ h.id = i.id
      BY <1>2 DEF Handlers
    <3> HIDE DEF h
    <3>3. /\ h2 \in Seq(Handlers) /\ qHand' = [qHand EXCEPT ![c] = h2]
          /\ Len(h2) = Len(qHand[c]) /\ h2[Len(h2)] = h
          /\ \A k \in 1 .. Len(qHand[c]) - 1 : h2[k] = qHand[c][k]
      BY <1>1, <3>1, <3>2, InnermostSet
    <3> HIDE DEF h2
    <3> QED
      BY <2>1, <3>2, <3>3
  <2>2. CASE ~qCpu[c].eoimode
    <3> DEFINE h2 == SubSeq(qHand[c], 1, Len(qHand[c]) - 1)
    <3>1. qHand' = [qHand EXCEPT ![c] = h2]
      BY <2>2 DEF EndInterrupt, PopHandler
    <3>2. /\ h2 \in Seq(Handlers) /\ Len(h2) = Len(qHand[c]) - 1
          /\ \A k \in 1 .. Len(qHand[c]) - 1 : h2[k] = qHand[c][k]
      BY <1>1, <1>2, Popped
    <3> HIDE DEF h2
    <3>3. Len(h2) # Len(qHand[c])
      BY <1>2, <3>2
    <3> QED
      BY <2>2, <3>1, <3>2, <3>3
  <2> QED
    BY <2>1, <2>2
<1>7. qHand' \in [GicCores -> Seq(Handlers)]
  BY <1>0, <1>6
<1>8. qCpu[c] \in Cpus /\ qCpu[c].stack \in Seq(Actives) /\ qCpu[c].stack # <<>>
  <2>1. qCpu[c] \in Cpus /\ qCpu[c].stack \in Seq(Actives)
    BY <1>0 DEF Cpus
  <2>2. OpenHandlers(qHand[c], qCpu[c].stack) /\ ~qHand[c][Len(qHand[c])].dropped
    BY <1>1 DEF HandInv, GicHandlers, GicStackOrdered, Innermost
  <2> DEFINE h3 == SubSeq(qHand[c], 1, Len(qHand[c]) - 1)
  <2>3. /\ h3 \in Seq(Handlers) /\ Len(h3) = Len(qHand[c]) - 1
        /\ \A k \in 1 .. Len(qHand[c]) - 1 : h3[k] = qHand[c][k]
    BY <1>1, <1>2, Popped
  <2> HIDE DEF h3
  <2>4. Len(h3) # Len(qHand[c])
    BY <1>2, <2>3
  <2>5. qCpu[c].stack # <<>>
    BY <1>1, <1>2, <2>1, <2>2, <2>3, <2>4, OpenPop
  <2> QED
    BY <2>1, <2>5
<1>9. u \in Cpus /\ u.stack = s
  <2>1. s \in Seq(Actives)
    BY <1>8, Popped
  <2> HIDE DEF s
  <2> QED
    BY <1>8, <2>1 DEF Cpus
<1> HIDE DEF u
<1>10. qCpu' \in [GicCores -> Cpus]
  BY <1>0, <1>5, <1>9
<1>11. GicTypeOK'
  BY <1>0, <1>1, <1>5, <1>7, <1>10 DEF GicTypeOK
<1>12. qCpu'[c].stack = s /\ \A d \in GicCores \ {c} : qCpu'[d].stack = qCpu[d].stack
  BY <1>0, <1>5, <1>9
<1>13. \/ qIrq[<<0, Spi>>].active => qIrq'[<<0, Spi>>].active
       \/ i.id = Spi /\ Len(h2) = Len(qHand[c]) - 1
  BY <1>4, <1>5, <1>6
<1>14. Len(h2) \in {Len(qHand[c]), Len(qHand[c]) - 1}
  BY <1>6
<1> QED
  BY <1>1, <1>6, <1>11, <1>12, <1>13, <1>14, HandlersDrop

\* write_dir: the handler, whose priority was dropped, is over.
LEMMA DeactivateInterruptInv ==
    ASSUME HandInv, NEW c \in GicCores, DeactivateInterrupt(c) PROVE HandInv'
<1> DEFINE i == Innermost(c)
           irqs == Deactivate(qIrq, c, i.id)
           h2 == SubSeq(qHand[c], 1, Len(qHand[c]) - 1)
<1>0. /\ qIrq \in [Banks -> Irqs] /\ qCpu \in [GicCores -> Cpus] /\ qStat \in SUBSET GicBits
      /\ qBits \in SUBSET GicBits /\ qTimer \in [GicCores -> BOOLEAN]
      /\ qHand \in [GicCores -> Seq(Handlers)]
  BY DEF HandInv, GicTypeOK
<1>1. /\ qHand[c] # <<>> /\ i.dropped /\ UNCHANGED qBits
      /\ qHand' = [qHand EXCEPT ![c] = h2]
      /\ Touched(irqs, qCpu, qStat, qTimer)
  BY DEF DeactivateInterrupt, InHandler, PopHandler, WriteDir, gicRest
<1>2. i.id \in Intids /\ qHand[c] \in Seq(Handlers)
  BY <1>1, InnermostType DEF Handlers
<1>3. irqs \in [Banks -> Irqs] /\ (irqs[<<0, Spi>>] = qIrq[<<0, Spi>>] \/ i.id = Spi)
  BY <1>2, DeactivateTypes
<1> HIDE DEF irqs
<1>4. /\ qIrq' \in [Banks -> Irqs] /\ qCpu' = qCpu /\ qStat' = qStat /\ qTimer' = qTimer
      /\ qIrq'[<<0, Spi>>].active = irqs[<<0, Spi>>].active
  BY <1>0, <1>1, <1>3, TouchedTypes, SpiBank
<1>5. h2 \in Seq(Handlers)
  BY <1>1, <1>2, Popped
<1>6. qHand' = [qHand EXCEPT ![c] = SubSeq(@, 1, Len(@) - 1)]
  BY <1>1
<1> HIDE DEF h2
<1>7. qHand' \in [GicCores -> Seq(Handlers)]
  BY <1>0, <1>1, <1>5
<1>8. GicTypeOK'
  BY <1>0, <1>1, <1>4, <1>7 DEF GicTypeOK
<1> QED
  BY <1>1, <1>3, <1>4, <1>6, <1>8, HandlersDone

\* Every step keeps the invariant, when the guest leaves ICACTIVER alone.
LEMMA NextHand == ASSUME "ClearActive" \notin GicOps, HandInv, [GicNext]_gicVars PROVE HandInv'
<1>1. CASE UNCHANGED gicVars
  <2>1. GicTypeOK' /\ UNCHANGED <<qCpu, qHand, qIrq>>
    BY <1>1 DEF gicVars, HandInv, GicTypeOK
  <2> QED
    BY <2>1, QuietInv
<1>2. ASSUME NEW c \in GicCores, GicHandles(c) PROVE HandInv'
  <2>1. {} \in SUBSET qBits
    OBVIOUS
  <2> QED
    BY <1>2, <2>1, DevicesInv, ReadIar1Inv, HandleInv, EndInterruptInv, DeactivateInterruptInv
       DEF GicHandles
<1> QED
  BY <1>1, <1>2, DevicesInv, WritesInv DEF GicNext

\* CpuIf::active_prio is "the highest on top" and holds what has not been
\* dropped, and an SPI is in the hands of one core at a time, for every number
\* of cores, all priorities and binary points, and any number of interrupts: if
\* the guest does not clear an interrupt's active state behind its handler.
THEOREM HandlersExclude == ASSUME "ClearActive" \notin GicOps PROVE GicSpec => []GicHandlers
<1>1. HandInv => GicHandlers
  BY DEF HandInv
<1> QED
  BY InitHand, NextHand, <1>1, PTL DEF GicSpec
=============================================================================
