-------------------------------- MODULE Gic --------------------------------
(***************************************************************************)
(* The interrupt path: device lines brought to the GICv3 (virt.rs and      *)
(* board.rs, update_irqs), the GIC itself (vetro-platform/src/gic.rs) and  *)
(* the level of every core's IRQ line cached outside the board's lock      *)
(* (board.rs, lines_changed and Env::irq_line).  The cores run in turns or *)
(* in parallel; their interrupt handler is external, the way Linux drives  *)
(* a GICv3 and a virtio-mmio transport.                                    *)
(*                                                                         *)
(* The interrupts are one SGI and one timer PPI per core and one SPI, the  *)
(* line of a virtio-mmio slot.  Everything is in group 1 and the           *)
(* distributor is enabled, as Linux leaves them at boot.                   *)
(***************************************************************************)
EXTENDS Integers, Sequences, FiniteSets

CONSTANTS GicCores,    \* cores, 0 .. n - 1
          GicTriggers, \* <<edge, bits>>: how the SPI is configured, and the
                       \* InterruptStatus bits its device raises
          GicPrios,    \* the priorities the guest writes for the SPI
          GicPmrs,     \* the priority masks it writes
          GicBprs,     \* the binary points it writes
          GicOps,      \* the bitmap registers it writes for the SPI
          MaxRaises    \* interrupts raised and registers written in a behaviour

ASSUME GicCoresAssumption == 0 \in GicCores /\ GicCores \subseteq Nat
ASSUME GicPriosAssumption == GicPrios \subseteq 0 .. 255
ASSUME GicPmrsAssumption == GicPmrs \subseteq 0 .. 255
ASSUME GicBprsAssumption == GicBprs \subseteq 0 .. 7
ASSUME GicOpsAssumption == GicOps \subseteq {"SetEnable", "ClearEnable", "SetPending", "ClearPending",
                                             "SetActive", "ClearActive"}

Sgi == 1
Ppi == 27
Spi == 48
Intids == {Sgi, Ppi, Spi}
\* Where an INTID's state is: banked below 32, in the distributor above.
Bank(c, i) == IF i < 32 THEN <<c, i>> ELSE <<0, i>>
Banks == {Bank(c, i) : c \in GicCores, i \in Intids}
NoIrq == 1023
MinBpr == 3

VARIABLES
    qIrq,    \* the state of every interrupt
    qCpu,    \* the CPU interface of every core
    qCache,  \* Slot::irq: "unknown", "low" or "high"
    qPar,    \* Cores::parallel
    qCur,    \* the core that runs, in turns
    qDirty,  \* Board::irq_dirty
    qStat,   \* InterruptStatus of the device on the SPI
    qTimer,  \* each core's timer has fired and is not masked
    qBits,   \* the InterruptStatus bits the device raises
    qPc,     \* each core: "run", or "taken" between the exception and the IAR read
    qHand,   \* the interrupts each core's handler has acknowledged, innermost last
    qRaised  \* interrupts raised and registers written so far

gicVars == <<qIrq, qCpu, qCache, qPar, qCur, qDirty, qStat, qTimer, qBits, qPc, qHand, qRaised>>
gicGuest == <<qPc, qHand>>

\* Gic::with_cpus and the guest's boot: everything enabled, PMR open.
GicInitAs(t, p, par, split) ==
    /\ qIrq = [b \in Banks |->
           [enabled |-> TRUE, pending |-> FALSE, level |-> FALSE, active |-> FALSE,
            edge |-> b[2] = Sgi \/ (b[2] = Spi /\ t[1]), prio |-> p, router |-> 0]]
    /\ qCpu = [c \in GicCores |-> [pmr |-> 240, bpr |-> MinBpr, eoimode |-> split, stack |-> <<>>]]
    /\ qCache = [c \in GicCores |-> IF par THEN "low" ELSE "unknown"]
    /\ qPar = par /\ qCur = 0 /\ qDirty = FALSE
    /\ qStat = {} /\ qTimer = [c \in GicCores |-> FALSE] /\ qBits = t[2]
    /\ qPc = [c \in GicCores |-> "run"] /\ qHand = [c \in GicCores |-> <<>>]
    /\ qRaised = 0

GicInit ==
    \E t \in GicTriggers, p \in GicPrios, par, split \in BOOLEAN : GicInitAs(t, p, par, split)

-----------------------------------------------------------------------------
(* gic.rs: selection.                                                      *)

IsPending(q) == q.pending \/ (~q.edge /\ q.level)

\* Seeded fault: an active interrupt is signalled again.
EligibleActive(irqs, c, i) ==
    LET q == irqs[Bank(c, i)] IN q.enabled /\ IsPending(q) /\ (i >= 32 => q.router = c)

Eligible(irqs, c, i) ==
    LET q == irqs[Bank(c, i)]
    IN  q.enabled /\ IsPending(q) /\ ~q.active /\ (i >= 32 => q.router = c)

\* highest_pending_of: the lowest priority value, then the lowest INTID.
HighestPending(irqs, c) ==
    LET S == {i \in Intids : Eligible(irqs, c, i)}
        P(i) == irqs[Bank(c, i)].prio
    IN  IF S = {} THEN NoIrq
        ELSE CHOOSE i \in S : \A j \in S : P(i) < P(j) \/ (P(i) = P(j) /\ i <= j)

GroupPrio(u, p) == p - (p % (2 ^ u.bpr))

Running(u) == IF u.stack = <<>> THEN 256 ELSE u.stack[Len(u.stack)].prio

\* deliverable: the interrupt the CPU interface of c would signal.
Deliverable(irqs, cpus, c) ==
    LET i == HighestPending(irqs, c)
        p == irqs[Bank(c, i)].prio
    IN  IF i # NoIrq /\ p < cpus[c].pmr /\ GroupPrio(cpus[c], p) < Running(cpus[c])
        THEN i ELSE NoIrq

IrqLineOf(irqs, cpus, c) == Deliverable(irqs, cpus, c) # NoIrq

\* set_private_level: on an edge-triggered interrupt the rise latches.
SetLevel(q, l) == [q EXCEPT !.pending = @ \/ (q.edge /\ l /\ ~q.level), !.level = l]

-----------------------------------------------------------------------------
(* board.rs: bringing the lines to the GIC and caching the cores' lines.   *)

\* Virt::update_irqs, over the lines modelled.
Lines(irqs, stat, timer) ==
    [b \in Banks |-> CASE b[2] = Spi -> SetLevel(irqs[b], stat # {})
                       [] b[2] = Ppi -> SetLevel(irqs[b], timer[b[1]])
                       [] OTHER -> irqs[b]]

\* Seeded fault: in turns too, a cached line is left as it was.
LinesChangedKeeps(irqs, cpus, par) ==
    [c \in GicCores |-> IF ~par THEN qCache[c]
                        ELSE IF IrqLineOf(irqs, cpus, c) THEN "high" ELSE "low"]

\* Board::lines_changed: the cache after a change of the GIC's state.
LinesChanged(irqs, cpus, par) ==
    [c \in GicCores |-> IF ~par THEN "unknown"
                        ELSE IF IrqLineOf(irqs, cpus, c) THEN "high" ELSE "low"]

\* Board::update_irqs, with a device's and the timers' lines now.
UpdateIrqs(irqs, cpus, par, stat, timer) ==
    LET n == Lines(irqs, stat, timer)
    IN  /\ qIrq' = n
        /\ qCache' = LinesChanged(n, cpus, par)
        /\ qDirty' = FALSE

\* The end of every access that may change a line: in turns irq_dirty is left
\* for the run loop, in parallel Board::settle updates the lines at once.
Touched(irqs, cpus, stat, timer) ==
    /\ qStat' = stat /\ qTimer' = timer /\ qCpu' = cpus
    /\ IF qPar
       THEN UpdateIrqs(irqs, cpus, qPar, stat, timer)
       ELSE qIrq' = irqs /\ qCache' = LinesChanged(irqs, cpus, qPar) /\ qDirty' = TRUE

\* The cores that execute: in turns the current one, with its lines in sync
\* (the top of run_cpu's loop).
GicRuns(c) == qPar \/ (c = qCur /\ ~qDirty)

\* One more of the events that are bounded.
GicEvent == qRaised < MaxRaises /\ qRaised' = qRaised + 1

\* sync_irqs (in turns) and ParCore::sync: the devices serviced, the lines
\* brought to the GIC.
SyncIrqs ==
    /\ qDirty
    /\ UpdateIrqs(qIrq, qCpu, qPar, qStat, qTimer)
    /\ UNCHANGED <<qCpu, qPar, qCur, qStat, qTimer, qBits, gicGuest, qRaised>>

\* VirtioMmio::service gives the driver a reason to look, and the lines follow
\* under the same lock.
DeviceRaises(b) ==
    /\ GicEvent /\ b \in qBits
    /\ qStat' = qStat \cup {b}
    /\ UpdateIrqs(qIrq, qCpu, qPar, qStat', qTimer)
    /\ UNCHANGED <<qCpu, qPar, qCur, qTimer, qBits, gicGuest>>

\* The counter reaches a core's timer deadline: whoever watches it syncs.
TimerFires(c) ==
    /\ GicEvent /\ ~qTimer[c]
    /\ qTimer' = [qTimer EXCEPT ![c] = TRUE]
    /\ UpdateIrqs(qIrq, qCpu, qPar, qStat, qTimer')
    /\ UNCHANGED <<qCpu, qPar, qCur, qStat, qBits, gicGuest>>

\* Machine::switch_to: the turn of another core; the last one began with
\* sync_irqs.
SwitchTurn(c) ==
    /\ ~qPar /\ c # qCur /\ ~qDirty
    /\ qCur' = c
    /\ qCache' = LinesChanged(qIrq, qCpu, qPar)
    /\ qDirty' = TRUE
    /\ UNCHANGED <<qIrq, qCpu, qPar, qStat, qTimer, qBits, gicGuest, qRaised>>

\* Machine::start_parallel and stop_parallel.
GoParallel ==
    /\ ~qPar /\ qPar' = TRUE
    /\ UpdateIrqs(qIrq, qCpu, TRUE, qStat, qTimer)
    /\ UNCHANGED <<qCpu, qCur, qStat, qTimer, qBits, gicGuest, qRaised>>

GoTurns ==
    /\ qPar /\ qPar' = FALSE
    /\ qCur' = 0
    /\ qCache' = LinesChanged(qIrq, qCpu, FALSE)
    /\ qDirty' = TRUE
    /\ UNCHANGED <<qIrq, qCpu, qStat, qTimer, qBits, gicGuest, qRaised>>

-----------------------------------------------------------------------------
(* A core takes an interrupt.                                              *)

\* Env::irq_line: the cached level, or the line computed and stored.
CoreLine(c) ==
    IF qCache[c] = "unknown" THEN IrqLineOf(qIrq, qCpu, c) ELSE qCache[c] = "high"

CacheLine(c) == [qCache EXCEPT ![c] = IF CoreLine(c) THEN "high" ELSE "low"]

\* Cpu::take_interrupt, with PSTATE.I clear ...
TakeInterrupt(c) ==
    /\ qPc[c] = "run" /\ GicRuns(c) /\ CoreLine(c)
    /\ qCache' = CacheLine(c)
    /\ qPc' = [qPc EXCEPT ![c] = "taken"]
    /\ UNCHANGED <<qIrq, qCpu, qPar, qCur, qDirty, qStat, qTimer, qBits, qHand, qRaised>>

\* ... or the line looked at and low.
LookLine(c) ==
    /\ GicRuns(c) /\ qCache[c] = "unknown"
    /\ qCache' = CacheLine(c)
    /\ UNCHANGED <<qIrq, qCpu, qPar, qCur, qDirty, qStat, qTimer, qBits, gicGuest, qRaised>>

\* ICC_IAR1_EL1: read_iar1; the lines, but no device, are looked at again.
ReadIar1(c) ==
    LET i == Deliverable(qIrq, qCpu, c)
        q == qIrq[Bank(c, i)]
        irqs == [qIrq EXCEPT ![Bank(c, i)].active = TRUE, ![Bank(c, i)].pending = FALSE]
        cpus == [qCpu EXCEPT ![c].stack = Append(@, [id |-> i, prio |-> GroupPrio(qCpu[c], q.prio)])]
    IN  /\ qPc[c] = "taken" /\ GicRuns(c)
        /\ qPc' = [qPc EXCEPT ![c] = "run"]
        /\ IF i = NoIrq
           THEN /\ qCache' = LinesChanged(qIrq, qCpu, qPar)
                /\ UNCHANGED <<qIrq, qCpu, qHand>>
           ELSE /\ qIrq' = irqs /\ qCpu' = cpus
                /\ qCache' = LinesChanged(irqs, cpus, qPar)
                /\ qHand' = [qHand EXCEPT ![c] = Append(@, [id |-> i, dropped |-> FALSE, seen |-> {},
                                                          at |-> IF i = Sgi THEN "done" ELSE "new"])]
        /\ UNCHANGED <<qPar, qCur, qDirty, qStat, qTimer, qBits, qRaised>>

\* deactivate, on the core that runs.
Deactivate(irqs, c, i) == [irqs EXCEPT ![Bank(c, i)].active = FALSE]

PopStack(cpus, c) == [cpus EXCEPT ![c].stack = SubSeq(@, 1, Len(@) - 1)]

\* ICC_EOIR1_EL1: write_eoir1.
WriteEoir1(c, i) ==
    Touched(IF qCpu[c].eoimode THEN qIrq ELSE Deactivate(qIrq, c, i), PopStack(qCpu, c), qStat, qTimer)

\* ICC_DIR_EL1: write_dir.
WriteDir(c, i) == Touched(Deactivate(qIrq, c, i), qCpu, qStat, qTimer)

\* ICC_SGI1R_EL1: write_sgi1r; one target core, itself included.
WriteSgi1r(d) == Touched([qIrq EXCEPT ![Bank(d, Sgi)].pending = TRUE], qCpu, qStat, qTimer)

\* write_bits for one interrupt.
WriteBits(q, op) ==
    CASE op = "SetEnable" -> [q EXCEPT !.enabled = TRUE]
      [] op = "ClearEnable" -> [q EXCEPT !.enabled = FALSE]
      [] op = "SetPending" -> [q EXCEPT !.pending = TRUE]
      [] op = "ClearPending" -> [q EXCEPT !.pending = FALSE]
      [] op = "SetActive" -> [q EXCEPT !.active = TRUE]
      [] op = "ClearActive" -> [q EXCEPT !.active = FALSE]

-----------------------------------------------------------------------------
(* The guest's interrupt handler (external).                               *)

Innermost(c) == qHand[c][Len(qHand[c])]
SetInnermost(c, h) == qHand' = [qHand EXCEPT ![c][Len(qHand[c])] = h]
PopHandler(c) == qHand' = [qHand EXCEPT ![c] = SubSeq(@, 1, Len(@) - 1)]
InHandler(c) == qPc[c] = "run" /\ GicRuns(c) /\ qHand[c] # <<>>
gicRest == <<qPar, qCur, qBits, qPc>>

\* With EOImode = 1 the priority is dropped first, with EOImode = 0 last.
MayHandle(c) == InHandler(c) /\ Innermost(c).dropped = qCpu[c].eoimode

\* A register of the slot is touched: in parallel Board::settle services the
\* device, which may raise more, before the lines are brought to the GIC.
TouchSlot(stat, bs) ==
    /\ IF bs = {} THEN qRaised' = qRaised ELSE qPar /\ GicEvent
    /\ Touched(qIrq, qCpu, stat \cup bs, qTimer)

\* vm_interrupt reads InterruptStatus ...
ReadStatus(c, bs) ==
    /\ MayHandle(c) /\ Innermost(c).id = Spi /\ Innermost(c).at = "new"
    /\ SetInnermost(c, [Innermost(c) EXCEPT !.at = "read", !.seen = qStat])
    /\ TouchSlot(qStat, bs)
    /\ UNCHANGED gicRest

\* ... and acknowledges the bits it read.
AckStatus(c, bs) ==
    /\ MayHandle(c) /\ Innermost(c).id = Spi /\ Innermost(c).at = "read"
    /\ SetInnermost(c, [Innermost(c) EXCEPT !.at = "done", !.seen = {}])
    /\ TouchSlot(qStat \ Innermost(c).seen, bs)
    /\ UNCHANGED gicRest

\* The timer's handler masks it or programs a later deadline.
StopTimer(c) ==
    /\ MayHandle(c) /\ Innermost(c).id = Ppi /\ Innermost(c).at = "new"
    /\ SetInnermost(c, [Innermost(c) EXCEPT !.at = "done"])
    /\ Touched(qIrq, qCpu, qStat, [qTimer EXCEPT ![c] = FALSE])
    /\ UNCHANGED <<gicRest, qRaised>>

EndInterrupt(c) ==
    /\ InHandler(c) /\ ~Innermost(c).dropped
    /\ IF qCpu[c].eoimode
       THEN SetInnermost(c, [Innermost(c) EXCEPT !.dropped = TRUE])
       ELSE Innermost(c).at = "done" /\ PopHandler(c)
    /\ WriteEoir1(c, Innermost(c).id)
    /\ UNCHANGED <<gicRest, qRaised>>

DeactivateInterrupt(c) ==
    /\ InHandler(c) /\ Innermost(c).dropped /\ Innermost(c).at = "done"
    /\ PopHandler(c)
    /\ WriteDir(c, Innermost(c).id)
    /\ UNCHANGED <<gicRest, qRaised>>

\* Another core is called.
SendSgi(c, d) ==
    /\ qPc[c] = "run" /\ GicRuns(c) /\ GicEvent
    /\ WriteSgi1r(d)
    /\ UNCHANGED <<gicRest, qHand>>

\* The registers of the CPU interface, outside a handler.
SetPmr(c, v) ==
    /\ qPc[c] = "run" /\ GicRuns(c) /\ GicEvent /\ v # qCpu[c].pmr
    /\ Touched(qIrq, [qCpu EXCEPT ![c].pmr = v - (v % 8)], qStat, qTimer)
    /\ UNCHANGED <<gicRest, qHand>>

SetBpr(c, v) ==
    /\ qPc[c] = "run" /\ GicRuns(c) /\ GicEvent /\ v # qCpu[c].bpr
    /\ Touched(qIrq, [qCpu EXCEPT ![c].bpr = IF v < MinBpr THEN MinBpr ELSE v], qStat, qTimer)
    /\ UNCHANGED <<gicRest, qHand>>

\* The distributor: the SPI's priority, its target, its bits.
SetSpi(c, q) ==
    /\ qPc[c] = "run" /\ GicRuns(c) /\ GicEvent /\ q # qIrq[Bank(c, Spi)]
    /\ Touched([qIrq EXCEPT ![Bank(c, Spi)] = q], qCpu, qStat, qTimer)
    /\ UNCHANGED <<gicRest, qHand>>

SetPrio(c, p) == SetSpi(c, [qIrq[Bank(c, Spi)] EXCEPT !.prio = p])
SetRouter(c, d) == SetSpi(c, [qIrq[Bank(c, Spi)] EXCEPT !.router = d])
SetBits(c, op) == SetSpi(c, WriteBits(qIrq[Bank(c, Spi)], op))

GicHandles(c) ==
    TakeInterrupt(c) \/ ReadIar1(c) \/ StopTimer(c)
    \/ EndInterrupt(c) \/ DeactivateInterrupt(c)
    \/ \E bs \in SUBSET qBits : ReadStatus(c, bs) \/ AckStatus(c, bs)

GicNext ==
    \/ SyncIrqs
    \/ \E b \in qBits : DeviceRaises(b)
    \/ GoParallel
    \/ GoTurns
    \/ \E c \in GicCores :
        \/ TimerFires(c)
        \/ SwitchTurn(c)
        \/ LookLine(c)
        \/ GicHandles(c)
        \/ \E d \in GicCores : SendSgi(c, d) \/ SetRouter(c, d)
        \/ \E v \in GicPmrs : SetPmr(c, v)
        \/ \E v \in GicBprs : SetBpr(c, v)
        \/ \E p \in GicPrios : SetPrio(c, p)
        \/ \E op \in GicOps : SetBits(c, op)

-----------------------------------------------------------------------------
(* Properties.                                                             *)

\* The level a core reads without the board's lock (Slot::irq) is the level of
\* its line, whoever changed the GIC last; in parallel it is never unknown,
\* because nobody would compute it again.
GicCacheFresh ==
    \A c \in GicCores :
        /\ qCache[c] = "high" => IrqLineOf(qIrq, qCpu, c)
        /\ qCache[c] = "low" => ~IrqLineOf(qIrq, qCpu, c)
        /\ qPar => qCache[c] # "unknown"

\* An SPI is in the hands of one core at a time, however often it is routed
\* elsewhere or raised again while its handler runs.
GicOneHandler ==
    \A c, d \in GicCores : \A k \in 1 .. Len(qHand[c]), l \in 1 .. Len(qHand[d]) :
        qHand[c][k].id = Spi /\ qHand[d][l].id = Spi => c = d /\ k = l

\* The active priorities s are those of the handlers in h whose priority has
\* not been dropped: f places each among the handlers, in their order.
Embeds(f, h, s) ==
    /\ \A j, k \in 1 .. Len(s) : j < k => f[j] < f[k]
    /\ \A k \in 1 .. Len(s) : ~h[f[k]].dropped /\ h[f[k]].id = s[k].id
    /\ \A m \in 1 .. Len(h) : ~h[m].dropped => \E k \in 1 .. Len(s) : f[k] = m

OpenHandlers(h, s) == \E f \in [1 .. Len(s) -> 1 .. Len(h)] : Embeds(f, h, s)

\* CpuIf::active_prio, "the highest on top": it holds the interrupts whose
\* priority has not been dropped, innermost last, and their group priorities
\* strictly decrease, whatever priority or binary point is written meanwhile.
GicStackOrdered ==
    \A c \in GicCores :
        LET s == qCpu[c].stack
        IN  OpenHandlers(qHand[c], s) /\ \A k \in 2 .. Len(s) : s[k].prio < s[k - 1].prio

\* Handlers nest by priority on a core and exclude each other across cores.
GicHandlers == GicOneHandler /\ GicStackOrdered

\* signal_config_change: "the interrupt fires, if the driver is already
\* active".  A configuration change the driver has not read has its interrupt
\* pending, or a handler still at the status, or lines still to be
\* brought to the GIC.
GicConfigFires ==
    "config" \in qStat =>
        \/ qDirty
        \/ IsPending(qIrq[Bank(0, Spi)])
        \/ \E c \in GicCores : \E k \in 1..Len(qHand[c]) :
              qHand[c][k].id = Spi /\ qHand[c][k].at # "done"
=============================================================================
