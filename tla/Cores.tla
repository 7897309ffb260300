------------------------------- MODULE Cores -------------------------------
(***************************************************************************)
(* The cores of a machine in parallel on host threads: what they share     *)
(* (board.rs, Cores and Slot) and the loop every one of them runs          *)
(* (machine/parallel.rs, ParCore::run, stretch, service and wait_acks).    *)
(* A core asks the others to apply a request (a TLBI, a newly watched code *)
(* page) by posting it in their inboxes, and goes on only once every one   *)
(* of them has acknowledged it or is off.  PSCI turns cores on and off,    *)
(* the host stops them all.                                                *)
(*                                                                         *)
(* What a request does to the core that applies it, and what a core's      *)
(* instructions do, is left to the modules that extend this one; here a    *)
(* request is only counted.                                                *)
(*                                                                         *)
(* Every action holds at most one access that another core can race with:  *)
(* an inbox under its lock, or one atomic load or store.                   *)
(***************************************************************************)
EXTENDS Integers, FiniteSets

CONSTANTS N,        \* cores of the machine (MachineConfig::cpus)
          MaxPosted \* bound on the requests posted to one core

ASSUME NAssumption == N \in Nat \ {0}
ASSUME MaxPostedAssumption == MaxPosted \in Nat

Core == 0 .. N - 1

VARIABLES on,      \* Slot::on: powered on
          start,   \* Slot::start: a CPU_ON not yet seen by the core
          inbox,   \* Slot::inbox: requests posted and not taken (how many)
          posted,  \* Slot::posted
          applied, \* Slot::applied
          stop,    \* Cores::stop: the host wants the cores back
          halt,    \* Cores::halt: 0, 1 powered off, 2 reset
          par,     \* Cores::parallel
          pc,      \* where each core's thread is
          ret,     \* where wait_acks returns to
          cursor,  \* the next slot a broadcast or the all-off scan looks at
          taken,   \* requests taken by service and not yet acknowledged
          waits    \* ParCore::waits: <<core, count>> to be acknowledged

slots == <<on, start, inbox, posted, applied>>
threads == <<pc, ret, cursor, taken, waits>>
coreVars == <<slots, stop, halt, par, threads>>

(***************************************************************************)
(* "out": in the host, between two runs.  "top" .. "gate": the loop of     *)
(* ParCore::run.  "chk": the test at the top of stretch.  "exec": in the   *)
(* guest.  "bcast": in Cores::broadcast.  "acks" .. "poll": in wait_acks.  *)
(* "scan": the all-off test of Event::Off.                                 *)
(***************************************************************************)
PC == {"out", "top", "topdone", "runacks", "gate", "chk", "exec", "bcast",
       "acks", "acksdone", "poll", "scan"}

CoresTypeOK ==
    /\ on \in [Core -> BOOLEAN]
    /\ start \in [Core -> BOOLEAN]
    /\ inbox \in [Core -> Nat]
    /\ posted \in [Core -> Nat]
    /\ applied \in [Core -> Nat]
    /\ stop \in BOOLEAN
    /\ halt \in 0 .. 2
    /\ par \in BOOLEAN
    /\ pc \in [Core -> PC]
    /\ ret \in [Core -> {"gate", "chk"}]
    /\ cursor \in [Core -> 0 .. N]
    /\ taken \in [Core -> Nat]
    /\ waits \in [Core -> SUBSET (Core \X Nat)]

\* Machine::start_parallel: counters, inboxes and pending starts cleared;
\* core 0 is on, the others as PSCI left them in turns.
CoresInit ==
    /\ on \in {f \in [Core -> BOOLEAN] : f[0]}
    /\ start = [c \in Core |-> FALSE]
    /\ inbox = [c \in Core |-> 0]
    /\ posted = [c \in Core |-> 0]
    /\ applied = [c \in Core |-> 0]
    /\ stop = FALSE
    /\ halt = 0
    /\ par = TRUE
    /\ pc = [c \in Core |-> "out"]
    /\ ret = [c \in Core |-> "gate"]
    /\ cursor = [c \in Core |-> 0]
    /\ taken = [c \in Core |-> 0]
    /\ waits = [c \in Core |-> {}]

-----------------------------------------------------------------------------
Goto(c, l) == pc' = [pc EXCEPT ![c] = l]

\* The cores must leave the guest: the host stops them or the machine halts.
Ending == stop \/ halt # 0

\* Slot::has_requests.
HasRequests(c) == posted[c] > applied[c]

\* Cores::acked for what c waits for.
Acked(c) == \A w \in waits[c] : applied[w[1]] >= w[2] \/ ~on[w[1]]

\* Seeded fault: pops one request, there or not.
TakeOne(c) ==
    /\ taken' = [taken EXCEPT ![c] = 1]
    /\ inbox' = [inbox EXCEPT ![c] = @ - 1]

\* Cores::take: the whole inbox at once, under its lock.
Take(c) ==
    /\ taken' = [taken EXCEPT ![c] = inbox[c]]
    /\ inbox' = [inbox EXCEPT ![c] = 0]

-----------------------------------------------------------------------------
(* ParCore::run *)

\* Machine::run (core 0) or Core::run (the others, whose threads hand them
\* back once Core::stopped).
RunEnter(c) ==
    /\ par
    /\ pc[c] = "out"
    /\ c # 0 => ~Ending
    /\ Goto(c, "top")
    /\ UNCHANGED <<slots, stop, halt, par, ret, cursor, taken, waits>>

\* The machine powered off or reset: run returns.
RunHalted(c) ==
    /\ pc[c] = "top"
    /\ halt # 0
    /\ Goto(c, "out")
    /\ UNCHANGED <<slots, stop, halt, par, ret, cursor, taken, waits>>

AfterTopService(c) == IF waits[c] = {} THEN "gate" ELSE "runacks"

\* ParCore::service at the top of the loop, the inbox taken and applied ...
RunService(c) ==
    /\ pc[c] = "top"
    /\ halt = 0
    /\ Take(c)
    /\ Goto(c, IF inbox[c] = 0 THEN AfterTopService(c) ELSE "topdone")
    /\ UNCHANGED <<on, start, posted, applied, stop, halt, par, ret, cursor, waits>>

\* Seeded fault: one acknowledgement, however many were taken.
RunServedOnce(c) ==
    /\ pc[c] = "topdone"
    /\ applied' = [applied EXCEPT ![c] = @ + 1]
    /\ taken' = [taken EXCEPT ![c] = 0]
    /\ Goto(c, AfterTopService(c))
    /\ UNCHANGED <<on, start, inbox, posted, stop, halt, par, ret, cursor, waits>>

\* ... and then acknowledged.
RunServed(c) ==
    /\ pc[c] = "topdone"
    /\ applied' = [applied EXCEPT ![c] = @ + taken[c]]
    /\ taken' = [taken EXCEPT ![c] = 0]
    /\ Goto(c, AfterTopService(c))
    /\ UNCHANGED <<on, start, inbox, posted, stop, halt, par, ret, cursor, waits>>

\* Back to the host: a stop, the end of the budget or of the quantum, or core
\* 0 off.
RunReturn(c) ==
    /\ pc[c] = "gate"
    /\ \/ stop
       \/ on[c] /\ ~start[c]
       \/ c = 0 /\ ~on[c]
    /\ Goto(c, "out")
    /\ UNCHANGED <<slots, stop, halt, par, ret, cursor, taken, waits>>

\* Board::host_wait: a disk request only the host can complete.  Core 0 returns
\* to it before it looks at anything else.
RunBlocked(c) ==
    /\ c = 0
    /\ pc[c] = "gate"
    /\ ~stop
    /\ Goto(c, "out")
    /\ UNCHANGED <<slots, stop, halt, par, ret, cursor, taken, waits>>

\* Seeded fault: start is looked at only where the core was seen off.
PowerOnIfOff(c) ==
    /\ pc[c] = "gate"
    /\ ~stop
    /\ start[c]
    /\ ~on[c]
    /\ start' = [start EXCEPT ![c] = FALSE]
    /\ \E l \in {"top", "chk"} : Goto(c, l)
    /\ UNCHANGED <<on, inbox, posted, applied, stop, halt, par, ret, cursor, taken, waits>>

\* ParCore::power_on, from either place that takes Slot::start: the core was
\* seen off (continue) or was turned on while it was going off.
PowerOn(c) ==
    /\ pc[c] = "gate"
    /\ ~stop
    /\ start[c]
    /\ start' = [start EXCEPT ![c] = FALSE]
    /\ \E l \in {"top", "chk"} : Goto(c, l)
    /\ UNCHANGED <<on, inbox, posted, applied, stop, halt, par, ret, cursor, taken, waits>>

\* Off: a nap, then look again (core 0 returns to the host, RunReturn).
RunOff(c) ==
    /\ pc[c] = "gate"
    /\ ~stop
    /\ ~on[c]
    /\ c # 0
    /\ Goto(c, "top")
    /\ UNCHANGED <<slots, stop, halt, par, ret, cursor, taken, waits>>

RunGuest(c) ==
    /\ pc[c] = "gate"
    /\ ~stop
    /\ on[c]
    /\ ~start[c]
    /\ Goto(c, "chk")
    /\ UNCHANGED <<slots, stop, halt, par, ret, cursor, taken, waits>>

-----------------------------------------------------------------------------
(* ParCore::stretch *)

\* Requests, a kick, a stop, or the end of the stretch: back to the loop.
StretchEnd(c) ==
    /\ pc[c] = "chk"
    /\ Goto(c, "top")
    /\ UNCHANGED <<slots, stop, halt, par, ret, cursor, taken, waits>>

StretchRun(c) ==
    /\ pc[c] = "chk"
    /\ ~HasRequests(c)
    /\ ~Ending
    /\ Goto(c, "exec")
    /\ UNCHANGED <<slots, stop, halt, par, ret, cursor, taken, waits>>

\* Where stretch goes from the guest: to wait_acks if anything was posted.
Leave(c) ==
    /\ Goto(c, IF waits[c] = {} THEN "chk" ELSE "acks")
    /\ ret' = [ret EXCEPT ![c] = IF waits[c] = {} THEN @ ELSE "chk"]

\* The JIT run or the interpreted instruction ends.
ExecEnd(c) ==
    /\ pc[c] = "exec"
    /\ Leave(c)
    /\ UNCHANGED <<slots, stop, halt, par, cursor, taken, waits>>

\* Phys::tlbi_broadcast or Phys::watch_code: Cores::broadcast begins.
Broadcast(c) ==
    /\ pc[c] = "exec"
    /\ \A i \in Core : posted[i] < MaxPosted
    /\ Goto(c, "bcast")
    /\ UNCHANGED <<slots, stop, halt, par, ret, cursor, taken, waits>>

\* Cores::broadcast, one slot: its own and those that are off are skipped.
BroadcastSlot(c) ==
    LET i == cursor[c] IN
    /\ pc[c] = "bcast"
    /\ i < N
    /\ IF i = c \/ ~on[i]
         THEN UNCHANGED <<inbox, posted, waits>>
         ELSE /\ inbox' = [inbox EXCEPT ![i] = @ + 1]
              /\ posted' = [posted EXCEPT ![i] = @ + 1]
              /\ waits' = [waits EXCEPT ![c] = @ \cup {<<i, posted[i] + 1>>}]
    /\ cursor' = [cursor EXCEPT ![c] = i + 1]
    /\ UNCHANGED <<on, start, applied, stop, halt, par, pc, ret, taken>>

\* The broadcast returns, and with it the instruction that made it.
BroadcastEnd(c) ==
    /\ pc[c] = "bcast"
    /\ cursor[c] = N
    /\ Leave(c)
    /\ cursor' = [cursor EXCEPT ![c] = 0]
    /\ UNCHANGED <<slots, stop, halt, par, taken, waits>>

-----------------------------------------------------------------------------
(* ParCore::wait_acks *)

AcksDone(c) ==
    /\ pc[c] \in {"acks", "runacks"}
    /\ Acked(c)
    /\ waits' = [waits EXCEPT ![c] = {}]
    /\ Goto(c, ret[c])
    /\ ret' = [ret EXCEPT ![c] = "gate"]
    /\ UNCHANGED <<slots, stop, halt, par, cursor, taken>>

\* Seeded fault: waits without serving.
AcksWaitOnly(c) ==
    /\ pc[c] \in {"acks", "runacks"}
    /\ ~Acked(c)
    /\ Goto(c, "poll")
    /\ UNCHANGED <<slots, stop, halt, par, ret, cursor, taken, waits>>

\* Its own requests meanwhile: two cores may wait for each other.
AcksService(c) ==
    /\ pc[c] \in {"acks", "runacks"}
    /\ ~Acked(c)
    /\ Take(c)
    /\ Goto(c, IF inbox[c] = 0 THEN "poll" ELSE "acksdone")
    /\ UNCHANGED <<on, start, posted, applied, stop, halt, par, ret, cursor, waits>>

AcksServed(c) ==
    /\ pc[c] = "acksdone"
    /\ applied' = [applied EXCEPT ![c] = @ + taken[c]]
    /\ taken' = [taken EXCEPT ![c] = 0]
    /\ Goto(c, "poll")
    /\ UNCHANGED <<on, start, inbox, posted, stop, halt, par, ret, cursor, waits>>

\* Seeded fault: goes on waiting during a stop.
PollForever(c) ==
    /\ pc[c] = "poll"
    /\ Goto(c, "acks")
    /\ UNCHANGED <<slots, stop, halt, par, ret, cursor, taken, waits>>

\* A stop or a halt ends the wait with the acknowledgements still missing.
AcksPoll(c) ==
    /\ pc[c] = "poll"
    /\ IF Ending THEN Goto(c, ret[c]) /\ ret' = [ret EXCEPT ![c] = "gate"]
                 ELSE Goto(c, "acks") /\ UNCHANGED ret
    /\ UNCHANGED <<slots, stop, halt, par, cursor, taken, waits>>

-----------------------------------------------------------------------------
(* PSCI from a core in parallel *)

\* cpu_on: ALREADY_ON changes nothing; otherwise start and on are set under
\* the lock of start, then the target is kicked.
CpuOn(c, i) ==
    /\ pc[c] = "exec"
    /\ IF on[i] THEN UNCHANGED <<on, start>>
                ELSE /\ start' = [start EXCEPT ![i] = TRUE]
                     /\ on' = [on EXCEPT ![i] = TRUE]
    /\ Goto(c, "chk")
    /\ UNCHANGED <<inbox, posted, applied, stop, halt, par, ret, cursor, taken, waits>>

\* CPU_OFF (Event::Off): the core is off, and then looks whether all are.
CpuOff(c) ==
    /\ pc[c] = "exec"
    /\ on' = [on EXCEPT ![c] = FALSE]
    /\ Goto(c, "scan")
    /\ UNCHANGED <<start, inbox, posted, applied, stop, halt, par, ret, cursor, taken, waits>>

\* slots.iter().all(|s| !s.on): one slot at a time, up to the first that is on.
ScanSlot(c) ==
    /\ pc[c] = "scan"
    /\ cursor[c] < N
    /\ IF on[cursor[c]] THEN Goto(c, "top") /\ cursor' = [cursor EXCEPT ![c] = 0]
                        ELSE cursor' = [cursor EXCEPT ![c] = @ + 1] /\ UNCHANGED pc
    /\ UNCHANGED <<slots, stop, halt, par, ret, taken, waits>>

ScanAllOff(c) ==
    /\ pc[c] = "scan"
    /\ cursor[c] = N
    /\ halt' = 1
    /\ cursor' = [cursor EXCEPT ![c] = 0]
    /\ Goto(c, "top")
    /\ UNCHANGED <<slots, stop, par, ret, taken, waits>>

\* SYSTEM_OFF (1) and SYSTEM_RESET (2): halt().
SystemHalt(c) ==
    /\ pc[c] = "exec"
    /\ halt' \in {1, 2}
    /\ Goto(c, "top")
    /\ UNCHANGED <<slots, stop, par, ret, cursor, taken, waits>>

-----------------------------------------------------------------------------
(* The host, on core 0's thread *)

\* Machine::request_stop.
RequestStop ==
    /\ par
    /\ ~stop
    /\ pc[0] = "out"
    /\ stop' = TRUE
    /\ UNCHANGED <<slots, halt, par, threads>>

\* Machine::stop_parallel once every thread handed its core back: a core
\* turned on and not yet started starts in turns, the inboxes are emptied.
StopParallel ==
    /\ par
    /\ stop
    /\ \A c \in Core : pc[c] = "out"
    /\ start' = [c \in Core |-> FALSE]
    /\ inbox' = [c \in Core |-> 0]
    /\ stop' = FALSE
    /\ par' = FALSE
    /\ waits' = [c \in Core |-> {}]
    /\ UNCHANGED <<on, posted, applied, halt, pc, ret, cursor, taken>>

\* Machine::start_parallel again; the cores may have gone on and off in turns
\* meanwhile, one of them at least being on.
StartParallel ==
    /\ ~par
    /\ halt' = 0
    /\ on' \in {f \in [Core -> BOOLEAN] : \E c \in Core : f[c]}
    /\ par' = TRUE
    /\ posted' = [c \in Core |-> 0]
    /\ applied' = [c \in Core |-> 0]
    /\ UNCHANGED <<start, inbox, stop, pc, ret, cursor, taken, waits>>

-----------------------------------------------------------------------------
\* A core that goes on executing its context: on, with no CPU_ON to obey.
Live(c) == on[c] /\ ~start[c]

\* A core never executes an instruction with a broadcast TLBI of its own
\* unacknowledged (wait_acks gives up only into the exit of the loop).
NoGuestBeforeAcks ==
    \A c \in Core : pc[c] = "exec" => waits[c] = {}

\* Requests are neither lost nor acknowledged twice: what was posted to a core
\* is acknowledged, being applied, or in its inbox (Cores::take and done).
Accounting ==
    par => \A c \in Core : posted[c] = applied[c] + taken[c] + inbox[c]

\* A core that is off, or was turned on again and did not start yet, is not in
\* the guest: CPU_ON never interrupts a context that still runs.
OffIsQuiet ==
    \A c \in Core : ~Live(c) => pc[c] \notin {"chk", "exec", "bcast", "acks", "acksdone", "poll"}

\* CPU_OFF of the last core is noticed: with every core off the machine
\* powers off, or a core is still looking.
AllOffHalts ==
    par /\ (\A c \in Core : ~on[c]) => halt # 0 \/ \E c \in Core : pc[c] = "scan"

\* The protocol between the cores: the four above together, whatever PSCI
\* calls, halts, stops and restarts come in between.
CoresSafe == NoGuestBeforeAcks /\ Accounting /\ OffIsQuiet /\ AllOffHalts
=============================================================================
