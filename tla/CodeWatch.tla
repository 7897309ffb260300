----------------------------- MODULE CodeWatch -----------------------------
(***************************************************************************)
(* Translated code and guest writes with the cores in parallel: one page   *)
(* of RAM, the watch bit of board.rs (Ram::watch_code, touch), the write   *)
(* entries of each JIT's software TLB (vetro-jit sys.rs, fill, st) and the *)
(* block each JIT translated from the page (install, drain).  A write      *)
(* through the software TLB is direct and tells nobody, so a page with     *)
(* blocks must have no write entry anywhere: install sets the watch bit,   *)
(* broadcasts Request::Watch (module Cores) and translates once it is      *)
(* acknowledged.                                                           *)
(***************************************************************************)
EXTENDS Cores

CONSTANTS MaxWrites,   \* bound on the writes to the page
          Translators, \* the cores whose guest executes code of the page
          Quiet        \* no store to the page overlaps an install of it

ASSUME MaxWritesAssumption == MaxWrites \in Nat
ASSUME TranslatorsAssumption == Translators \subseteq Core
ASSUME QuietAssumption == Quiet \in BOOLEAN

VARIABLES words,   \* the page's content: which write it is from
          watched, \* its bit in Ram::code
          dirty,   \* it is in the core's list of Ram::dirty
          direct,  \* the core's software TLB has a write entry for it
          block,   \* what the core's block was translated from, 0 for none
          read,    \* the words install read
          was,     \* install's was_watched
          fresh,   \* watch_code's fresh
          at       \* where the core is in its JIT

jitVars == <<words, watched, dirty, direct, block, read, was, fresh, at>>
vars == <<coreVars, jitVars>>

(***************************************************************************)
(* The values of at.                                                       *)
(* "out": not in a JIT run.  "in": between two regions.  "one": after a    *)
(* run of no steps, for one instruction to be interpreted.  "found" ..     *)
(* "set": in install, after discover, is_watched, the fresh test and the   *)
(* watch bit.  "stored": in a store, the bytes written, before touch;      *)
(* "unwatched": in touch, the bit cleared, before the dirty lists.         *)
(* "done": the interpreted instruction is over.                            *)
(***************************************************************************)

Init ==
    /\ CoresInit
    /\ words = 1
    /\ watched = FALSE
    /\ dirty = [c \in Core |-> FALSE]
    /\ direct = [c \in Core |-> FALSE]
    /\ block = [c \in Core |-> 0]
    /\ read = [c \in Core |-> 0]
    /\ was = [c \in Core |-> FALSE]
    /\ fresh = [c \in Core |-> FALSE]
    /\ at = [c \in Core |-> "out"]

-----------------------------------------------------------------------------
\* A store to the page is between its bytes and the end of touch.
Storing == \E c \in Core : at[c] \in {"stored", "unwatched"}

Here(c, l) == pc[c] = "exec" /\ at[c] = l

GoTo(c, l) == at' = [at EXCEPT ![c] = l]

\* SysJit::drain: the blocks of the pages in the core's dirty list go.
Drain(c) ==
    /\ dirty' = [dirty EXCEPT ![c] = FALSE]
    /\ block' = [block EXCEPT ![c] = IF dirty[c] THEN 0 ELSE @]

\* SysJit::flush_writes.
FlushWrites(c) == direct' = [direct EXCEPT ![c] = FALSE]

\* SysJit::run begins.
JitEnter(c) ==
    /\ Here(c, "out")
    /\ Drain(c)
    /\ GoTo(c, "in")
    /\ UNCHANGED <<coreVars, words, watched, direct, read, was, fresh>>

\* The run, or the interpreted instruction, ends.
JitLeave(c) ==
    /\ at[c] \in {"out", "in", "one", "done"}
    /\ ExecEnd(c)
    /\ GoTo(c, "out")
    /\ UNCHANGED <<words, watched, dirty, direct, block, read, was, fresh>>

-----------------------------------------------------------------------------
(* SysJit::install *)

Discover(c) ==
    /\ c \in Translators
    /\ Here(c, "in")
    /\ block[c] = 0
    /\ Quiet => ~Storing
    /\ read' = [read EXCEPT ![c] = words]
    /\ GoTo(c, "found")
    /\ UNCHANGED <<coreVars, words, watched, dirty, direct, block, was, fresh>>

WasWatched(c) ==
    /\ Here(c, "found")
    /\ was' = [was EXCEPT ![c] = watched]
    /\ GoTo(c, "tested")
    /\ UNCHANGED <<coreVars, words, watched, dirty, direct, block, read, fresh>>

\* Phys::watch_code: is it fresh?
AskFresh(c) ==
    /\ Here(c, "tested")
    /\ fresh' = [fresh EXCEPT ![c] = ~watched]
    /\ GoTo(c, "asked")
    /\ UNCHANGED <<coreVars, words, watched, dirty, direct, block, read, was>>

\* Ram::watch_code sets the bit; a fresh page is broadcast.
SetWatch(c) ==
    /\ Here(c, "asked")
    /\ watched' = TRUE
    /\ GoTo(c, "set")
    /\ IF fresh[c] THEN Broadcast(c) ELSE UNCHANGED coreVars
    /\ UNCHANGED <<words, dirty, direct, block, read, was, fresh>>

\* Cores::broadcast returns into install.
Posted(c) ==
    /\ pc[c] = "bcast"
    /\ cursor[c] = N
    /\ Goto(c, "exec")
    /\ cursor' = [cursor EXCEPT ![c] = 0]
    /\ UNCHANGED <<slots, stop, halt, par, ret, taken, waits, jitVars>>

\* Seeded fault: no watch_ready.
NeverWait(c) == FALSE

\* A page not watched before: no direct writes from here, and (watch_ready)
\* the block waits for the others, to be read again.
MustWait(c) == ~was[c] /\ waits[c] # {}

FlushOwn(c) == direct' = [direct EXCEPT ![c] = @ /\ was[c]]

\* The run ends; after one of no steps stretch interprets an instruction.
Cold(c) ==
    /\ Here(c, "set")
    /\ MustWait(c)
    /\ FlushOwn(c)
    /\ read' = [read EXCEPT ![c] = 0]
    /\ was' = [was EXCEPT ![c] = FALSE]
    /\ fresh' = [fresh EXCEPT ![c] = FALSE]
    /\ \E l \in {"out", "one"} : GoTo(c, l)
    /\ ExecEnd(c)
    /\ UNCHANGED <<words, watched, dirty, block>>

\* stretch, past wait_acks and with no look at the slot first.
InterpretOne(c) ==
    /\ pc[c] = "chk"
    /\ at[c] = "one"
    /\ Goto(c, "exec")
    /\ UNCHANGED <<slots, stop, halt, par, ret, cursor, taken, waits, jitVars>>

Install(c) ==
    /\ Here(c, "set")
    /\ ~MustWait(c)
    /\ FlushOwn(c)
    /\ block' = [block EXCEPT ![c] = read[c]]
    /\ read' = [read EXCEPT ![c] = 0]
    /\ was' = [was EXCEPT ![c] = FALSE]
    /\ fresh' = [fresh EXCEPT ![c] = FALSE]
    /\ GoTo(c, "in")
    /\ UNCHANGED <<coreVars, words, watched, dirty>>

-----------------------------------------------------------------------------
(* Guest stores to the page *)

Installing == \E c \in Core : at[c] \in {"found", "tested", "asked", "set"}

MayWrite == words <= MaxWrites /\ (Quiet => ~Installing)

\* A store of translated code that hits the software TLB.
StoreDirect(c) ==
    /\ Here(c, "in")
    /\ direct[c]
    /\ MayWrite
    /\ words' = words + 1
    /\ UNCHANGED <<coreVars, watched, dirty, direct, block, read, was, fresh, at>>

\* Ram::write_watched, from the JIT (SysHost::st) or the interpreter: the
\* bytes first ...
Store(c) ==
    /\ at[c] \in {"out", "in", "one"}
    /\ pc[c] = "exec"
    /\ MayWrite
    /\ words' = words + 1
    /\ was' = [was EXCEPT ![c] = at[c] = "in"]
    /\ GoTo(c, "stored")
    /\ UNCHANGED <<coreVars, watched, dirty, direct, block, read, fresh>>

\* ... then Ram::touch.  A hit unwatches the page ...
TouchHit(c) ==
    /\ Here(c, "stored")
    /\ watched
    /\ watched' = FALSE
    /\ GoTo(c, "unwatched")
    /\ UNCHANGED <<coreVars, words, dirty, direct, block, read, was, fresh>>

\* Seeded fault: the writer goes on without draining its own list.
TouchPushOthers(c) ==
    /\ Here(c, "unwatched")
    /\ dirty' = [d \in Core |-> d # c \/ ~was[c]]
    /\ was' = [was EXCEPT ![c] = FALSE]
    /\ GoTo(c, IF was[c] THEN "in" ELSE "done")
    /\ UNCHANGED <<coreVars, words, watched, direct, block, read, fresh>>

\* ... and enters every core's list; a JIT stops (STOP) and drains its own.
TouchPush(c) ==
    /\ Here(c, "unwatched")
    /\ dirty' = [d \in Core |-> d # c \/ ~was[c]]
    /\ block' = [block EXCEPT ![c] = IF was[c] THEN 0 ELSE @]
    /\ was' = [was EXCEPT ![c] = FALSE]
    /\ GoTo(c, IF was[c] THEN "in" ELSE "done")
    /\ UNCHANGED <<coreVars, words, watched, direct, read, fresh>>

\* No hit: SysHost::fill may make the next store direct.
TouchMiss(c) ==
    /\ Here(c, "stored")
    /\ ~watched
    /\ \E f \in {direct[c], was[c] \/ direct[c]} : direct' = [direct EXCEPT ![c] = f]
    /\ was' = [was EXCEPT ![c] = FALSE]
    /\ GoTo(c, IF was[c] THEN "in" ELSE "done")
    /\ UNCHANGED <<coreVars, words, watched, dirty, block, read, fresh>>

-----------------------------------------------------------------------------
\* ParCore::service: Request::Watch flushes the write entries.
ApplyTaken(c) == IF inbox[c] = 0 THEN UNCHANGED direct ELSE FlushWrites(c)

Service(c) ==
    /\ RunService(c) \/ AcksService(c)
    /\ ApplyTaken(c)
    /\ UNCHANGED <<words, watched, dirty, block, read, was, fresh, at>>

\* ParCore::power_on flushes the TLB; the next run empties the software TLB
\* with it (sync_regime).
PowerOnReset(c) ==
    /\ PowerOn(c)
    /\ FlushWrites(c)
    /\ UNCHANGED <<words, watched, dirty, block, read, was, fresh, at>>

Psci(c) ==
    /\ at[c] \in {"out", "one"}
    /\ (\E i \in Core : CpuOn(c, i)) \/ CpuOff(c)
    /\ GoTo(c, "out")
    /\ UNCHANGED <<words, watched, dirty, direct, block, read, was, fresh>>

Thread(c) ==
    /\ \/ RunEnter(c) \/ RunHalted(c) \/ RunServed(c) \/ RunReturn(c) \/ RunOff(c)
       \/ RunGuest(c) \/ BroadcastSlot(c)
       \/ at[c] = "out" /\ (StretchEnd(c) \/ StretchRun(c))
       \/ AcksDone(c) \/ AcksServed(c) \/ AcksPoll(c) \/ ScanSlot(c) \/ ScanAllOff(c)
    /\ UNCHANGED jitVars

Step(c) ==
    \/ JitEnter(c) \/ JitLeave(c) \/ Discover(c) \/ WasWatched(c) \/ AskFresh(c)
    \/ SetWatch(c) \/ Posted(c) \/ Cold(c) \/ InterpretOne(c) \/ Install(c)
    \/ StoreDirect(c) \/ Store(c)
    \/ TouchHit(c) \/ TouchPush(c) \/ TouchMiss(c) \/ Service(c) \/ PowerOnReset(c)
    \/ Psci(c) \/ Thread(c)

Next == \E c \in Core : Step(c)

Spec == Init /\ [][Next]_vars
-----------------------------------------------------------------------------
\* parallel.rs: "a page that gets translated code is first made unwritable
\* through the other cores' software TLBs, then translated".  While a block
\* of the page is valid, no core that runs guest code writes it directly.
BlocksUnwritable ==
    \A c, d \in Core :
        block[c] # 0 /\ ~dirty[c] /\ Live(d) /\ ~Installing /\ ~Storing => ~direct[d]

\* A block whose page changed is discarded (touch, drain): it is in the dirty
\* list the core drains before it runs a block again, or the writer is still
\* in its store.
NoStaleBlock ==
    \A c \in Core : block[c] # 0 /\ ~dirty[c] /\ ~Storing => block[c] = words

\* A block in use is of what is in memory and cannot be written unseen.
BlocksSafe == BlocksUnwritable /\ NoStaleBlock
=============================================================================
