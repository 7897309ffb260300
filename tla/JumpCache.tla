----------------------------- MODULE JumpCache -----------------------------
(***************************************************************************)
(* The fetch translations the JIT keeps (vetro-jit sys.rs): the jump cache *)
(* its dispatcher looks in, whose entries hold for a context number, and   *)
(* the translation each block remembers, for a context number and a        *)
(* generation of the TLBIs by VA.                                          *)
(***************************************************************************)
EXTENDS SoftTlb

CONSTANTS
    JcUsed,     \* the pages the guest executes, among Addr
    JcIds,      \* the context number after which new_epoch starts again
    JcNumbers   \* bound on the context numbers

VARIABLES
    jcIds,      \* Cache::ids
    jcNextId,   \* Cache::next_id
    jcJump,     \* the jump cache
    jcMemo,     \* Entry::memo
    jcGen       \* Cache::inval_gen

jcVars == <<jcIds, jcNextId, jcJump, jcMemo, jcGen>>

JcKeys == JcUsed \X (0 .. 1)

JcInit ==
    /\ jcIds = {} /\ jcNextId = 0
    /\ jcJump = [a \in JcUsed |-> TlNone]
    /\ jcMemo = [k \in JcKeys |-> TlNone]
    /\ jcGen = 0

\* new_epoch.
NewEpoch(jump) ==
    /\ jcIds' = {}
    /\ IF jcNextId >= JcIds
       THEN jcNextId' = 0 /\ jcJump' = [a \in JcUsed |-> TlNone]
       ELSE jcNextId' = jcNextId /\ jcJump' = jump

\* Seeded fault: the blocks go on remembering.
InvalidateJumpsOnly ==
    /\ jcGen' = jcGen
    /\ jcJump' = [a \in JcUsed |->
         IF jcJump[a] # TlNone /\ InRange(jcJump[a].copy) THEN TlNone ELSE jcJump[a]]

\* invalidate_ranges.
InvalidateRanges ==
    /\ jcGen' = jcGen + 1
    /\ jcJump' = [a \in JcUsed |->
         IF jcJump[a] # TlNone /\ InRange(jcJump[a].copy) THEN TlNone ELSE jcJump[a]]

\* sync_regime.
JcBegin ==
    /\ RunBegins
    /\ \/ Partial /\ InvalidateRanges /\ UNCHANGED <<jcIds, jcNextId>>
       \/ Changed /\ NewEpoch(jcJump) /\ UNCHANGED jcGen
       \/ ~Partial /\ ~Changed /\ UNCHANGED <<jcIds, jcNextId, jcJump, jcGen>>
    /\ UNCHANGED jcMemo

\* Cache::ctx: the number of the current level and bases.
Context == <<stEl, tlRegs.root>>
Numbers == {x.id : x \in {y \in jcIds : y.of = Context}}
Number == IF Numbers = {} THEN jcNextId + 1 ELSE CHOOSE n \in Numbers : TRUE
Numbered ==
    /\ jcIds' = jcIds \cup {[of |-> Context, id |-> Number]}
    /\ jcNextId' = IF Numbers = {} THEN jcNextId + 1 ELSE jcNextId

JumpHit(a) == jcJump[a] # TlNone /\ jcJump[a].ctx = Number
MemoHit(a) ==
    LET m == jcMemo[<<a, stEl>>] IN m # TlNone /\ m.ctx = Number /\ m.gen = jcGen

\* The block remembers; it enters the jump cache if it is compiled.
JcInstall(a, c) ==
    /\ jcMemo' = [jcMemo EXCEPT ![<<a, stEl>>] = [ctx |-> Number, gen |-> jcGen, copy |-> c]]
    /\ \E j \in {jcJump, [jcJump EXCEPT ![a] = [ctx |-> Number, copy |-> c]]} : jcJump' = j
    /\ UNCHANGED stIn

\* probe_jc or resolve misses: lookup, then install_jc.
JcFetch(a) ==
    /\ stIn
    /\ ~JumpHit(a)
    /\ Number <= JcNumbers
    /\ Numbered
    /\ \/ MemoHit(a) /\ JcInstall(a, jcMemo[<<a, stEl>>].copy) /\ UNCHANGED tlVars
       \/ ~MemoHit(a) /\ Translates(a, stEl, "r") /\ JcInstall(a, Copy(a)) /\ Walked(a)
       \/ /\ ~MemoHit(a) /\ ~Translates(a, stEl, "r") /\ Walked(a)
          /\ stIn' = FALSE /\ UNCHANGED <<jcMemo, jcJump>>
    /\ UNCHANGED <<stEl, stCommon, stFlushes, jcGen>>

\* reset.
JcReset ==
    /\ stIn
    /\ jcMemo' = [k \in JcKeys |-> TlNone]
    /\ NewEpoch([a \in JcUsed |-> TlNone])
    /\ UNCHANGED <<tlVars, stRun, jcGen>>

\* drain, set_stops and the like: the blocks stay, in a new epoch.
JcForget ==
    /\ stIn
    /\ NewEpoch(jcJump)
    /\ UNCHANGED <<tlVars, stRun, jcMemo, jcGen>>

JcInvalidate(op, a, asid) ==
    LET Mark(x) == IF x = TlNone THEN x ELSE [x EXCEPT !.copy = Killed(op, a, asid, @)]
    IN  /\ Invalidated(op, a, asid)
        /\ jcJump' = [b \in JcUsed |-> Mark(jcJump[b])]
        /\ jcMemo' = [k \in JcKeys |-> Mark(jcMemo[k])]
        /\ UNCHANGED <<jcIds, jcNextId, jcGen>>

JcNext ==
    \/ JcBegin \/ JcReset \/ JcForget
    \/ \E a \in JcUsed : JcFetch(a)
    \/ \E op \in Ops, a \in JcUsed, asid \in TlAsids : JcInvalidate(op, a, asid)
    \/ /\ \/ StLeave \/ ChangeEl
          \/ \E space \in TlSpaces : Switch(space) \/ SetRegs(In(tlRegs, space))
          \/ SetRegs([tlRegs EXCEPT !.device = ~@])
       /\ UNCHANGED jcVars

-----------------------------------------------------------------------------
\* A fetch translation the running code would use was not invalidated and was
\* made under the current registers (sys.rs, Entry::memo: "Within a context it
\* cannot change (the guarantee the jump cache relies on)").
JumpsFresh ==
    stIn => \A a \in JcUsed : /\ JumpHit(a) => Fresh(jcJump[a].copy)
                              /\ MemoHit(a) => Fresh(jcMemo[<<a, stEl>>].copy)

\* No copy of a translation is used past its invalidation, or under registers
\* other than its own: data (SoftFresh) and fetches (JumpsFresh).
CopiesFresh == SoftFresh /\ JumpsFresh
=============================================================================
