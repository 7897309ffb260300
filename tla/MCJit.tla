------------------------------- MODULE MCJit -------------------------------
(***************************************************************************)
(* What a JIT may go on using: blocks of pages that are written, compiled  *)
(* modules that leave, and three levels of copies of translations, with    *)
(* the MMU's recent ones, the software TLB's and those of fetches.  A      *)
(* behaviour exercises one of them.                                        *)
(***************************************************************************)
EXTENDS CodeWatch, JumpCache, CodeCache

VARIABLE part

jitSuite == <<part, vars, tlVars, stVars, jcVars, cc>>

\* Only core 0 executes code of the page.
OneTranslator == {0}

\* Every core does.
AllTranslators == Core

\* Two processes.
Spaces == {<<1, 1>>, <<2, 2>>}

\* The region at 1 has 2 as an inner entry; 1 may hold something else.
Inner == 1 :> {2} @@ 2 :> {}
Codes == 1 :> {0, 1} @@ 2 :> {1}

\* The table is full before the engine, and the engine before the table.
Configs == [batch : {1}, budget : {1, 2}] \cup [batch : {2}, budget : {1}]

\* The parts at rest start in one state.
JitInit ==
    /\ part \in {"code", "recent", "soft", "jump", "cache"}
    /\ Init /\ TlInit /\ StInit /\ JcInit /\ CcInit
    /\ part # "code" => \A c \in Core : on[c]
    /\ part \in {"code", "cache"} => tlRegs.root = 1
    /\ part # "cache" => cc.batch = 1 /\ cc.budget = 1 /\ cc.at \in CcWritten

JitNext ==
    /\ UNCHANGED part
    /\ \/ part = "code" /\ Next /\ UNCHANGED <<tlVars, stVars, jcVars, cc>>
       \/ part = "recent" /\ TlNext /\ UNCHANGED <<vars, stVars, jcVars, cc>>
       \/ part = "soft" /\ StNext /\ UNCHANGED <<vars, jcVars, cc>>
       \/ part = "jump" /\ JcNext /\ UNCHANGED <<vars, stSoft, stGroups, cc>>
       \/ part = "cache" /\ CcNext /\ UNCHANGED <<vars, tlVars, stVars, jcVars>>

JitSpec == JitInit /\ [][JitNext]_jitSuite
=============================================================================
