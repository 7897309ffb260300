----------------------------- MODULE MCWfiClock -----------------------------
(***************************************************************************)
(* WfiClock for TLC: every value is relative to the clock, so the state    *)
(* space is finite without a bound on the clock.                           *)
(***************************************************************************)
EXTENDS WfiClock
=============================================================================
