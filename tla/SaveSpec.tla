------------------------------ MODULE SaveSpec ------------------------------
(***************************************************************************)
(* What a deferred save promises (Machine::save_deferred, docs/adr/0046):  *)
(* the pages it gives, however late and whatever the guest writes          *)
(* meanwhile, are those of the instant it started.  A restore, or a newer  *)
(* save, voids it; a void save gives nothing more.                         *)
(***************************************************************************)
EXTENDS Integers

CONSTANTS P,     \* pages of RAM
          Value, \* contents of a page
          Saves, \* the DeferredSave values a program holds
          None   \* no content

Page == 0 .. P - 1

VARIABLES mem,  \* the RAM
          save  \* the saves

specVars == <<mem, save>>

Nothing == [p \in Page |-> None]

NoSave == [state |-> "none", page |-> 0, image |-> Nothing, out |-> Nothing]

Void(s) == IF s.state = "open" THEN [s EXCEPT !.state = "void"] ELSE s

SpecInit ==
    /\ mem \in [Page -> Value]
    /\ save = [h \in Saves |-> NoSave]

\* The guest or a device writes.
SpecWrite ==
    /\ mem' \in [Page -> Value]
    /\ UNCHANGED save

SpecBegin(h) ==
    /\ save[h].state = "none"
    /\ save' = [g \in Saves |->
                  IF g = h
                  THEN [state |-> "open", page |-> 0, image |-> mem, out |-> Nothing]
                  ELSE Void(save[g])]
    /\ UNCHANGED mem

\* The pages up to `to` are given; the last one ends the save.
SpecGive(h, to) ==
    /\ save[h].state = "open"
    /\ to \in save[h].page + 1 .. P
    /\ save' = [save EXCEPT ![h] =
                  [state |-> IF to = P THEN "done" ELSE "open",
                   page |-> to,
                   image |-> @.image,
                   out |-> [p \in Page |-> IF p < to THEN @.image[p] ELSE None]]]
    /\ UNCHANGED mem

SpecDrop(h) ==
    /\ save[h].state # "none"
    /\ save' = [save EXCEPT ![h] = NoSave]
    /\ UNCHANGED mem

SpecRestore ==
    /\ mem' \in [Page -> Value]
    /\ save' = [h \in Saves |-> Void(save[h])]

SpecNext ==
    \/ SpecWrite
    \/ SpecRestore
    \/ \E h \in Saves : SpecBegin(h) \/ SpecDrop(h)
    \/ \E h \in Saves, to \in 1 .. P : SpecGive(h, to)

Spec == SpecInit /\ [][SpecNext]_specVars
=============================================================================
