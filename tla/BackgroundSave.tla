--------------------------- MODULE BackgroundSave ---------------------------
(***************************************************************************)
(* A deferred save in the browser (web/node/background-save.mjs): the      *)
(* machine's Worker hands the raw stream of the save to the saver Worker   *)
(* in pieces, at most a window of them unacknowledged, and the saver turns *)
(* it into the snapshot file.  The page (web/app/worker.mjs) has one       *)
(* BackgroundSave at a time and gives it every answer that comes.  The     *)
(* machine's side of the save is module DeferredSave; here it is armed for *)
(* a save or not.  Messages carry the save they belong to, which the code  *)
(* does not.                                                               *)
(***************************************************************************)
EXTENDS Integers, Sequences, FiniteSets

CONSTANTS
    BsSaves,    \* bound on the saves
    BsPieces,   \* pieces of a stream
    BsWindow    \* WINDOW, in pieces

VARIABLES
    bsSave,      \* the page's BackgroundSave
    bsArmed,     \* the save the machine's RAM is trapped for, 0 for none
    bsToSaver,   \* messages to the saver
    bsToPage,    \* and its answers
    bsJob,       \* SaveJob::job
    bsStored,    \* the snapshot in the store: its save and pieces
    bsOk,        \* the last save that resolved
    bsMixed      \* a save has had an answer meant for an earlier one

bsVars == <<bsSave, bsArmed, bsToSaver, bsToPage, bsJob, bsStored, bsOk, bsMixed>>

NoJob == [id |-> 0, got |-> 0]

BsInit ==
    /\ bsSave = [id |-> 0, active |-> FALSE, given |-> FALSE, inFlight |-> 0, left |-> 0]
    /\ bsArmed = 0
    /\ bsToSaver = <<>> /\ bsToPage = <<>>
    /\ bsJob = NoJob
    /\ bsStored = NoJob
    /\ bsOk = 0
    /\ bsMixed = FALSE

Msg(type, id) == [type |-> type, id |-> id]

-----------------------------------------------------------------------------
(* The machine's Worker *)

Tell(type) == bsToSaver' = Append(bsToSaver, Msg(type, bsSave.id))

\* saveSnapshotBackground and the constructor: another save waits for this one.
BsBegin ==
    LET id == bsSave.id + 1
    IN  /\ ~bsSave.active
        /\ id <= BsSaves
        /\ bsSave' = [id |-> id, active |-> TRUE, given |-> FALSE, inFlight |-> 0, left |-> BsPieces]
        /\ bsArmed' = id
        /\ bsToSaver' = Append(bsToSaver, Msg("begin", id))
        /\ UNCHANGED <<bsToPage, bsJob, bsStored, bsOk, bsMixed>>

\* #fail: the machine's save ends and the saver is told.
Fail ==
    /\ bsSave' = [bsSave EXCEPT !.active = FALSE]
    /\ bsArmed' = 0
    /\ Tell("abort")

\* pump, one piece: the next one, the end, or the save the machine has lost.
BsPump ==
    /\ bsSave.active /\ ~bsSave.given /\ bsSave.inFlight < BsWindow
    /\ \/ /\ bsArmed = bsSave.id /\ bsSave.left > 0
          /\ bsSave' = [bsSave EXCEPT !.left = @ - 1, !.inFlight = @ + 1]
          /\ Tell("data")
          /\ UNCHANGED bsArmed
       \/ /\ bsArmed = bsSave.id /\ bsSave.left = 0
          /\ bsSave' = [bsSave EXCEPT !.given = TRUE]
          /\ bsArmed' = 0
          /\ Tell("end")
       \/ bsArmed # bsSave.id /\ Fail
    /\ UNCHANGED <<bsToPage, bsJob, bsStored, bsOk, bsMixed>>

\* A restore of the machine voids its save.
BsRestore ==
    /\ bsArmed # 0
    /\ bsArmed' = 0
    /\ UNCHANGED <<bsSave, bsToSaver, bsToPage, bsJob, bsStored, bsOk, bsMixed>>

\* build: a new machine; cancel.
BsCancel ==
    /\ bsSave.active
    /\ Fail
    /\ UNCHANGED <<bsToPage, bsJob, bsStored, bsOk, bsMixed>>

\* onmessage: reply, to the save there is now.
BsReply ==
    /\ bsToPage # <<>>
    /\ LET m == Head(bsToPage)
       IN  /\ \/ ~bsSave.active /\ UNCHANGED <<bsSave, bsArmed, bsToSaver, bsOk>>
              \/ /\ bsSave.active /\ m.type = "ack"
                 /\ bsSave' = [bsSave EXCEPT !.inFlight = @ - 1]
                 /\ UNCHANGED <<bsArmed, bsToSaver, bsOk>>
              \/ /\ bsSave.active /\ m.type = "done"
                 /\ bsSave' = [bsSave EXCEPT !.active = FALSE]
                 /\ bsOk' = bsSave.id
                 /\ UNCHANGED <<bsArmed, bsToSaver>>
              \/ bsSave.active /\ m.type = "error" /\ Fail /\ UNCHANGED bsOk
           /\ bsMixed' = (bsMixed \/ (bsSave.active /\ m.id # bsSave.id))
    /\ bsToPage' = Tail(bsToPage)
    /\ UNCHANGED <<bsJob, bsStored>>

-----------------------------------------------------------------------------
(* SaveJob: a message at a time *)

Answer(type, id) == bsToPage' = Append(bsToPage, Msg(type, id))

\* Seeded fault: the job goes on after an error.
FailedJobStays(id) == Answer("error", id) /\ UNCHANGED <<bsJob, bsStored>>

\* Seeded fault: the page is not told.
FailedJobSilent(id) == bsJob' = NoJob /\ UNCHANGED <<bsToPage, bsStored>>

\* #error: the job is dropped.
FailedJob(id) == Answer("error", id) /\ bsJob' = NoJob /\ UNCHANGED bsStored

\* #run; without a job (after an error) data and end are ignored.
BsHandle ==
    /\ bsToSaver # <<>>
    /\ LET m == Head(bsToSaver)
           idle == m.type \in {"data", "end"} /\ bsJob.id = 0
       IN  \/ idle /\ UNCHANGED <<bsToPage, bsJob, bsStored>>
           \/ m.type \in {"begin", "data", "end"} /\ ~idle /\ FailedJob(m.id)
           \/ /\ m.type = "begin"
              /\ bsJob' = [id |-> m.id, got |-> 0]
              /\ UNCHANGED <<bsToPage, bsStored>>
           \/ /\ m.type = "data" /\ ~idle
              /\ bsJob' = [bsJob EXCEPT !.got = @ + 1]
              /\ Answer("ack", m.id)
              /\ UNCHANGED bsStored
           \/ /\ m.type = "end" /\ ~idle
              /\ bsStored' = bsJob
              /\ bsJob' = NoJob
              /\ Answer("done", m.id)
           \/ /\ m.type = "abort"
              /\ bsJob' = NoJob
              /\ UNCHANGED <<bsToPage, bsStored>>
    /\ bsToSaver' = Tail(bsToSaver)
    /\ UNCHANGED <<bsSave, bsArmed, bsOk, bsMixed>>

BsNext == BsBegin \/ BsPump \/ BsRestore \/ BsCancel \/ BsReply \/ BsHandle

-----------------------------------------------------------------------------
\* The snapshot in the store is a whole one ("the snapshot replaces the
\* previous one only once complete").
BsWhole == bsStored.id # 0 => bsStored.got = BsPieces

Unacknowledged(q, type) ==
    Cardinality({j \in 1 .. Len(q) : q[j] = Msg(type, bsSave.id)})

\* The header of background-save.mjs: "at most WINDOW bytes unacknowledged".
BsWindowHeld ==
    bsSave.active =>
        Unacknowledged(bsToSaver, "data") + Unacknowledged(bsToPage, "ack") <= BsWindow

\* A save that resolved is in the store, and the RAM is trapped only for the
\* save in progress.
BsResolved == bsOk <= bsStored.id /\ (bsArmed # 0 => bsSave.active /\ bsArmed = bsSave.id)

\* The protocol of a save: the store never has part of a stream; and as long
\* as each save had its own answers, the window holds, a save that resolved is
\* stored and no trap outlives its save.
BsSafe == BsWhole /\ (bsMixed \/ (BsWindowHeld /\ BsResolved))

\* Every save ends, whatever fails (BackgroundSave::done).
BsEnds == bsSave.active ~> ~bsSave.active
=============================================================================
