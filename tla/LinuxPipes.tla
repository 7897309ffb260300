----------------------------- MODULE LinuxPipes -----------------------------
(***************************************************************************)
(* A FIFO of the user-mode Linux layer (vetro-cli/src/linux): blocking and *)
(* non-blocking opens of its two ends (open_fifo), reads and writes of the *)
(* internal pipe, closes, and signals that end a blocked call.             *)
(*                                                                         *)
(* A task that waits executes its call again: an open at every turn        *)
(* (Wait::Retry), a read or a write once its pipe is ready (Wait::Pipe).   *)
(***************************************************************************)
EXTENDS Naturals, Sequences, FiniteSets

CONSTANTS
    LpReaders, LpWriters,   \* the tasks that open the FIFO to read, to write
    LpCapacity,             \* Pipe::capacity
    LpBytes,                \* the bytes each writer writes
    LpSignals               \* how many blocked calls a signal ends

VARIABLES
    lpAt,         \* per task: "out", "opening", "open", "inio" (blocked), "closed"
    lpWaiting,    \* waiting_readers and waiting_writers
    lpBuf,        \* Pipe::buf, as a count of bytes
    lpLeft,       \* per writer: the bytes it has still to write
    lpResult,     \* the last outcome a task saw, and which task
    lpSignalled

lpVars == <<lpAt, lpWaiting, lpBuf, lpLeft, lpResult, lpSignalled>>

LpTasks == LpReaders \cup LpWriters
Ends(S) == Cardinality({t \in S : lpAt[t] \in {"open", "inio"}})
PipeReaders == Ends(LpReaders)
PipeWriters == Ends(LpWriters)

LpInit ==
    /\ lpAt = [t \in LpTasks |-> "out"]
    /\ lpWaiting = {}
    /\ lpBuf = 0
    /\ lpLeft = [t \in LpWriters |-> LpBytes]
    /\ lpResult = <<>>
    /\ lpSignalled = 0

Move(t, to) == lpAt' = [lpAt EXCEPT ![t] = to]
Other(t) == IF t \in LpReaders THEN LpWriters ELSE LpReaders

\* open_fifo: the other end is there when it is open or stopped in open().
OtherEnd(t) == Ends(Other(t)) > 0 \/ lpWaiting \cap Other(t) # {}

OpenFifo(t) ==
    /\ lpAt[t] \in {"out", "opening"}
    /\ \/ /\ OtherEnd(t)
          /\ Move(t, "open") /\ lpWaiting' = lpWaiting \ {t}
       \/ /\ ~OtherEnd(t)
          /\ Move(t, "opening") /\ lpWaiting' = lpWaiting \cup {t}
    /\ lpResult' = <<>>
    /\ UNCHANGED <<lpBuf, lpLeft, lpSignalled>>

\* O_NONBLOCK: a reader always opens; a writer without a reader gets ENXIO.
OpenNonblock(t) ==
    /\ lpAt[t] = "out"
    /\ t \in LpReaders \/ OtherEnd(t)
    /\ Move(t, "open") /\ lpWaiting' = lpWaiting \ {t}
    /\ lpResult' = <<>>
    /\ UNCHANGED <<lpBuf, lpLeft, lpSignalled>>

\* OpenFile::read: what is there, end of file without writers, else a wait.
PipeRead(t) ==
    /\ t \in LpReaders /\ lpAt[t] \in {"open", "inio"}
    /\ \/ /\ lpBuf > 0
          /\ \E n \in 1..lpBuf : lpBuf' = lpBuf - n /\ lpResult' = <<"read", t>>
          /\ Move(t, "open")
       \/ /\ lpBuf = 0 /\ PipeWriters = 0
          /\ lpResult' = <<"eof", t>>
          /\ Move(t, "open") /\ UNCHANGED lpBuf
       \/ /\ lpBuf = 0 /\ PipeWriters > 0
          /\ lpResult' = <<>>
          /\ Move(t, "inio") /\ UNCHANGED lpBuf
    /\ UNCHANGED <<lpWaiting, lpLeft, lpSignalled>>

\* OpenFile::write and do_write: EPIPE without readers, what fits, or a wait.
PipeWrite(t) ==
    /\ t \in LpWriters /\ lpAt[t] \in {"open", "inio"} /\ lpLeft[t] > 0
    /\ \/ /\ PipeReaders = 0
          /\ lpResult' = <<"epipe", t>>
          /\ Move(t, "open") /\ UNCHANGED <<lpBuf, lpLeft>>
       \/ /\ PipeReaders > 0 /\ lpBuf < LpCapacity
          /\ \E n \in 1..lpLeft[t] :
                LET put == IF n < LpCapacity - lpBuf THEN n ELSE LpCapacity - lpBuf
                IN  lpBuf' = lpBuf + put /\ lpLeft' = [lpLeft EXCEPT ![t] = @ - put]
          /\ lpResult' = <<"wrote", t>>
          /\ Move(t, "open")
       \/ /\ PipeReaders > 0 /\ lpBuf = LpCapacity
          /\ lpResult' = <<>>
          /\ Move(t, "inio") /\ UNCHANGED <<lpBuf, lpLeft>>
    /\ UNCHANGED <<lpWaiting, lpSignalled>>

\* The last reference to an end goes away; the buffer stays with the FIFO.
CloseEnd(t) ==
    /\ lpAt[t] = "open"
    /\ Move(t, "closed")
    /\ lpResult' = <<>>
    /\ UNCHANGED <<lpWaiting, lpBuf, lpLeft, lpSignalled>>

\* A signal ends a blocked call with EINTR, or kills the task; the list of
\* waiting tasks is left as it is.
LpInterrupt(t) ==
    /\ lpSignalled < LpSignals
    /\ \/ lpAt[t] = "opening" /\ Move(t, "out")
       \/ lpAt[t] = "inio" /\ Move(t, "open")
       \/ lpAt[t] # "closed" /\ Move(t, "closed")
    /\ lpSignalled' = lpSignalled + 1
    /\ lpResult' = <<>>
    /\ UNCHANGED <<lpWaiting, lpBuf, lpLeft>>

LpNext ==
    \E t \in LpTasks :
        \/ OpenFifo(t) \/ OpenNonblock(t)
        \/ PipeRead(t) \/ PipeWrite(t)
        \/ CloseEnd(t) \/ LpInterrupt(t)

-----------------------------------------------------------------------------
(* Properties.                                                             *)

\* The lists name the tasks that are stopped in open(), and no other
\* (fs.rs Fifo: "who is stopped in open() waiting for the other end").
LpWaitersWait == \A t \in lpWaiting : lpAt[t] = "opening"

\* A writer gets EPIPE, and a reader end of file, only when there is no
\* other end: a task stopped in open() waiting for them, the reason their
\* own open() returned, is one (fs.rs: "Write to a pipe without readers:
\* EPIPE and SIGPIPE").
LpEpipeAlone ==
    /\ lpResult # <<>> /\ lpResult[1] = "epipe" => \A r \in LpReaders : lpAt[r] # "opening"
    /\ lpResult # <<>> /\ lpResult[1] = "eof" => \A w \in LpWriters : lpAt[w] # "opening"
=============================================================================
