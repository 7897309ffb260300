------------------------------ MODULE TcpLink ------------------------------
(* A TCP connection of the gateway at work: the guest's TCP at the other end *)
(* of a cable that loses segments, and the program behind the upstream.  The *)
(* guest opens the connection (the upstream is the relay, which answers      *)
(* later) or the host does (host_connect, the byte queues of HostSide).  The *)
(* guest is any TCP that keeps to RFC 9293 (external): it counts positions   *)
(* in each stream from its SYN, at 0, and puts them on the wire modulo       *)
(* SeqMod.                                                                   *)
EXTENDS Tcp

CONSTANTS
    TcpBytes,      \* bound: bytes the two programs send in all
    WireCap        \* bound: segments in flight in each direction

VARIABLES
    tConn,   \* the TcpConn, with state "none" before it is opened
    tEnd,    \* its upstream
    tDown,   \* segments on the cable to the guest
    tUp,     \* segments on the cable from the guest
    tG,      \* the guest's TCP
    tWrote,  \* bytes the remote program has written
    tRead    \* bytes the remote program has read

tcpVars == <<tConn, tEnd, tDown, tUp, tG, tWrote, tRead>>

NoTcp == [state |-> "none", reason |-> "none"]

NewGuest == [pc |-> "none", una |-> 0, max |-> 0, fin |-> 0, rcv |-> 0,
             edge |-> 0, buf |-> <<>>, read |-> <<>>, eof |-> FALSE,
             owed |-> FALSE]

TcpInit ==
    /\ tConn = NoTcp
    /\ tEnd \in {NewEnd, [NewEnd EXCEPT !.status = "host"]}
    /\ tDown = <<>> /\ tUp = <<>>
    /\ tG = NewGuest
    /\ tWrote = 0 /\ tRead = <<>>

(* The cable keeps the order and has room for WireCap segments: the ones    *)
(* that do not fit are lost.                                                *)
OnWire(wire, segs) ==
    LET w == wire \o segs IN SubSeq(w, 1, Least(Len(w), WireCap))

(* with_conn: the connection and its upstream change, the segments leave,   *)
(* and a connection that is closed is dropped.                              *)
WithConn(s) ==
    /\ tConn' = IF s.c.state # "closed" THEN s.c
                ELSE [state |-> "closed", reason |-> s.c.reason]
    /\ tEnd' = IF s.c.state # "closed" THEN s.u
               ELSE [s.u EXCEPT !.out = <<>>, !.eof = FALSE, !.reset = FALSE]
    /\ tDown' = OnWire(tDown, s.out)

On == [c |-> tConn, u |-> tEnd, out |-> <<>>]

Live == tConn.state \notin {"none", "closed"}

----------------------------------------------------------------------------
(* The stack.                                                               *)

(* receive: a segment for the connection; a SYN opens it.                   *)
UnknownReply(h) ==
    IF "rst" \in h.flags THEN <<>>
    ELSE IF "ack" \in h.flags THEN <<Seg(h.ack, 0, {"rst"}, 0, <<>>)>>
    ELSE <<Seg(0, SeqAdd(h.seq, SegLen(h)), {"rst", "ack"}, 0, <<>>)>>

HandleTcp ==
    /\ tUp # <<>>
    /\ tUp' = Tail(tUp)
    /\ LET h == Head(tUp) IN
       IF Live THEN WithConn(Process(Input(On, h), FALSE))
       ELSE IF h.flags = {"syn"} /\ tConn.state = "none"
       THEN WithConn(Process([On EXCEPT
                !.c = NewTcp("connecting", h.seq, SeqAdd(h.seq, 1), h.wnd)],
                FALSE))
       ELSE /\ tDown' = OnWire(tDown, UnknownReply(h))
            /\ UNCHANGED <<tConn, tEnd>>
    /\ UNCHANGED <<tG, tWrote, tRead>>

(* poll: the SYN of a connection the host asked for, the abort the host      *)
(* asked for, the timers that have expired, the exchange with the upstream. *)
PollOpen ==
    /\ tConn.state = "none" /\ tEnd.status = "open"
    /\ WithConn(Process(SendSyn([On EXCEPT
           !.c = NewTcp("syn_sent", 0, 0, 0), !.u.status = "connected"],
           {"syn"}), FALSE))
    /\ UNCHANGED <<tUp, tG, tWrote, tRead>>

PollAbort ==
    /\ Live /\ tEnd.abort
    /\ WithConn(Abort([On EXCEPT !.u.abort = FALSE]))
    /\ UNCHANGED <<tUp, tG, tWrote, tRead>>

PollTimer ==
    /\ Live /\ ~tEnd.abort /\ tConn.rtx
    /\ WithConn(Process(OnTimer(On), FALSE))
    /\ UNCHANGED <<tUp, tG, tWrote, tRead>>

PollLate ==
    /\ ~tEnd.abort
    /\ \/ /\ tConn.state \in {"connecting", "syn_sent"}
          /\ WithConn(Process(On, TRUE))
       \/ /\ tConn.state = "time_wait"
          /\ WithConn(Finish(On, "normal", FALSE))
    /\ UNCHANGED <<tUp, tG, tWrote, tRead>>

Poll ==
    /\ Live /\ ~tEnd.abort
    /\ Process(On, FALSE) # On
    /\ WithConn(Process(On, FALSE))
    /\ UNCHANGED <<tUp, tG, tWrote, tRead>>

----------------------------------------------------------------------------
(* The program behind the upstream.                                         *)

UpstreamKeeps == UNCHANGED <<tConn, tDown, tUp, tG>>

HostConnect ==
    /\ tEnd.status = "host"
    /\ tEnd' = [tEnd EXCEPT !.status = "open"]
    /\ UpstreamKeeps /\ UNCHANGED <<tWrote, tRead>>

RelayAnswers ==
    /\ tConn.state = "connecting" /\ tEnd.status = "pending"
    /\ \E st \in {"connected", "refused"} :
           tEnd' = [tEnd EXCEPT !.status = st]
    /\ UpstreamKeeps /\ UNCHANGED <<tWrote, tRead>>

(* Bytes the guest program has sent.                                        *)
GuestBytesSent == CASE tG.max = 0 -> 0
                    [] tG.max # 0 /\ tG.fin # 0 -> tG.fin - 1
                    [] OTHER -> tG.max - 1

MoreBytes == tWrote + GuestBytesSent < TcpBytes

Connected == tEnd.status = "connected" /\ ~tEnd.closed

HostSend ==
    /\ Connected /\ ~tEnd.eof /\ ~tEnd.abort
    /\ MoreBytes /\ Len(tEnd.out) < HostBuffer
    /\ tWrote' = tWrote + 1
    /\ tEnd' = [tEnd EXCEPT !.out = Append(@, tWrote + 1)]
    /\ UpstreamKeeps /\ UNCHANGED tRead

HostRecv ==
    /\ tEnd.in # <<>>
    /\ tRead' = Append(tRead, Head(tEnd.in))
    /\ tEnd' = [tEnd EXCEPT !.in = Tail(@)]
    /\ UpstreamKeeps /\ UNCHANGED tWrote

HostShutdown ==
    /\ Connected /\ ~tEnd.eof
    /\ tEnd' = [tEnd EXCEPT !.eof = TRUE]
    /\ UpstreamKeeps /\ UNCHANGED <<tWrote, tRead>>

(* host_abort; a reset from the remote of a relayed connection; a reset by   *)
(* the guest (below): at most one of them, the first one ends it all.       *)
HostAbort ==
    /\ ~tEnd.reset /\ tG.pc # "dead"
    /\ tEnd.status \in {"open", "connected"} /\ ~tEnd.closed /\ ~tEnd.abort
    /\ tEnd' = IF tConn.state = "none" THEN [tEnd EXCEPT !.closed = TRUE,
                                                         !.status = "aborted"]
               ELSE [tEnd EXCEPT !.abort = TRUE]
    /\ UpstreamKeeps /\ UNCHANGED <<tWrote, tRead>>

RemoteResets ==
    /\ ~tEnd.abort /\ tG.pc # "dead"
    /\ Connected /\ ~tEnd.reset
    /\ tEnd' = [tEnd EXCEPT !.reset = TRUE]
    /\ UpstreamKeeps /\ UNCHANGED <<tWrote, tRead>>

----------------------------------------------------------------------------
(* The guest.                                                               *)

GuestSeq(p) == SeqAdd(GuestIss, p)
StackSeq(p) == SeqAdd(Iss, p)

Room == GuestWindow - Len(tG.buf)

GuestSends(g, p, flags, data) ==
    /\ Len(tUp) < WireCap
    /\ tUp' = OnWire(tUp, <<Seg(GuestSeq(p),
                                IF "ack" \in flags THEN StackSeq(g.rcv) ELSE 0,
                                flags, GuestWindow - Len(g.buf), data)>>)
    /\ tG' = [g EXCEPT !.owed = FALSE]
    /\ UNCHANGED <<tConn, tEnd, tDown, tWrote, tRead>>

GuestSyn ==
    /\ \/ tG.pc = "none" /\ tConn.state = "none" /\ tEnd.status = "pending"
       \/ tG.pc = "syn_sent" /\ tUp = <<>> /\ tConn.state # "closed"
    /\ GuestSends([tG EXCEPT !.pc = "syn_sent", !.max = 1], 0, {"syn"}, <<>>)

GuestOpen == tG.pc = "open"

GuestData ==
    /\ GuestOpen
    /\ \E p \in {tG.una, tG.max} :
          /\ p >= 1 /\ p < tG.edge
          /\ p < tG.max \/ (MoreBytes /\ tG.fin = 0)
          /\ p # tG.fin
          /\ GuestSends([tG EXCEPT !.max = Most(@, p + 1)], p, {"ack"}, <<p>>)

GuestFin ==
    /\ GuestOpen
    /\ \/ tG.fin = 0
       \/ tG.fin # 0 /\ tG.una = tG.fin
    /\ LET p == IF tG.fin = 0 THEN tG.max ELSE tG.fin
       IN  GuestSends([tG EXCEPT !.fin = p, !.max = Most(@, p + 1)], p,
                      {"fin", "ack"}, <<>>)

GuestAck ==
    /\ GuestOpen /\ tG.owed
    /\ GuestSends(tG, tG.max, {"ack"}, <<>>)

GuestProbe ==
    /\ GuestOpen /\ tG.fin = 0 /\ tG.una = tG.max /\ tG.edge <= tG.max
    /\ MoreBytes
    /\ GuestSends(tG, tG.una - 1, {"ack"}, <<>>)

GuestTcpRead ==
    /\ tG.buf # <<>>
    /\ tG' = [tG EXCEPT !.read = Append(@, Head(tG.buf)), !.buf = Tail(@),
                        !.owed = @ \/ (GuestOpen /\ Room = 0)]
    /\ UNCHANGED <<tConn, tEnd, tDown, tUp, tWrote, tRead>>

(* The socket is gone; the bytes the program has read stay.                 *)
Dead(g) == [NewGuest EXCEPT !.pc = "dead", !.read = g.read, !.fin = g.fin]

GuestReset ==
    /\ Live /\ ~tEnd.abort /\ ~tEnd.reset
    /\ tG.pc \in {"open", "syn_sent"}
    /\ tUp' = OnWire(tUp, <<Seg(GuestSeq(tG.max), 0, {"rst"}, 0, <<>>)>>)
    /\ tG' = Dead(tG)
    /\ UNCHANGED <<tConn, tEnd, tDown, tWrote, tRead>>

(* The acknowledgement and the window of a segment.                         *)
GuestTakesAck(h) ==
    LET n == SeqSub(h.ack, GuestSeq(tG.una))
    IN  IF "ack" \in h.flags /\ n <= tG.max - tG.una
        THEN [tG EXCEPT !.una = @ + n, !.edge = Most(@, tG.una + n + h.wnd)]
        ELSE tG

GuestTakesData(g, h) ==
    LET new == h.seq = StackSeq(g.rcv)
        fits == Len(g.buf) < GuestWindow
    IN  CASE h.data # <<>> ->
               IF new /\ fits
               THEN [g EXCEPT !.buf = @ \o h.data, !.rcv = @ + 1,
                              !.owed = TRUE]
               ELSE [g EXCEPT !.owed = TRUE]
          [] "fin" \in h.flags ->
               IF new THEN [g EXCEPT !.eof = TRUE, !.rcv = @ + 1,
                                     !.owed = TRUE]
               ELSE [g EXCEPT !.owed = TRUE]
          [] OTHER -> IF h.seq = SeqSub(StackSeq(g.rcv), 1)
                      THEN [g EXCEPT !.owed = TRUE] ELSE g

GuestTcpReceive ==
    /\ tDown # <<>>
    /\ tDown' = Tail(tDown)
    /\ LET h == Head(tDown) IN
       CASE "rst" \in h.flags ->
               /\ tG' = Dead(tG)
               /\ UNCHANGED tUp
         [] h.flags = {"syn"} /\ tG.pc \in {"none", "open"} /\ tG.una = 0 ->
               \/ /\ tG' = [tG EXCEPT !.pc = "open", !.max = 1, !.rcv = 1,
                                      !.edge = 1]
                  /\ tUp' = OnWire(tUp, <<Seg(GuestSeq(0), StackSeq(1),
                                  {"syn", "ack"}, GuestWindow, <<>>)>>)
               \/ /\ tG.pc = "none"
                  /\ tG' = Dead(tG)
                  /\ tUp' = OnWire(tUp, <<Seg(0, StackSeq(1), {"rst", "ack"},
                                               0, <<>>)>>)
         [] h.flags = {"syn", "ack"} /\ tG.pc = "syn_sent" ->
               /\ tG' = [tG EXCEPT !.pc = "open", !.una = 1, !.rcv = 1,
                                   !.edge = 1 + h.wnd, !.owed = TRUE]
               /\ UNCHANGED tUp
         [] h.flags = {"syn", "ack"} /\ tG.pc = "open" ->
               tG' = [tG EXCEPT !.owed = TRUE] /\ UNCHANGED tUp
         [] "syn" \notin h.flags /\ "rst" \notin h.flags /\ GuestOpen ->
               /\ tG' = GuestTakesData(GuestTakesAck(h), h)
               /\ UNCHANGED tUp
         [] OTHER -> UNCHANGED <<tG, tUp>>
    /\ UNCHANGED <<tConn, tEnd, tWrote, tRead>>

(* A segment is lost.                                                       *)
Lose ==
    /\ \/ tUp # <<>> /\ tUp' = Tail(tUp) /\ UNCHANGED tDown
       \/ tDown # <<>> /\ tDown' = Tail(tDown) /\ UNCHANGED tUp
    /\ UNCHANGED <<tConn, tEnd, tG, tWrote, tRead>>

----------------------------------------------------------------------------
StackNext == HandleTcp \/ PollOpen \/ PollAbort \/ PollTimer \/ PollLate \/ Poll
UpstreamNext == HostConnect \/ RelayAnswers \/ HostSend \/ HostShutdown
                \/ HostAbort \/ RemoteResets
GuestTcpNext == GuestSyn \/ GuestData \/ GuestFin \/ GuestAck \/ GuestProbe
                \/ GuestReset

TcpNext == StackNext \/ UpstreamNext \/ HostRecv \/ GuestTcpNext
           \/ GuestTcpRead \/ GuestTcpReceive \/ Lose

Counted(s) == s = [i \in 1..Len(s) |-> i]

(* Both streams arrive in order, without a hole and without a repetition,   *)
(* whatever is lost and sent again: what the guest has taken, and what has  *)
(* gone to the upstream with what waits in the receive buffer, are the      *)
(* first bytes of what the other program sent.                              *)
TcpInOrder ==
    /\ Counted(tG.read \o tG.buf)
    /\ Counted(tRead \o tEnd.in \o (IF Live THEN tConn.rx ELSE <<>>))

(* transmit keeps within the window of the guest: the bytes sent and not    *)
(* acknowledged are never more than the guest's receive buffer, retries,    *)
(* duplicate acknowledgements and old windows notwithstanding.              *)
TcpFlightBounded ==
    (Live /\ tConn.una # Iss) =>
        Least(Len(tConn.tx), SeqSub(tConn.max, tConn.una)) <= GuestWindow

(* The end of a stream is reported after all of it: the guest sees the FIN  *)
(* after every byte the program wrote, and tcp_shutdown reaches the         *)
(* upstream after every byte the guest sent before its own FIN.             *)
TcpEofComplete ==
    /\ tG.eof => tG.rcv = tWrote + 2
    /\ tEnd.guestFin => Len(tRead \o tEnd.in) = tG.fin - 1

(* An unacknowledged byte, SYN or FIN, and data held back by a closed       *)
(* window, always have a timer behind them: no loss can silence the         *)
(* connection.                                                              *)
TcpTimerArmed ==
    (Live /\ tConn.state \notin {"connecting", "time_wait"}
     /\ (tConn.una # tConn.max \/ (tConn.wnd = 0 /\ tConn.tx # <<>>)))
        => tConn.rtx

(* Each direction is a stream: in order, whole, and ended only after that;  *)
(* the gateway sends no more than it may, and has a timer while it must.    *)
TcpSafe == TcpInOrder /\ TcpEofComplete /\ TcpFlightBounded /\ TcpTimerArmed

(* An orderly close has delivered everything: with the reason Normal all    *)
(* the bytes the gateway acknowledged to the guest are with the upstream    *)
(* (upstream.rs: "the remaining ones stay in the stack's receive buffer").  *)
TcpNormalIsComplete ==
    tConn.reason = "normal" => Len(tRead \o tEnd.in) = tG.fin - 1
=============================================================================
