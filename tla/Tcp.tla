-------------------------------- MODULE Tcp --------------------------------
(* The state machine of a TCP connection of the virtual gateway (TcpConn) as *)
(* operators on [c: the connection, u: its upstream, out: the segments it    *)
(* emits].  Sequence numbers wrap at SeqMod (2^32 in the code), the maximum  *)
(* segment size is one byte, and time is left out: an armed timer may expire *)
(* at any moment, so the round-trip estimates, which only place the          *)
(* deadlines, are left out too.                                              *)
EXTENDS Integers, Sequences, FiniteSets

CONSTANTS
    SeqMod,        \* modulus of the sequence numbers, even
    Iss, GuestIss, \* the initial sequence numbers
    RxCapacity,    \* RX_CAPACITY
    TxCapacity,    \* TX_CAPACITY
    MaxRetries,    \* MAX_RETRIES
    HostBuffer,    \* HOST_BUFFER: what the upstream takes before it is read
    GuestWindow,   \* receive buffer of the guest
    CwndInitial    \* initial congestion window (10 segments), also its cap

ASSUME TcpAssumption ==
    /\ {SeqMod, RxCapacity, TxCapacity, MaxRetries, HostBuffer, GuestWindow}
           \subseteq Nat \ {0}
    /\ SeqMod % 2 = 0
    /\ 2 * GuestWindow < SeqMod /\ 2 * RxCapacity < SeqMod

----------------------------------------------------------------------------
(* Sequence numbers.                                                        *)

SeqAdd(a, n) == (a + n) % SeqMod
SeqSub(a, b) == (a - b) % SeqMod

SeqLt(a, b) == SeqSub(a, b) >= SeqMod \div 2

SeqLe(a, b) == a = b \/ SeqLt(a, b)

Least(a, b) == IF a < b THEN a ELSE b
Most(a, b) == IF a > b THEN a ELSE b

NoSeq == SeqMod     \* None in fin_seq

Seg(seq, ack, flags, wnd, data) ==
    [seq |-> seq, ack |-> ack, flags |-> flags, wnd |-> wnd, data |-> data]

(* TcpConn::new for a SYN of the guest; new_active knows nothing of the      *)
(* guest yet.                                                               *)
NewTcp(state, irs, rcv, wnd) ==
    [state |-> state, una |-> Iss, nxt |-> Iss, max |-> Iss, wnd |-> wnd,
     wl1 |-> irs, wl2 |-> Iss, cwnd |-> CwndInitial, ssthresh |-> CwndInitial,
     tx |-> <<>>, eof |-> FALSE, fin |-> NoSeq, irs |-> irs, rcv |-> rcv,
     rx |-> <<>>, rxFin |-> FALSE, shut |-> FALSE,
     edge |-> SeqAdd(rcv, RxCapacity), ack |-> FALSE, rtx |-> FALSE,
     retries |-> 0, dup |-> 0, reason |-> "none"]

NewEnd == [status |-> "pending", out |-> <<>>, in |-> <<>>, eof |-> FALSE,
           reset |-> FALSE, abort |-> FALSE, guestFin |-> FALSE,
           closed |-> FALSE]

RcvWnd(c) == RxCapacity - Len(c.rx)
Inflight(c) == SeqSub(c.nxt, c.una)

(* emit: every segment carries the acknowledgement and the window.          *)
Emit(s, seq, flags, data) ==
    [s EXCEPT !.out = Append(@, Seg(seq, s.c.rcv, flags, RcvWnd(s.c), data)),
              !.c.edge = SeqAdd(s.c.rcv, RcvWnd(s.c)),
              !.c.ack = FALSE]

SendSyn(s, flags) ==
    [Emit(s, Iss, flags, <<>>) EXCEPT
        !.c.nxt = SeqAdd(Iss, 1), !.c.max = SeqAdd(Iss, 1), !.c.rtx = TRUE]

Finish(s, reason, reset) ==
    IF s.c.state = "closed" THEN s
    ELSE [s EXCEPT !.c.state = "closed", !.c.reason = reason, !.c.rtx = FALSE,
                   !.u.closed = TRUE]

SendRst(s) == Emit(s, s.c.max, {"rst", "ack"}, <<>>)

Abort(s) == IF s.c.state = "closed" THEN s
            ELSE Finish(SendRst(s), "remote_reset", TRUE)

EnterTimeWait(s) == [s EXCEPT !.c.state = "time_wait", !.c.rtx = FALSE]

----------------------------------------------------------------------------
(* input: a segment of the guest.                                           *)

InputSynSent(s, h) ==
    LET ackOk == "ack" \in h.flags /\ h.ack = s.c.max IN
    CASE "ack" \in h.flags /\ ~ackOk ->
            IF "rst" \in h.flags THEN s
            ELSE [s EXCEPT !.out = Append(@, Seg(h.ack, 0, {"rst"}, 0, <<>>))]
      [] "rst" \in h.flags ->
            IF ackOk THEN Finish(s, "refused", TRUE) ELSE s
      [] "rst" \notin h.flags /\ "syn" \in h.flags /\ ackOk ->
            [s EXCEPT !.c.irs = h.seq, !.c.rcv = SeqAdd(h.seq, 1),
                      !.c.una = h.ack, !.c.wnd = h.wnd, !.c.wl1 = h.seq,
                      !.c.wl2 = h.ack, !.c.retries = 0, !.c.rtx = FALSE,
                      !.c.state = "established", !.c.ack = TRUE]
      [] OTHER -> s

InWindow(c, q) == SeqLe(c.rcv, q) /\ SeqLt(q, SeqAdd(c.rcv, RcvWnd(c)))

SegLen(h) == Len(h.data) + Cardinality(h.flags \cap {"syn", "fin"})

Acceptable(c, h) ==
    CASE SegLen(h) = 0 /\ RcvWnd(c) = 0 -> h.seq = c.rcv
      [] SegLen(h) = 0 /\ RcvWnd(c) # 0 -> InWindow(c, h.seq)
      [] SegLen(h) # 0 /\ RcvWnd(c) = 0 -> FALSE
      [] OTHER -> InWindow(c, h.seq)
                  \/ InWindow(c, SeqAdd(h.seq, SegLen(h) - 1))

(* The third duplicate acknowledgement sends the first unacknowledged byte. *)
FastRetransmit(s) ==
    LET c == s.c
        ss == Most(Inflight(c) \div 2, 2)
        t == [s EXCEPT !.c.ssthresh = ss, !.c.cwnd = ss]
    IN  IF c.tx = <<>> \/ c.max = c.una THEN t
        ELSE Emit(t, c.una, {"ack"}, <<Head(c.tx)>>)

(* What h acknowledges: the SYN and the FIN take a number but are not in tx. *)
FinAcked(c, h) == SeqLt(c.una, h.ack) /\ c.fin # NoSeq /\ SeqLt(c.fin, h.ack)
(* Seeded fault: the SYN counts as a byte of the send buffer.               *)
AckedBytesCountFin(c, h) ==
    Least(Len(c.tx),
          SeqSub(h.ack, c.una) - (IF FinAcked(c, h) THEN 1 ELSE 0))

AckedBytes(c, h) ==
    Least(Len(c.tx),
          SeqSub(h.ack, c.una) - (IF c.una = Iss THEN 1 ELSE 0)
                               - (IF FinAcked(c, h) THEN 1 ELSE 0))

GrownCwnd(c, acked) ==
    Least(CwndInitial,
          c.cwnd + IF c.cwnd < c.ssthresh THEN Least(acked, 1) ELSE 1)

AckNew(s, h) ==
    LET c == s.c
        acked == AckedBytes(c, h)
    IN  [s EXCEPT
            !.c.tx = SubSeq(@, acked + 1, Len(@)),
            !.c.una = h.ack,
            !.c.nxt = IF SeqLt(@, h.ack) THEN h.ack ELSE @,
            !.c.dup = 0,
            !.c.cwnd = GrownCwnd(c, acked),
            !.c.rtx = h.ack # c.max]

AckDuplicate(s, h) ==
    LET c == s.c
        isDup == /\ h.ack = c.una /\ h.data = <<>> /\ "fin" \notin h.flags
                 /\ h.wnd = c.wnd /\ c.wnd # 0 /\ c.max # c.una
        t == [s EXCEPT !.c.dup = Least(@ + 1, 4)]
    IN  IF ~isDup THEN s ELSE IF c.dup = 2 THEN FastRetransmit(t) ELSE t

TakeWindow(s, h) ==
    IF \/ SeqLt(s.c.wl1, h.seq)
       \/ s.c.wl1 = h.seq /\ SeqLe(s.c.wl2, h.ack)
    THEN [s EXCEPT !.c.wnd = h.wnd, !.c.wl1 = h.seq, !.c.wl2 = h.ack]
    ELSE s

TakeAck(s, h) ==
    LET r == IF SeqLe(s.c.una, h.ack) THEN [s EXCEPT !.c.retries = 0] ELSE s
        a == IF SeqLt(s.c.una, h.ack) THEN AckNew(r, h) ELSE AckDuplicate(r, h)
        w == TakeWindow(a, h)
    IN  IF ~FinAcked(s.c, h) THEN w
        ELSE CASE w.c.state = "fin_wait1" -> [w EXCEPT !.c.state = "fin_wait2"]
               [] w.c.state = "closing" -> EnterTimeWait(w)
               [] w.c.state = "last_ack" -> Finish(w, "normal", FALSE)
               [] OTHER -> w

(* Data: out of order is discarded, and so is what the window has no room   *)
(* for; the duplicate acknowledgement makes the guest send it again.        *)
NewData(c, h) ==
    LET skip == Least(SeqSub(c.rcv, h.seq), Len(h.data))
        data == SubSeq(h.data, skip + 1, Len(h.data))
    IN  SubSeq(data, 1, Least(Len(data), RcvWnd(c)))

TakeData(s, h) ==
    LET c == s.c IN
    IF \/ h.data = <<>>
       \/ c.state \notin {"established", "fin_wait1", "fin_wait2"}
    THEN s
    ELSE IF SeqLt(c.rcv, h.seq) THEN [s EXCEPT !.c.ack = TRUE]
    ELSE [s EXCEPT !.c.rx = @ \o NewData(c, h),
                   !.c.rcv = SeqAdd(@, Len(NewData(c, h))),
                   !.c.ack = TRUE]

TakeFin(s, h) ==
    LET c == s.c
        first == c.state \in {"established", "fin_wait1", "fin_wait2"}
        t == IF first
             THEN [s EXCEPT !.c.rcv = SeqAdd(@, 1), !.c.rxFin = TRUE,
                            !.c.ack = TRUE]
             ELSE [s EXCEPT !.c.ack = TRUE]
    IN  IF \/ "fin" \notin h.flags
           \/ SeqAdd(h.seq, Len(h.data)) # c.rcv
        THEN s
        ELSE CASE c.state = "established" ->
                    [t EXCEPT !.c.state = "close_wait"]
               [] c.state = "fin_wait1" -> [t EXCEPT !.c.state = "closing"]
               [] c.state = "fin_wait2" -> EnterTimeWait(t)
               [] OTHER -> t

(* The segment completes the handshake of a connection the guest opened.    *)
Establish(s, h) ==
    [s EXCEPT !.c.state = "established", !.c.wnd = h.wnd, !.c.wl1 = h.seq,
              !.c.wl2 = h.ack]

InputSynchronized(s, h) ==
    LET c == s.c
        e == IF c.state = "syn_received" THEN Establish(s, h) ELSE s
        a == TakeAck(e, h)
    IN
    CASE ~Acceptable(c, h) ->
            IF "rst" \in h.flags THEN s ELSE [s EXCEPT !.c.ack = TRUE]
      [] Acceptable(c, h) /\ "rst" \in h.flags ->
            Finish(s, "guest_reset", TRUE)
      [] Acceptable(c, h) /\ "rst" \notin h.flags /\ "syn" \in h.flags ->
            [s EXCEPT !.c.ack = TRUE]
      [] Acceptable(c, h) /\ h.flags \cap {"rst", "syn", "ack"} = {} -> s
      [] Acceptable(c, h) /\ h.flags \cap {"rst", "syn", "ack"} = {"ack"} ->
            IF /\ c.state = "syn_received"
               /\ ~(SeqLt(c.una, h.ack) /\ SeqLe(h.ack, c.max))
            THEN [s EXCEPT !.out = Append(@, Seg(h.ack, 0, {"rst"}, 0, <<>>))]
            ELSE IF SeqLt(c.max, h.ack) THEN [e EXCEPT !.c.ack = TRUE]
            ELSE IF a.c.state = "closed" THEN a
            ELSE TakeFin(TakeData(a, h), h)

Input(s, h) ==
    LET c == s.c IN
    CASE c.state = "closed" -> s
      [] c.state = "connecting" ->
            IF "rst" \in h.flags /\ h.seq \in {c.rcv, c.irs}
            THEN Finish(s, "guest_reset", TRUE) ELSE s
      [] c.state = "syn_sent" -> InputSynSent(s, h)
      [] c.state = "syn_received" /\ "syn" \in h.flags
         /\ "ack" \notin h.flags /\ h.seq = c.irs ->
            SendSyn(s, {"syn", "ack"})
      [] OTHER -> InputSynchronized(s, h)

----------------------------------------------------------------------------
(* on_timer, when the retransmission timer has expired.                     *)

OnTimer(s) ==
    LET c == s.c
        t == [s EXCEPT !.c.rtx = FALSE]
        unsent == Len(c.tx) > Inflight(c)
        again == [t EXCEPT
            !.c.retries = @ + 1,
            !.c.ssthresh = IF c.una # c.max
                           THEN Most(SeqSub(c.max, c.una) \div 2, 2) ELSE @,
            !.c.cwnd = IF c.una # c.max THEN 1 ELSE @]
        back == [again EXCEPT !.c.nxt = c.una]
        probe == Emit(back, SeqSub(c.una, 1), {"ack"}, <<>>)
    IN
    CASE c.una = c.max /\ ~(c.wnd = 0 /\ unsent) -> t
      [] ~(c.una = c.max /\ ~(c.wnd = 0 /\ unsent))
         /\ c.retries = MaxRetries ->
            Finish(SendRst([t EXCEPT !.c.retries = @ + 1]), "timeout", TRUE)
      [] OTHER ->
            CASE c.state = "syn_received" -> SendSyn(again, {"syn", "ack"})
              [] c.state = "syn_sent" -> SendSyn(again, {"syn"})
              [] OTHER ->
                 [IF c.wnd = 0 /\ c.tx # <<>> THEN probe ELSE back
                     EXCEPT !.c.rtx = TRUE]

----------------------------------------------------------------------------
(* process: exchanges with the upstream, and sending.                       *)
ToUpstream(s) ==
    LET n == Least(Len(s.c.rx), HostBuffer - Len(s.u.in))
        t == [s EXCEPT !.u.in = @ \o SubSeq(s.c.rx, 1, n),
                       !.c.rx = SubSeq(@, n + 1, Len(@))]
    IN  IF t.c.rx = <<>> /\ t.c.rxFin /\ ~t.c.shut
        THEN [t EXCEPT !.c.shut = TRUE, !.u.guestFin = TRUE]
        ELSE t

(* The window has reopened by a segment (or half the buffer) at least.      *)
WindowUpdate(s) ==
    LET c == s.c
        edge == SeqAdd(c.rcv, RcvWnd(c))
    IN  IF /\ ~c.rxFin /\ SeqLt(c.edge, edge)
           /\ SeqSub(edge, c.edge) >= Least(1, RxCapacity \div 2)
        THEN [s EXCEPT !.c.ack = TRUE] ELSE s

CanRead(s) == /\ s.c.state \in {"syn_received", "established", "close_wait"}
              /\ ~s.c.eof /\ Len(s.c.tx) < TxCapacity

FromUpstream(s) ==
    LET n == Least(Len(s.u.out), TxCapacity - Len(s.c.tx))
        t == [s EXCEPT !.c.tx = @ \o SubSeq(s.u.out, 1, n),
                       !.u.out = SubSeq(@, n + 1, Len(@))]
    IN  CASE ~CanRead(s) -> s
          [] CanRead(s) /\ s.u.reset ->
                Finish(SendRst(s), "remote_reset", TRUE)
          [] OTHER ->
                [t EXCEPT !.c.eof = CanRead(t) /\ t.u.out = <<>> /\ t.u.eof]

Sendable(c) ==
    LET usable == Most(0, Least(c.wnd, c.cwnd) - Inflight(c))
    IN  Least(usable, Most(0, Len(c.tx) - Inflight(c)))

SendDataSegments(s) ==
    LET c == s.c
        n == Sendable(c)
        end == SeqAdd(c.nxt, n)
        segs == [i \in 1..n |-> Seg(SeqAdd(c.nxt, i - 1), c.rcv, {"ack"},
                                    RcvWnd(c), <<c.tx[Inflight(c) + i]>>)]
    IN  IF n = 0 THEN s
        ELSE [s EXCEPT !.out = @ \o segs,
                       !.c.edge = SeqAdd(c.rcv, RcvWnd(c)), !.c.ack = FALSE,
                       !.c.nxt = end, !.c.rtx = TRUE,
                       !.c.max = IF SeqLt(@, end) THEN end ELSE @]

SendsFin(c) ==
    /\ c.eof /\ Inflight(c) = Len(c.tx)
    /\ IF c.fin = NoSeq THEN c.state \in {"established", "close_wait"}
       ELSE c.fin = c.nxt

SendFin(s) ==
    LET c == s.c
        after == CASE c.fin # NoSeq -> c.state
                   [] c.fin = NoSeq /\ c.state = "established" -> "fin_wait1"
                   [] OTHER -> "last_ack"
        end == SeqAdd(c.nxt, 1)
    IN  IF ~SendsFin(c) THEN s
        ELSE [Emit(s, c.nxt, {"fin", "ack"}, <<>>) EXCEPT
                 !.c.state = after, !.c.fin = c.nxt, !.c.nxt = end,
                 !.c.max = IF SeqLt(@, end) THEN end ELSE @, !.c.rtx = TRUE]

(* Seeded fault: a closed window has no timer.                              *)
PersistTimerOff(s) == s

PersistTimer(s) ==
    IF /\ s.c.wnd = 0 /\ s.c.una = s.c.max
       /\ Len(s.c.tx) > Inflight(s.c)
    THEN [s EXCEPT !.c.rtx = TRUE] ELSE s

Transmit(s) ==
    IF s.c.state \in {"established", "close_wait", "fin_wait1", "last_ack",
                      "closing"}
    THEN PersistTimer(SendFin(SendDataSegments(s))) ELSE s

PendingAck(s) == IF s.c.ack THEN Emit(s, s.c.nxt, {"ack"}, <<>>) ELSE s

Exchange(s) ==
    LET f == FromUpstream(WindowUpdate(ToUpstream(s)))
    IN  IF f.c.state = "closed" THEN f ELSE PendingAck(Transmit(f))

Process(s, late) ==
    CASE s.c.state = "closed" -> s
      [] s.c.state = "connecting" /\ s.u.status = "connected" ->
            Exchange(SendSyn([s EXCEPT !.c.state = "syn_received"],
                             {"syn", "ack"}))
      [] s.c.state = "connecting" /\ s.u.status = "refused" ->
            Finish(Emit(s, 0, {"rst", "ack"}, <<>>), "refused", TRUE)
      [] s.c.state = "connecting" /\ s.u.status = "pending" ->
            IF late THEN Finish(Emit(s, 0, {"rst", "ack"}, <<>>),
                                "timeout", TRUE)
            ELSE s
      [] s.c.state = "syn_sent" ->
            IF late THEN Finish(s, "timeout", TRUE) ELSE s
      [] OTHER -> Exchange(s)
=============================================================================
