------------------------------- MODULE Vsock -------------------------------
(* virtio-vsock: one stream connection between a program on the host and one *)
(* in the guest, either opened by the host (VirtioVsock::connect) or by the  *)
(* guest towards a listening host port.  Every iteration of transmit_queue   *)
(* (a packet of the guest) and of receive_queue (a packet for the guest) is  *)
(* an action, since the cores of the guest run meanwhile; the host calls     *)
(* come between services.  Bytes are numbered in the order they are sent.    *)
(* The counters of the credit wrap at VsWrap (2^32 in the code).  The guest  *)
(* side is the Linux transport, external.                                    *)
EXTENDS Integers, Sequences

CONSTANTS
    VsWrap,        \* modulus of the credit counters
    HostAlloc,     \* HOST_BUF_ALLOC
    Threshold,     \* CREDIT_THRESHOLD
    GuestAlloc,    \* the receive buffer the guest announces
    RxBuffers,     \* buffers the guest keeps in the receive queue
    VsBytes        \* bound: bytes the two programs send in all

ASSUME VsockAssumption ==
    /\ {VsWrap, HostAlloc, Threshold, GuestAlloc, RxBuffers} \subseteq Nat \ {0}
    /\ VsBytes \in Nat
    /\ Threshold <= HostAlloc
    /\ HostAlloc < VsWrap /\ GuestAlloc < VsWrap

VARIABLES
    vsConn,     \* the connection in VirtioVsock::conns, or NoConn
    vsListen,   \* its host port is in VirtioVsock::listening
    vsBacklog,  \* the connection waits for accept
    vsControl,  \* VirtioVsock::control
    vsReset,    \* VirtioVsock::reset_event
    vsOpened,   \* the host has called connect (each call takes a new port)
    vsRx,       \* packets in used buffers of the receive queue
    vsTx,       \* packets in the transmit queue
    gsPc,       \* state of the guest's socket
    gsSock,     \* its counters and its shutdown flags
    hSent, hRead,   \* bytes the host program sent, and read
    gSent, gRead    \* bytes the guest program sent, and read

vsVars == <<vsConn, vsListen, vsBacklog, vsControl, vsReset, vsOpened, vsRx,
            vsTx, gsPc, gsSock, hSent, hRead, gSent, gRead>>

VsAdd(a, b) == (a + b) % VsWrap
VsSub(a, b) == (a - b) % VsWrap
SatSub(a, b) == IF a > b THEN a - b ELSE 0

Both == {"rcv", "send"}

NoConn == [state |-> "none"]

NewConn(state) ==
    [state |-> state, peerAlloc |-> 0, peerFwd |-> 0, tx |-> 0, fwd |-> 0,
     lastFwd |-> 0, rx |-> 0, txBuf |-> <<>>, rxBuf |-> <<>>, eof |-> FALSE,
     pending |-> {}, sendClosed |-> FALSE, update |-> FALSE]

NewSock == [peerAlloc |-> 0, peerFwd |-> 0, tx |-> 0, fwd |-> 0,
            buf |-> <<>>, eof |-> FALSE, shut |-> {}]

Exists == vsConn # NoConn

(* A packet for the guest: buf_alloc and the bytes consumed when it is made. *)
Hdr(k, op, flags, data) ==
    [op |-> op, flags |-> flags, data |-> data, alloc |-> HostAlloc,
     fwd |-> IF k = NoConn THEN 0 ELSE k.fwd]

RstReply == [op |-> "rst", flags |-> {}, data |-> <<>>, alloc |-> 0, fwd |-> 0]

(* Seeded fault: what is on its way is not counted.                         *)
PeerCreditWhole(k) == k.peerAlloc

PeerCredit(k) == SatSub(k.peerAlloc, VsSub(k.tx, k.peerFwd))

VsInit ==
    /\ vsConn = NoConn
    /\ vsListen \in BOOLEAN
    /\ vsBacklog = FALSE
    /\ vsControl = <<>> /\ vsReset = FALSE /\ vsOpened = FALSE
    /\ vsRx = <<>> /\ vsTx = <<>>
    /\ gsPc = "none" /\ gsSock = NewSock
    /\ hSent = 0 /\ hRead = <<>> /\ gSent = 0 /\ gRead = <<>>

----------------------------------------------------------------------------
(* Calls of the host program.                                               *)

Connect ==
    /\ ~vsListen /\ ~vsOpened /\ gsPc = "none"
    /\ vsOpened' = TRUE
    /\ vsConn' = NewConn("connecting")
    /\ vsControl' = Append(vsControl, Hdr(vsConn', "request", {}, <<>>))
    /\ UNCHANGED <<vsListen, vsBacklog, vsReset, vsRx, vsTx, gsPc, gsSock,
                   hSent, hRead, gSent, gRead>>

Accept ==
    /\ vsBacklog
    /\ vsBacklog' = FALSE
    /\ UNCHANGED <<vsOpened, vsConn, vsListen, vsControl, vsReset, vsRx, vsTx,
                   gsPc, gsSock, hSent, hRead, gSent, gRead>>

Held == Exists /\ ~vsBacklog

Send ==
    /\ Held /\ hSent + gSent < VsBytes
    /\ ~vsConn.sendClosed /\ vsConn.state \in {"connecting", "connected"}
    /\ hSent' = hSent + 1
    /\ vsConn' = [vsConn EXCEPT !.txBuf = Append(@, hSent + 1)]
    /\ UNCHANGED <<vsOpened, vsListen, vsBacklog, vsControl, vsReset, vsRx,
                   vsTx, gsPc, gsSock, hRead, gSent, gRead>>

(* recv: the guest's view of the free space is the one of the last packet.  *)
(* Seeded fault: the guest is never told of the space.                      *)
CreditUpdateNever(k) == k.update

CreditUpdate(k) ==
    \/ k.update
    \/ /\ SatSub(HostAlloc, VsSub(k.rx, k.lastFwd)) < Threshold
       /\ k.state = "connected"

Recv ==
    /\ Held /\ vsConn.rxBuf # <<>>
    /\ hRead' = Append(hRead, Head(vsConn.rxBuf))
    /\ vsConn' = [vsConn EXCEPT !.rxBuf = Tail(@), !.fwd = VsAdd(@, 1),
                                !.update = CreditUpdate(vsConn)]
    /\ UNCHANGED <<vsOpened, vsListen, vsBacklog, vsControl, vsReset, vsRx,
                   vsTx, gsPc, gsSock, hSent, gSent, gRead>>

ShutdownSend ==
    /\ Held /\ vsConn.state \in {"connecting", "connected"}
    /\ ~vsConn.sendClosed
    /\ vsConn' = [vsConn EXCEPT !.sendClosed = TRUE, !.pending = {"send"}]
    /\ UNCHANGED <<vsOpened, vsListen, vsBacklog, vsControl, vsReset, vsRx,
                   vsTx, gsPc, gsSock, hSent, hRead, gSent, gRead>>

Close ==
    /\ Held /\ vsConn.state \in {"connecting", "connected"}
    /\ vsConn' = [vsConn EXCEPT !.sendClosed = TRUE, !.pending = Both,
                     !.state = IF @ = "connected" THEN "closing" ELSE @]
    /\ UNCHANGED <<vsOpened, vsListen, vsBacklog, vsControl, vsReset, vsRx,
                   vsTx, gsPc, gsSock, hSent, hRead, gSent, gRead>>

(* reset: nothing on a connection already closed.                           *)
ResetConn(k) ==
    IF k.state = "closed" THEN k ELSE [k EXCEPT !.state = "closed", !.txBuf = <<>>]

ResetControl(k, control) ==
    IF k.state = "closed" THEN control
    ELSE Append(control, Hdr(k, "rst", {}, <<>>))

(* release: a connection that is still open is closed with RST first.       *)
Release ==
    /\ Held
    /\ vsControl' = ResetControl(vsConn, vsControl)
    /\ vsConn' = NoConn
    /\ UNCHANGED <<vsOpened, vsListen, vsBacklog, vsReset, vsRx, vsTx, gsPc,
                   gsSock, hSent, hRead, gSent, gRead>>

Unlisten ==
    /\ vsListen
    /\ vsListen' = FALSE /\ vsBacklog' = FALSE
    /\ vsConn' = IF vsBacklog THEN ResetConn(vsConn) ELSE vsConn
    /\ vsControl' = IF vsBacklog THEN ResetControl(vsConn, vsControl)
                    ELSE vsControl
    /\ UNCHANGED <<vsOpened, vsReset, vsRx, vsTx, gsPc, gsSock, hSent, hRead,
                   gSent, gRead>>

(* transport_reset: every connection is lost, without RST.                  *)
DropAll ==
    /\ vsConn' = IF Exists THEN [vsConn EXCEPT !.state = "closed",
                                               !.txBuf = <<>>]
                 ELSE NoConn
    /\ vsBacklog' = FALSE
    /\ vsControl' = <<>>

TransportReset ==
    /\ Exists /\ ~vsReset
    /\ vsReset' = TRUE
    /\ DropAll
    /\ UNCHANGED <<vsOpened, vsListen, vsRx, vsTx, gsPc, gsSock, hSent, hRead,
                   gSent, gRead>>

----------------------------------------------------------------------------
(* The service of the device.                                               *)

(* A packet that finds an open connection.                                  *)
Answered(k) == IF k.pending = Both THEN "closing" ELSE "connected"

Open(k) == k.state \in {"connected", "closing"}

Shutdown(k, flags) ==
    [k EXCEPT !.eof = @ \/ "send" \in flags]

EndsConn(k, flags) == flags = Both \/ k.state = "closing"

ReceiveOpen(k0, h) ==
    LET k == [k0 EXCEPT !.peerAlloc = h.alloc, !.peerFwd = h.fwd] IN
    CASE h.op = "rst" ->
            /\ vsConn' = [k EXCEPT !.state = "closed"]
            /\ UNCHANGED vsControl
      [] h.op = "response" /\ k.state = "connecting" ->
            /\ vsConn' = [k EXCEPT !.state = Answered(k)]
            /\ UNCHANGED vsControl
      [] h.op = "rw" /\ Open(k) ->
            /\ vsConn' = [k EXCEPT !.rx = VsAdd(@, Len(h.data)),
                                   !.rxBuf = @ \o h.data]
            /\ UNCHANGED vsControl
      [] h.op = "update" /\ Open(k) ->
            vsConn' = k /\ UNCHANGED vsControl
      [] h.op = "shutdown" /\ Open(k) /\ ~EndsConn(k, h.flags) ->
            vsConn' = Shutdown(k, h.flags) /\ UNCHANGED vsControl
      [] h.op = "shutdown" /\ Open(k) /\ EndsConn(k, h.flags) ->
            /\ vsConn' = ResetConn(Shutdown(k, h.flags))
            /\ vsControl' = ResetControl(k, vsControl)
      [] OTHER ->
            vsConn' = ResetConn(k) /\ vsControl' = ResetControl(k, vsControl)

(* A packet without an open connection: only a REQUEST to a listening port  *)
(* makes one, any other one but RST is answered with RST.                   *)
ReceiveClosed(h) ==
    IF h.op = "request" /\ vsListen
    THEN /\ vsConn' = [NewConn("connected") EXCEPT !.peerAlloc = h.alloc,
                                                   !.peerFwd = h.fwd]
         /\ vsBacklog' = TRUE
         /\ vsControl' = Append(vsControl, Hdr(vsConn', "response", {}, <<>>))
    ELSE /\ vsControl' = IF h.op = "rst" THEN vsControl
                         ELSE Append(vsControl, RstReply)
         /\ UNCHANGED <<vsConn, vsBacklog>>

TransmitQueue ==
    /\ vsTx # <<>>
    /\ vsTx' = Tail(vsTx)
    /\ IF Exists /\ vsConn.state # "closed"
       THEN ReceiveOpen(vsConn, Head(vsTx)) /\ UNCHANGED vsBacklog
       ELSE ReceiveClosed(Head(vsTx))
    /\ UNCHANGED <<vsOpened, vsListen, vsReset, vsRx, gsPc, gsSock, hSent,
                   hRead, gSent, gRead>>

(* next_data: data within the guest's credit, then the SHUTDOWN once all the *)
(* data has left, then the credit.                                          *)
DataReady(k) == Open(k) /\ k.txBuf # <<>> /\ PeerCredit(k) > 0
(* Seeded faults: before the data, and not once close was called.           *)
ShutdownReadyEarly(k) == Open(k) /\ k.pending # {}
ShutdownReadyHalf(k) == k.state = "connected" /\ k.txBuf = <<>> /\ k.pending # {}

ShutdownReady(k) == Open(k) /\ k.txBuf = <<>> /\ k.pending # {}

UpdateReady(k) == k.update /\ k.state = "connected"

Deliver(h, k) ==
    /\ Len(vsRx) < RxBuffers
    /\ vsRx' = Append(vsRx, h)
    /\ vsConn' = IF k = NoConn THEN NoConn ELSE [k EXCEPT !.lastFwd = h.fwd]
    /\ UNCHANGED <<vsOpened, vsListen, vsBacklog, vsReset, vsTx, gsPc, gsSock,
                   hSent, hRead, gSent, gRead>>

SendControl ==
    /\ vsControl # <<>>
    /\ Deliver(Head(vsControl), vsConn)
    /\ vsControl' = Tail(vsControl)

SendData ==
    /\ vsControl = <<>> /\ Exists /\ DataReady(vsConn)
    /\ LET k == [vsConn EXCEPT !.txBuf = Tail(@), !.tx = VsAdd(@, 1)]
       IN  Deliver(Hdr(k, "rw", {}, <<Head(vsConn.txBuf)>>), k)
    /\ UNCHANGED vsControl

SendShutdown ==
    /\ vsControl = <<>> /\ Exists
    /\ ~DataReady(vsConn) /\ ShutdownReady(vsConn)
    /\ Deliver(Hdr(vsConn, "shutdown", vsConn.pending, <<>>),
               [vsConn EXCEPT !.pending = {}])
    /\ UNCHANGED vsControl

SendUpdate ==
    /\ vsControl = <<>> /\ Exists
    /\ ~DataReady(vsConn) /\ ~ShutdownReady(vsConn) /\ UpdateReady(vsConn)
    /\ Deliver(Hdr(vsConn, "update", {}, <<>>),
               [vsConn EXCEPT !.update = FALSE])
    /\ UNCHANGED vsControl

ReceiveQueue == SendControl \/ SendData \/ SendShutdown \/ SendUpdate

(* event_queue: the guest drops its sockets.                                *)
EventQueue ==
    /\ vsReset
    /\ vsReset' = FALSE
    /\ gsPc' = IF gsPc = "none" THEN "none" ELSE "closed"
    /\ gsSock' = NewSock
    /\ UNCHANGED <<vsOpened, vsConn, vsListen, vsBacklog, vsControl, vsRx,
                   vsTx, hSent, hRead, gSent, gRead>>

----------------------------------------------------------------------------
(* The guest: the socket of one program over the Linux transport.           *)

GuestHdr(op, flags, data, fwd) ==
    [op |-> op, flags |-> flags, data |-> data, alloc |-> GuestAlloc,
     fwd |-> fwd]

Transmits(op, flags, data) ==
    vsTx' = Append(vsTx, GuestHdr(op, flags, data, gsSock.fwd))

GuestKeeps == UNCHANGED <<vsOpened, vsConn, vsListen, vsBacklog, vsControl,
                          vsReset, hSent, hRead>>

GuestConnect ==
    /\ vsListen /\ gsPc = "none" /\ ~Exists
    /\ gsPc' = "connecting"
    /\ Transmits("request", {}, <<>>)
    /\ UNCHANGED <<vsRx, gsSock, gSent, gRead>> /\ GuestKeeps

GuestCredit == SatSub(gsSock.peerAlloc, VsSub(gsSock.tx, gsSock.peerFwd))

GuestSend ==
    /\ gsPc = "connected" /\ "send" \notin gsSock.shut
    /\ hSent + gSent < VsBytes /\ GuestCredit > 0
    /\ gSent' = gSent + 1
    /\ gsSock' = [gsSock EXCEPT !.tx = VsAdd(@, 1)]
    /\ Transmits("rw", {}, <<gSent + 1>>)
    /\ UNCHANGED <<vsRx, gsPc, gRead>> /\ GuestKeeps

GuestRead ==
    /\ gsPc \in {"connected", "done"} /\ gsSock.buf # <<>>
    /\ gRead' = Append(gRead, Head(gsSock.buf))
    /\ gsSock' = [gsSock EXCEPT !.buf = Tail(@), !.fwd = VsAdd(@, 1)]
    /\ vsTx' = IF gsPc = "connected"
               THEN Append(vsTx, GuestHdr("update", {}, <<>>, gsSock'.fwd))
               ELSE vsTx
    /\ UNCHANGED <<vsRx, gsPc, gSent>> /\ GuestKeeps

GuestShutdown(flags) ==
    /\ gsPc = "connected" /\ ~(flags \subseteq gsSock.shut)
    /\ gsSock' = [gsSock EXCEPT !.shut = @ \cup flags]
    /\ gsPc' = IF flags = Both THEN "closing" ELSE gsPc
    /\ Transmits("shutdown", flags, <<>>)
    /\ UNCHANGED <<vsRx, gSent, gRead>> /\ GuestKeeps

(* The program closes a socket whose peer has closed: RST.                  *)
GuestDone ==
    /\ gsPc = "done" /\ gsSock.buf = <<>>
    /\ gsPc' = "closed" /\ gsSock' = NewSock
    /\ Transmits("rst", {}, <<>>)
    /\ UNCHANGED <<vsRx, gSent, gRead>> /\ GuestKeeps

GuestReceive ==
    /\ vsRx # <<>>
    /\ vsRx' = Tail(vsRx)
    /\ LET h == Head(vsRx)
           s == [gsSock EXCEPT !.peerAlloc = h.alloc, !.peerFwd = h.fwd]
       IN
       CASE h.op = "request" /\ gsPc = "none" ->
              \/ /\ gsPc' = "connected" /\ gsSock' = s
                 /\ Transmits("response", {}, <<>>)
              \/ /\ gsPc' = "closed" /\ gsSock' = NewSock
                 /\ Transmits("rst", {}, <<>>)
         [] h.op = "response" /\ gsPc = "connecting" ->
              gsPc' = "connected" /\ gsSock' = s /\ UNCHANGED vsTx
         [] h.op = "rst" ->
              gsPc' = "closed" /\ gsSock' = NewSock /\ UNCHANGED vsTx
         [] h.op = "rw" /\ gsPc \in {"connected", "closing"} ->
              /\ gsSock' = [s EXCEPT !.buf = @ \o h.data]
              /\ UNCHANGED <<gsPc, vsTx>>
         [] h.op = "update" /\ gsPc \in {"connected", "closing"} ->
              gsSock' = s /\ UNCHANGED <<gsPc, vsTx>>
         [] h.op = "shutdown" /\ gsPc = "connected" ->
              /\ gsSock' = [s EXCEPT !.eof = TRUE]
              /\ gsPc' = IF h.flags = Both THEN "done" ELSE gsPc
              /\ UNCHANGED vsTx
         [] h.op = "shutdown" /\ gsPc = "closing" ->
              /\ gsSock' = IF h.flags = Both THEN NewSock ELSE s
              /\ gsPc' = IF h.flags = Both THEN "closed" ELSE gsPc
              /\ IF h.flags = Both THEN Transmits("rst", {}, <<>>)
                 ELSE UNCHANGED vsTx
         [] OTHER ->
              UNCHANGED <<gsPc, gsSock, vsTx>>
    /\ UNCHANGED <<gSent, gRead>> /\ GuestKeeps

----------------------------------------------------------------------------
VsHost == Send \/ ShutdownSend \/ Close \/ Release \/ Unlisten
          \/ TransportReset \/ Connect
VsDevice == TransmitQueue \/ ReceiveQueue \/ EventQueue
VsGuest == GuestConnect \/ GuestSend \/ GuestShutdown({"send"})
           \/ GuestShutdown(Both)

VsNext == VsHost \/ Accept \/ Recv \/ VsDevice \/ VsGuest \/ GuestRead
          \/ GuestDone \/ GuestReceive

InFlight(queue) ==
    LET data == SelectSeq(queue, LAMBDA h : h.op = "rw")
    IN  [i \in 1..Len(data) |-> Head(data[i].data)]

(* Every byte that reaches a program is the next one the other program      *)
(* sent: what was read, what waits in the buffer and what is on its way is  *)
(* one run of consecutive bytes from the first one, in both directions.     *)
VsInOrder ==
    /\ LET got == gRead \o gsSock.buf \o InFlight(vsRx)
       IN  gsPc \in {"connected", "done"} =>
               /\ got = [i \in 1..Len(got) |-> i]
               /\ Len(got) <= hSent
    /\ LET got == hRead \o (IF Exists THEN vsConn.rxBuf ELSE <<>>)
                  \o InFlight(vsTx)
       IN  Exists /\ Open(vsConn) => got = [i \in 1..gSent |-> i]

(* next_data keeps within the guest's credit: what the guest has not read   *)
(* yet, with what is on its way, fits in the buffer the guest announced,    *)
(* across the wrap of the counters and with answers still on their way.     *)
VsGuestBuffer ==
    gsPc = "connected" => Len(gsSock.buf \o InFlight(vsRx)) <= GuestAlloc

(* The credit the device announces is never more than it holds: a guest     *)
(* that keeps within it never has more unread bytes at the host than        *)
(* HOST_BUF_ALLOC, those on their way included.                             *)
VsHostBuffer ==
    Exists /\ Open(vsConn) =>
        Len(vsConn.rxBuf \o InFlight(vsTx)) <= HostAlloc

(* VirtioVsock::eof: the end of the stream the guest closed (SHUTDOWN with  *)
(* SEND) is reported once everything the guest sent has been read.          *)
VsEofComplete ==
    /\ (Exists /\ vsConn.eof /\ vsConn.rxBuf = <<>>) => Len(hRead) = gSent
    /\ (gsPc = "connected" /\ gsSock.eof /\ gsSock.buf = <<>>) =>
           Len(gRead) = hSent

(* Each direction is a stream: in order, whole, and ended only after that;  *)
(* no buffer is overrun by a peer that keeps within its credit.             *)
VsSafe == VsInOrder /\ VsEofComplete /\ VsGuestBuffer /\ VsHostBuffer

(* A guest program that wants to send on a connection the host keeps open   *)
(* and keeps reading is never left waiting for credit.                      *)
VsNoStall ==
    (gsPc = "connected" /\ hSent + gSent < VsBytes /\ GuestCredit = 0)
        ~> (GuestCredit > 0 \/ gsPc # "connected"
            \/ ~Exists \/ vsConn.state # "connected")

(* A connection the host has closed (close, before or after the guest's     *)
(* answer) ends: the SHUTDOWN leaves after the data and the RST comes back. *)
VsCloseEnds ==
    (Exists /\ vsConn.pending = Both) ~> (~Exists \/ vsConn.state = "closed")

=============================================================================
