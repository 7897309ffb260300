----------------------------- MODULE VirtioBlk -----------------------------
(***************************************************************************)
(* virtio-blk behind its transport (vetro-platform/src/virtio/blk.rs over  *)
(* mmio.rs and queue.rs), against a driver that runs on another core: the  *)
(* steps of service interleave with the driver's accesses to the rings,    *)
(* while register accesses wait for the device lock.  The disk is reduced  *)
(* to whether the block a request needs has been delivered by the host;    *)
(* BlkDisk models its contents.                                            *)
(***************************************************************************)
EXTENDS VirtioMmio

CONSTANTS QueueSize,   \* the size of the queue, a power of two below Wrap
          MaxBurst     \* requests submitted during one service: with those that
                       \* were there before, fewer than Wrap
CONSTANT MaxReloads    \* snapshots restored in a behaviour

VARIABLES
    vT,        \* the transport and its queue
    vRing,     \* the rings in guest memory
    vReq,      \* head -> the request the driver has put in its chain
    vPc,       \* where service is: "off", "loop", "publish", "handle" or "end"
    vCur,      \* the head being handled, or NoHead
    vErr,      \* the error service ends with, or "none"
    vPending,  \* VirtioBlk::pending: the head that waits for the backend
    vBurst,    \* requests submitted since service began
    vHost,     \* the block a request needs: "absent", "asked", "ready", "failed"
    gPc,       \* the driver: "down", "idle", "kick?", "kick", "drain", "arm", "recheck"
    gFree,     \* heads the driver owns
    vReloads,  \* snapshots restored so far
    gSeen      \* the driver's copy of the used index

blkVars == <<vT, vRing, vReq, vPc, vCur, vErr, vPending, vBurst, vHost, vReloads, gPc, gFree, gSeen>>
blkService == <<vPc, vCur, vErr, vPending, vBurst>>
blkDriver == <<gPc, gFree, gSeen, vReq>>

BlkHeads == 0..(QueueSize - 1)
NoHead == QueueSize
\* "now": answered at once; "host": needs a block; "short": no complete header;
\* "chain": descriptors walk refuses.
BlkKinds == {"now", "host", "short", "chain"}
blkQueue == vT.queues[1]

BlkInit ==
    /\ vT = NewTransport(<<QueueSize>>)
    /\ vRing = NewRing(QueueSize)
    /\ vReq = [h \in BlkHeads |-> "now"]
    /\ vPc = "off" /\ vCur = NoHead /\ vErr = "none"
    /\ vPending = NoHead /\ vBurst = 0 /\ vHost = "absent" /\ vReloads = 0
    /\ gPc = "down" /\ gFree = BlkHeads /\ gSeen = 0

-----------------------------------------------------------------------------
(* The driver (external): Linux's virtio_ring as the transport meets it.   *)

\* The driver sets the device up, with or without EVENT_IDX.
BlkSetup(f) ==
    /\ gPc = "down" /\ vPc = "off"
    /\ vT' = DriverSetup(vT, f)
    /\ vRing' = NewRing(QueueSize)
    /\ gPc' = "idle" /\ gFree' = BlkHeads /\ gSeen' = 0
    /\ UNCHANGED <<blkService, vReq, vHost>>

\* Writing zero to Status drops the pending request with the rest, and the
\* driver takes every chain back.
DriverReset ==
    /\ gPc = "idle" /\ vPc = "off"
    /\ vT' = [ResetTransport(vT) EXCEPT !.gen = 0]
    /\ vPending' = NoHead
    /\ gPc' = "down" /\ gFree' = BlkHeads /\ vReq' = [h \in BlkHeads |-> "now"]
    /\ UNCHANGED <<vRing, vPc, vCur, vErr, vBurst, vHost, gSeen>>

\* A chain is published; the driver then reads avail_event to decide.
Submit(h, k) ==
    /\ gPc = "idle" /\ h \in gFree
    /\ vPc # "off" => vBurst < MaxBurst
    /\ vBurst' = IF vPc = "off" THEN 0 ELSE vBurst + 1
    /\ vReq' = [vReq EXCEPT ![h] = k]
    /\ vRing' = [vRing EXCEPT !.heads[vRing.idx % QueueSize] = h, !.idx = Add(@, 1)]
    /\ gFree' = gFree \ {h}
    /\ gPc' = "kick?"
    /\ UNCHANGED <<vT, vPc, vCur, vErr, vPending, vHost, gSeen>>

DecideKick ==
    /\ gPc = "kick?"
    /\ gPc' = IF blkQueue.event /\ ~NeedEvent(vRing.availEvent, vRing.idx, Sub(vRing.idx, 1))
              THEN "idle" ELSE "kick"
    /\ UNCHANGED <<vT, vRing, vReq, blkService, vHost, gFree, gSeen>>

\* The interrupt handler: acknowledge, suppress, take what is used, ask for
\* the next interrupt, look again.
TakeIrq ==
    /\ gPc = "idle" /\ vPc = "off" /\ "vring" \in vT.int
    /\ vT' = AckInterrupt(vT, {"vring"})
    /\ vRing' = IF blkQueue.event THEN vRing ELSE [vRing EXCEPT !.quiet = TRUE]
    /\ gPc' = "drain"
    /\ UNCHANGED <<vReq, blkService, vHost, gFree, gSeen>>

TakeUsed ==
    /\ gPc = "drain"
    /\ IF gSeen = vRing.usedIdx
       THEN gPc' = "arm" /\ UNCHANGED <<gFree, gSeen, vReq>>
       ELSE LET h == vRing.used[gSeen % QueueSize]
            IN  /\ gFree' = gFree \cup {h}
                /\ vReq' = [vReq EXCEPT ![h] = "now"]
                /\ gSeen' = Add(gSeen, 1)
                /\ gPc' = gPc
    /\ UNCHANGED <<vT, vRing, blkService, vHost>>

Arm ==
    /\ gPc = "arm"
    /\ vRing' = [vRing EXCEPT !.usedEvent = gSeen, !.quiet = FALSE]
    /\ gPc' = "recheck"
    /\ UNCHANGED <<vT, vReq, blkService, vHost, gFree, gSeen>>

Recheck ==
    /\ gPc = "recheck"
    /\ gPc' = IF gSeen = vRing.usedIdx THEN "idle" ELSE "drain"
    /\ UNCHANGED <<vT, vRing, vReq, blkService, vHost, gFree, gSeen>>

-----------------------------------------------------------------------------
(* The device.                                                             *)

\* Board::settle: a register access, and every quantum, make the devices
\* work.  The driver's QueueNotify is such an access.
BeginService ==
    /\ vPc = "off" /\ Serviceable(vT)
    /\ vPc' = "loop" /\ vErr' = "none"
    /\ gPc' = IF gPc = "kick" THEN "idle" ELSE gPc
    /\ UNCHANGED <<vT, vRing, vReq, vCur, vPending, vBurst, vHost, gFree, gSeen>>

\* A notification of a device that is not running is lost.
KickIgnored ==
    /\ vPc = "off" /\ ~Serviceable(vT) /\ gPc = "kick"
    /\ gPc' = "idle"
    /\ UNCHANGED <<vT, vRing, vReq, blkService, vHost, gFree, gSeen>>

\* The loop of VirtioBlk::service: the request that waited comes first.
BlkResume ==
    /\ vPc = "loop" /\ vPending # NoHead
    /\ vCur' = vPending /\ vPending' = NoHead /\ vPc' = "handle"
    /\ UNCHANGED <<vT, vRing, vErr, vBurst, vHost, blkDriver>>

\* pop reads the available index and the chain; an error leaves last_avail.
BlkPop ==
    /\ vPc = "loop" /\ vPending = NoHead
    /\ IF AvailError(blkQueue, vRing)
       THEN /\ vPc' = "end" /\ vErr' = "avail_idx"
            /\ UNCHANGED <<vT, vCur>>
       ELSE IF blkQueue.last = vRing.idx
       THEN /\ vPc' = "publish" /\ vCur' = NoHead
            /\ UNCHANGED <<vT, vErr>>
       ELSE LET h == NextHead(blkQueue, vRing)
            IN  IF vReq[h] = "chain"
                THEN /\ vPc' = "end" /\ vErr' = "chain"
                     /\ UNCHANGED <<vT, vCur>>
                ELSE /\ vT' = [vT EXCEPT !.queues[1] = Advance(@)]
                     /\ vPc' = "publish" /\ vCur' = h /\ vErr' = vErr
    /\ UNCHANGED <<vRing, vPending, vBurst, vHost, blkDriver>>

\* The other half of pop: the driver may have looked in between.
BlkPublish ==
    /\ vPc = "publish"
    /\ vRing' = PublishAvailEvent(blkQueue, vRing)
    /\ vPc' = IF vCur = NoHead THEN "end" ELSE "handle"
    /\ UNCHANGED <<vT, vCur, vErr, vPending, vBurst, vHost, blkDriver>>

\* Seeded fault: a request the backend is not ready for is dropped.
HandleDrops ==
    /\ vPc = "handle"
    /\ vCur' = NoHead
    /\ IF vReq[vCur] = "host" /\ vHost \in {"absent", "asked"}
       THEN /\ vHost' = "asked" /\ vPc' = "end"
            /\ UNCHANGED <<vT, vRing, vErr>>
       ELSE /\ vRing' = PushUsed(blkQueue, vRing, vCur)
            /\ vT' = [vT EXCEPT !.queues[1] = UsedPushed(@)]
            /\ vHost' = "absent"
            /\ vPc' = "loop"
            /\ UNCHANGED vErr
    /\ UNCHANGED <<vPending, vBurst, blkDriver>>

\* handle, then push_used or pending: a malformed request is an error of the
\* device and its chain is dropped; a block that is not there keeps the whole
\* request pending and ends the service.
Handle ==
    /\ vPc = "handle"
    /\ vCur' = NoHead
    /\ CASE vReq[vCur] = "short" ->
              /\ vPc' = "end" /\ vErr' = "malformed"
              /\ UNCHANGED <<vT, vRing, vPending, vHost>>
         [] vReq[vCur] = "host" /\ vHost \in {"absent", "asked"} ->
              /\ vPending' = vCur /\ vHost' = "asked" /\ vPc' = "end"
              /\ UNCHANGED <<vT, vRing, vErr>>
         [] OTHER ->
              /\ vRing' = PushUsed(blkQueue, vRing, vCur)
              /\ vT' = [vT EXCEPT !.queues[1] = UsedPushed(@)]
              /\ vHost' = IF vReq[vCur] = "host" THEN "absent" ELSE vHost
              /\ vPc' = "loop"
              /\ UNCHANGED <<vErr, vPending>>
    /\ UNCHANGED <<vBurst, blkDriver>>

\* The end of VirtioMmio::service.
FinishService ==
    /\ vPc = "end"
    /\ vT' = [EndService(vT, <<vRing>>, vErr) EXCEPT !.gen = 0]
    /\ vPc' = "off" /\ vErr' = "none" /\ vBurst' = 0
    /\ UNCHANGED <<vRing, vCur, vPending, vHost, blkDriver>>

\* The host delivers the block or declares it failed (fill and fail).
HostAnswers(answer) ==
    /\ vPc = "off" /\ vHost = "asked"
    /\ vHost' = answer
    /\ UNCHANGED <<vT, vRing, vReq, blkService, blkDriver>>

\* A snapshot taken here and restored in a new machine: RAM, transport, queue
\* and pending request are in it, the blocks the host had given are not.
BlkReload ==
    /\ vPc = "off" /\ vReloads < MaxReloads
    /\ vHost' = "absent" /\ vReloads' = vReloads + 1
    /\ UNCHANGED <<vT, vRing, vReq, blkService, blkDriver>>

BlkDevice == BeginService \/ KickIgnored \/ BlkResume \/ BlkPop \/ BlkPublish \/ Handle \/ FinishService
BlkDriver == DecideKick \/ TakeIrq \/ TakeUsed \/ Arm \/ Recheck
BlkHost == \E answer \in {"ready", "failed"} : HostAnswers(answer)

BlkNext ==
    \/ /\ \/ \E f \in {{"version_1"}, {"version_1", "event_idx"}} : BlkSetup(f)
          \/ DriverReset
          \/ \E h \in BlkHeads, k \in BlkKinds : Submit(h, k)
          \/ BlkDriver \/ BlkDevice \/ BlkHost
       /\ UNCHANGED vReloads
    \/ BlkReload

-----------------------------------------------------------------------------
BlkRunning == Serviceable(vT) /\ gPc # "down"

\* The heads between the two sides: published and not popped, and returned
\* and not yet taken by the driver.
OnAvail == {vRing.heads[Add(blkQueue.last, i) % QueueSize] : i \in 0..(Sub(vRing.idx, blkQueue.last) - 1)}
OnUsed == {vRing.used[Add(gSeen, i) % QueueSize] : i \in 0..(Sub(vRing.usedIdx, gSeen) - 1)}
InDevice == {vCur, vPending} \ {NoHead}

\* Each chain is in exactly one place: with the driver, published, in the device
\* or returned.  A pop, a retry or a snapshot neither loses nor duplicates one,
\* also across the wrap of the indices (pop, pending and push_used).
OneOwner ==
    BlkRunning /\ vErr = "none" =>
        /\ gFree \cup OnAvail \cup OnUsed \cup InDevice = BlkHeads
        /\ Cardinality(gFree) + Cardinality(OnAvail) + Cardinality(OnUsed)
               + Cardinality(InDevice) = QueueSize
        /\ vCur = NoHead \/ vPending = NoHead

\* While service is not running, a driver that waits has been told of every
\* chain returned to it: should_notify against used_event or NO_INTERRUPT.
NoLostInterrupt ==
    gPc = "idle" /\ vPc = "off" /\ "driver_ok" \in vT.status /\ gSeen # vRing.usedIdx
        => "vring" \in vT.int

\* While service is not running, a published chain is about to be announced by
\* the driver or waits behind the pending request: avail_event never lets the
\* driver stay silent about a chain pop has not seen.
NoLostKick ==
    BlkRunning /\ vPc = "off" /\ blkQueue.last # vRing.idx /\ vPending = NoHead
        => gPc \in {"kick?", "kick"}

\* Neither side sleeps on work the other left it, across the wrap of the
\* indices and with the events of both sides enabled or not.
NoLostNotification == NoLostInterrupt /\ NoLostKick

\* A request the driver submits comes back, or the device asks for a reset, or
\* the driver resets it, as long as the host answers for the blocks.
RequestsEnd ==
    \A h \in BlkHeads : (h \notin gFree) ~> (h \in gFree \/ "needs_reset" \in vT.status)
=============================================================================
