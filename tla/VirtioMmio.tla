----------------------------- MODULE VirtioMmio -----------------------------
(***************************************************************************)
(* The virtio-mmio transport of vetro-platform/src/virtio/mmio.rs: device  *)
(* status, feature negotiation, the configuration of the queues, interrupt *)
(* status and reset.  The operators on a transport record are shared by    *)
(* the device modules; MmioRegs lets a driver write the registers in any   *)
(* order.                                                                  *)
(***************************************************************************)
EXTENDS Virtqueue, FiniteSets

CONSTANT Offered       \* the features the transport and its device offer

Flags == {"acknowledge", "driver", "driver_ok", "features_ok"}

\* VirtioMmio::new over queues of the given sizes.
NewTransport(sizes) ==
    [status |-> {}, features |-> {}, int |-> {}, gen |-> 0, err |-> "none",
     queues |-> [i \in DOMAIN sizes |-> NewQueue(sizes[i])]]

\* reset: config_generation is the only register it leaves.
ResetTransport(t) ==
    [t EXCEPT !.status = {}, !.features = {}, !.int = {}, !.err = "none",
              !.queues = [i \in DOMAIN t.queues |-> NewQueue(t.queues[i].max)]]

\* signal_config_change.
ConfigChange(t) ==
    [t EXCEPT !.gen = @ + 1,
              !.int = IF "driver_ok" \in t.status THEN @ \cup {"config"} ELSE @]

\* fail: the driver has to reset the device.
Fail(t, e) ==
    ConfigChange([t EXCEPT !.err = e, !.status = @ \cup {"needs_reset"}])

\* write_status: zero resets, DEVICE_NEEDS_RESET stays, FEATURES_OK is kept
\* only if the features are acceptable (every device here accepts a subset).
WriteStatus(t, v) ==
    IF v = {} THEN ResetTransport(t)
    ELSE LET w == v \cup (t.status \cap {"needs_reset"})
             ok == "version_1" \in t.features /\ t.features \subseteq Offered
         IN  [t EXCEPT !.status =
                 IF "features_ok" \in w /\ "features_ok" \notin t.status /\ ~ok
                 THEN w \ {"features_ok"} ELSE w]

\* DriverFeatures: ignored once FEATURES_OK is set.
WriteFeatures(t, f) ==
    IF "features_ok" \in t.status THEN t ELSE [t EXCEPT !.features = f]

\* Seeded fault: the registers of a queue that is ready can be written.
ConfigureAnytime(t, i, size, aligned) ==
    [t EXCEPT !.queues[i].size = size, !.queues[i].aligned = aligned]

\* QueueNum and the addresses of the three areas: ignored once it is ready.
ConfigureQueue(t, i, size, aligned) ==
    IF t.queues[i].ready THEN t
    ELSE [t EXCEPT !.queues[i].size = size, !.queues[i].aligned = aligned]

\* QueueReady.
WriteReady(t, i, ready) ==
    [t EXCEPT !.queues[i] = SetReady(@, ready, t.features)]

\* InterruptACK.
AckInterrupt(t, v) == [t EXCEPT !.int = @ \ v]

\* service does nothing for a device that is not running.
Serviceable(t) == "driver_ok" \in t.status /\ "needs_reset" \notin t.status

\* The end of service: every queue is asked whether the driver is to be
\* interrupted, and only then the error of the device is reported.
EndService(t, rings, e) ==
    LET vring == \E i \in DOMAIN t.queues : ShouldNotify(t.queues[i], rings[i])
        u == [t EXCEPT !.int = IF vring THEN @ \cup {"vring"} ELSE @,
                       !.queues = [i \in DOMAIN t.queues |-> Signalled(t.queues[i])]]
    IN  IF e = "none" THEN u ELSE Fail(u, e)

\* The status a driver leaves when it has set the device up: ACKNOWLEDGE and
\* DRIVER, the features, FEATURES_OK, the queues, DRIVER_OK.
DriverSetup(t, f) ==
    LET a == WriteFeatures(WriteStatus(ResetTransport(t), {"acknowledge", "driver"}), f)
        b == WriteStatus(a, {"acknowledge", "driver", "features_ok"})
        c == [b EXCEPT !.queues = [i \in DOMAIN b.queues |-> SetReady(b.queues[i], TRUE, f)]]
    IN  WriteStatus(c, Flags)
=============================================================================
