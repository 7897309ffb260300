------------------------------ MODULE MmioRegs ------------------------------
(***************************************************************************)
(* A driver that writes the registers of one virtio-mmio transport in any  *)
(* order, while the device fails or changes its configuration.             *)
(***************************************************************************)
EXTENDS VirtioMmio

CONSTANT MaxConfigGen        \* bound on config_generation

VARIABLE xT            \* the transport of one device with one queue

MmioInit == xT = NewTransport(<<2>>)

MmioStatus(v) == xT' = WriteStatus(xT, v)
MmioFeatures(f) == xT' = WriteFeatures(xT, f)
MmioQueue(size, aligned) == xT' = ConfigureQueue(xT, 1, size, aligned)
MmioReady(ready) == xT' = WriteReady(xT, 1, ready)
MmioAck(v) == xT' = AckInterrupt(xT, v)
\* The device fails or its configuration changes while it is being serviced.
MmioError == /\ Serviceable(xT)
             /\ xT.gen < MaxConfigGen
             /\ xT' = Fail(xT, "malformed")
MmioChange == xT.gen < MaxConfigGen /\ xT' = ConfigChange(xT)

MmioNext ==
    \/ \E v \in SUBSET Flags : MmioStatus(v)
    \/ \E f \in SUBSET (Offered \cup {"not_offered"}) : MmioFeatures(f)
    \/ \E size \in {0, 2, 3, 4}, aligned \in BOOLEAN : MmioQueue(size, aligned)
    \/ \E ready \in BOOLEAN : MmioReady(ready)
    \/ \E v \in SUBSET {"vring", "config"} : MmioAck(v)
    \/ MmioError
    \/ MmioChange

\* While FEATURES_OK is set the features are an acceptable choice: they were
\* when write_status accepted them, and write_reg has not let them change.
FeaturesAccepted ==
    "features_ok" \in xT.status =>
        "version_1" \in xT.features /\ xT.features \subseteq Offered

\* A queue that is ready has a configuration QueueReady accepts: the registers
\* that were checked then are the ones the device uses now.
ReadyIsValid ==
    xT.queues[1].ready => xT.queues[1].size \in {1, 2} /\ xT.queues[1].aligned

\* The registers in use are the ones that were checked, whatever the driver
\* wrote in between: features and queues alike.
RegsConsistent == FeaturesAccepted /\ ReadyIsValid
=============================================================================
