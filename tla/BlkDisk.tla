------------------------------ MODULE BlkDisk ------------------------------
(***************************************************************************)
(* The disk behind virtio-blk in the browser: the transfer of a request    *)
(* (VirtioBlk::transfer), the copy-on-write clusters over a read-only base *)
(* (CowBackend, vetro-platform/src/virtio/blk.rs), and the base whose      *)
(* blocks JavaScript delivers on demand (HostDisk, vetro-wasm/src/disk.rs  *)
(* with DiskFeeder, web/node/disk.mjs).  A sector is the unit of contents. *)
(***************************************************************************)
EXTENDS Naturals, Sequences, FiniteSets

CONSTANTS Sectors,        \* capacity of the disk
          ClusterSectors, \* sectors of a cluster
          MaxBlocks,      \* blocks HostDisk keeps (one sector each), 0 = no limit
          Requests,       \* requests a driver may make: [out, first, count]
          MaxWrites,      \* OUT requests in a behaviour
          MaxAhead        \* blocks delivered without being asked for

VARIABLES
    kClusters,   \* CowBackend::clusters: cluster -> contents, or NoBytes
    kCache, kOrder, kRequested, kWanted, kFailed,   \* HostDisk
    kTaken,      \* blocks DiskFeeder has taken from the list and is fetching
    kReq,        \* the request being retried, or NoReq
    kGot,        \* what the last IN returned: sector -> value
    kWrites, kAhead,
    aDisk        \* the abstract disk: sector -> the values it may hold

diskVars == <<kClusters, kCache, kOrder, kRequested, kWanted, kFailed, kTaken,
              kReq, kGot, kWrites, kAhead, aDisk>>

SectorSet == 0..(Sectors - 1)
Zero == 0        \* the contents of a fresh allocation
Base == 1        \* the contents of the base image
NoBytes == <<>>
NoReq == [out |-> FALSE, first |-> 0, count |-> 0, value |-> 0]
ClusterOf(s) == s \div ClusterSectors
SectorsOf(c) == {s \in SectorSet : ClusterOf(s) = c}
ClusterSet == {ClusterOf(s) : s \in SectorSet}
Span(r) == r.first..(r.first + r.count - 1)

DiskInit ==
    /\ kClusters = [c \in ClusterSet |-> NoBytes]
    /\ kCache = {} /\ kOrder = <<>>
    /\ kRequested = {} /\ kWanted = {} /\ kFailed = {} /\ kTaken = {}
    /\ kReq = NoReq /\ kGot = <<>> /\ kWrites = 0 /\ kAhead = 0
    /\ aDisk = [s \in SectorSet |-> {Base}]

-----------------------------------------------------------------------------
(* A transfer in progress is a record of the disk's state and its result:  *)
(* res is "ok", "not_ready" or "io"; a piece is done only while it is ok.  *)

\* HostDisk::read_sectors on the blocks of a piece: a failed one ends it at
\* once, otherwise every missing one is asked for.
ReadBase(x, blocks) ==
    LET lowest == {b \in blocks \cap kFailed : \A d \in blocks \cap kFailed : b <= d}
        before == {b \in blocks : \A f \in lowest : b < f}
        missing == before \ kCache
    IN  [x EXCEPT !.requested = @ \cup missing,
                  !.wanted = @ \cup (missing \ x.requested),
                  !.res = IF lowest # {} THEN "io"
                          ELSE IF missing # {} THEN "not_ready" ELSE @]

\* One piece of CowBackend::read_sectors.
ReadPiece(x, c, sectors) ==
    IF x.clusters[c] # NoBytes
    THEN [x EXCEPT !.got = [s \in DOMAIN @ \cup sectors |->
                               IF s \in sectors THEN x.clusters[c][s] ELSE @[s]]]
    ELSE LET y == ReadBase(x, sectors)
         IN  IF y.res # "ok" THEN y
             ELSE [y EXCEPT !.got = [s \in DOMAIN @ \cup sectors |->
                                        IF s \in sectors THEN Base ELSE @[s]]]

\* Seeded fault: the rest of a cluster written in part is not read.
WritePieceBlind(x, c, sectors, value) ==
    LET old == IF x.clusters[c] = NoBytes THEN [s \in SectorsOf(c) |-> Zero] ELSE x.clusters[c]
    IN  [x EXCEPT !.clusters[c] = [s \in DOMAIN old |-> IF s \in sectors THEN value ELSE old[s]]]

\* One piece of CowBackend::write_sectors: the first write of a cluster copies
\* the base, unless it covers the whole cluster.
WritePiece(x, c, sectors, value) ==
    LET fresh == x.clusters[c] = NoBytes
        partly == sectors # SectorsOf(c)
        y == IF fresh /\ partly THEN ReadBase(x, SectorsOf(c)) ELSE x
        old == IF ~fresh THEN x.clusters[c]
               ELSE [s \in SectorsOf(c) |-> IF partly THEN Base ELSE Zero]
    IN  IF y.res # "ok" THEN y
        ELSE [y EXCEPT !.clusters[c] =
                 [s \in DOMAIN old |-> IF s \in sectors THEN value ELSE old[s]]]

\* transfer: the pieces in order, stopping at the first that is not done.
Transfer(r) ==
    LET start == [clusters |-> kClusters, requested |-> kRequested, wanted |-> kWanted,
                  res |-> "ok", got |-> <<>>]
        lo == ClusterOf(r.first)
        hi == ClusterOf(r.first + r.count - 1)
        piece(x, c) ==
            LET sectors == Span(r) \cap SectorsOf(c)
            IN  IF x.res # "ok" THEN x
                ELSE IF r.out THEN WritePiece(x, c, sectors, r.value)
                ELSE ReadPiece(x, c, sectors)
        upto[c \in lo..hi] == piece(IF c = lo THEN start ELSE upto[c - 1], c)
    IN  IF r.first + r.count > Sectors THEN [start EXCEPT !.res = "io"] ELSE upto[hi]

-----------------------------------------------------------------------------
\* A request is taken from the queue.  From now on an OUT may have happened.
Ask(q) ==
    /\ kReq = NoReq
    /\ q.out => kWrites < MaxWrites
    /\ kWrites' = IF q.out THEN kWrites + 1 ELSE kWrites
    /\ kReq' = [out |-> q.out, first |-> q.first, count |-> q.count,
                value |-> IF q.out THEN Base + kWrites + 1 ELSE Base]
    /\ kGot' = <<>>
    /\ aDisk' = [s \in SectorSet |->
                    IF q.out /\ s \in Span(q) THEN aDisk[s] \cup {Base + kWrites + 1}
                    ELSE aDisk[s]]
    /\ UNCHANGED <<kClusters, kCache, kOrder, kRequested, kWanted, kFailed, kTaken, kAhead>>

\* Each service tries the request again from its first piece.
Attempt ==
    /\ kReq # NoReq
    /\ LET x == Transfer(kReq)
       IN  /\ kClusters' = x.clusters
           /\ kRequested' = x.requested /\ kWanted' = x.wanted
           /\ kReq' = IF x.res = "not_ready" THEN kReq ELSE NoReq
           /\ kGot' = IF x.res = "ok" /\ ~kReq.out THEN x.got ELSE <<>>
           /\ aDisk' = IF x.res = "ok" /\ kReq.out
                       THEN [s \in SectorSet |-> IF s \in Span(kReq) THEN {kReq.value}
                                                 ELSE aDisk[s]]
                       ELSE aDisk
    /\ UNCHANGED <<kCache, kOrder, kFailed, kTaken, kWrites, kAhead>>

\* VirtioBlk::reset drops the request: what it did so far stays.
DropRequest ==
    /\ kReq # NoReq
    /\ kReq' = NoReq
    /\ UNCHANGED <<kClusters, kCache, kOrder, kRequested, kWanted, kFailed, kTaken, kGot,
                   kWrites, kAhead, aDisk>>

\* vetro_disk_wanted gives as many blocks as fit; the rest are put back.
TakeWanted(blocks) ==
    /\ blocks # {} /\ blocks \subseteq kWanted
    /\ kTaken' = kTaken \cup blocks
    /\ kWanted' = kWanted \ blocks
    /\ UNCHANGED <<kClusters, kCache, kOrder, kRequested, kFailed, kReq, kGot, kWrites,
                   kAhead, aDisk>>

\* Seeded fault: the block is not taken off the set of requested ones.
FillForgets(b) ==
    /\ kFailed' = kFailed \ {b}
    /\ LET order == IF b \in kCache THEN kOrder ELSE Append(kOrder, b)
           over == IF MaxBlocks > 0 /\ Len(order) > MaxBlocks THEN 1 ELSE 0
       IN  /\ kOrder' = SubSeq(order, over + 1, Len(order))
           /\ kCache' = {kOrder'[i] : i \in DOMAIN kOrder'}
    /\ UNCHANGED <<kRequested, kClusters, kWanted, kReq, kGot, kWrites, aDisk>>

\* HostDisk::fill: the block is kept, and the oldest ones go.
Fill(b) ==
    /\ kRequested' = kRequested \ {b}
    /\ kFailed' = kFailed \ {b}
    /\ LET order == IF b \in kCache THEN kOrder ELSE Append(kOrder, b)
           over == IF MaxBlocks > 0 /\ Len(order) > MaxBlocks THEN 1 ELSE 0
       IN  /\ kOrder' = SubSeq(order, over + 1, Len(order))
           /\ kCache' = {kOrder'[i] : i \in DOMAIN kOrder'}
    /\ UNCHANGED <<kClusters, kWanted, kReq, kGot, kWrites, aDisk>>

\* A block that was asked for arrives.
Deliver(b) ==
    /\ b \in kTaken
    /\ Fill(b)
    /\ kTaken' = kTaken \ {b}
    /\ kAhead' = kAhead

\* Read-ahead and prefetch deliver a block nobody asked for.
ReadAhead(b) ==
    /\ kAhead < MaxAhead
    /\ Fill(b)
    /\ kAhead' = kAhead + 1
    /\ kTaken' = kTaken

\* HostDisk::fail.
FailBlock(b) ==
    /\ b \in kTaken
    /\ kTaken' = kTaken \ {b}
    /\ kRequested' = kRequested \ {b}
    /\ kFailed' = kFailed \cup {b}
    /\ UNCHANGED <<kClusters, kCache, kOrder, kWanted, kReq, kGot, kWrites, kAhead, aDisk>>

Feeder == \/ \E blocks \in SUBSET SectorSet : TakeWanted(blocks)
          \/ \E b \in SectorSet : Deliver(b)

DiskNext ==
    \/ \E q \in Requests : Ask(q)
    \/ Attempt
    \/ DropRequest
    \/ Feeder
    \/ \E b \in SectorSet : ReadAhead(b) \/ FailBlock(b)

-----------------------------------------------------------------------------
\* What the disk holds.
Contents(s) ==
    IF kClusters[ClusterOf(s)] # NoBytes THEN kClusters[ClusterOf(s)][s] ELSE Base

\* Every sector holds the last value written to it, or, after a write that was
\* cut short by an error or a reset, the old or the new one; a write touches no
\* other sector, however often it was retried (write_sectors and its retries).
DiskHoldsWrites == \A s \in SectorSet : Contents(s) \in aDisk[s]

\* A read that completes returned what the disk may hold.
ReadsSeeWrites == \A s \in DOMAIN kGot : kGot[s] \in aDisk[s]

\* The disk is what was written to it, at rest and in what a read returns.
DiskConsistent == DiskHoldsWrites /\ ReadsSeeWrites

\* A request that waits for blocks completes once the host delivers them.
DiskRequestEnds == (kReq # NoReq) ~> (kReq = NoReq)
=============================================================================
