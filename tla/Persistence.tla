---------------------------- MODULE Persistence ----------------------------
(***************************************************************************)
(* What survives the end of a session: the overlay file with the clusters  *)
(* the guest wrote (vetro-snapshot/src/overlay.rs, written by FileOverlay  *)
(* in vetro-cli/src/disk.rs and by DiskOverlay in web/node/persist.mjs),   *)
(* the snapshot cache (SnapshotStore) and the rule that ties them: a       *)
(* snapshot is used only with the overlay at the generation it was saved   *)
(* with (staleReason).  The session may end at any instant; of the writes  *)
(* not yet flushed each may be missing, complete or half done.             *)
(***************************************************************************)
EXTENDS Naturals, FiniteSets

CONSTANTS Clusters,     \* indices of the disk's clusters, a set of naturals
          Data,         \* contents of a cluster
          NoData,       \* a cluster never written: the base's
          MaxGen        \* bound on the overlay's generation

VARIABLES
    mUp,       \* a session is running
    mCow,      \* CowBackend::clusters of the running machine
    mDirty,    \* CowBackend::dirty
    mFull,     \* full_sync: compare all the clusters at the next persist
    mNew,      \* nothing has been written since the session began
    oIdx,      \* Overlay: generation, slots, map, free, fresh
    oPc,       \* the persist in progress: "idle", "data" or "header"
    oFlight,   \* writes not yet flushed: slot -> its new bytes
    fHeader,   \* the file's header, or NoHeader
    fSlots,    \* the file's slots
    sPc,       \* where the save in progress is
    sNew,      \* the snapshot it is writing (`key.new`)
    sJson, sSnap,  \* `key.json` and `key.snap`, or None
    aOk        \* cluster -> what a new session may find in it

persistVars == <<mUp, mCow, mDirty, mFull, mNew, oIdx, oPc, oFlight, fHeader, fSlots,
                 sPc, sNew, sJson, sSnap, aOk>>
fileVars == <<oIdx, oPc, oFlight, fHeader, fSlots>>
storeVars == <<sPc, sNew, sJson, sSnap>>

Slots == 0..(Cardinality(Clusters) - 1)
NoHeader == [gen |-> 0, slots |-> 0]
NoSlot == Cardinality(Clusters)
None == [gen |-> 0, cow |-> [c \in Clusters |-> NoData]]
\* The bytes of a slot: a cluster and its contents, free, or not readable.
Slot(c, d) == [kind |-> "used", cluster |-> c, data |-> d]
FreeSlot == [kind |-> "free"]
TornSlot == [kind |-> "torn"]
Lowest(S) == CHOOSE x \in S : \A y \in S : x <= y

\* Overlay::new.
NewOverlay ==
    [gen |-> 0, slots |-> 0, map |-> [c \in Clusters |-> NoSlot],
     data |-> [c \in Clusters |-> NoData], free |-> {}, fresh |-> TRUE]

\* Overlay::load: a slot within the count and with the right check is a
\* cluster, the first one if there are two; every other slot is free.
Load(header, slots) ==
    IF header = NoHeader THEN NewOverlay
    ELSE LET count == 0..(header.slots - 1)
             at(c) == {k \in count : slots[k].kind = "used" /\ slots[k].cluster = c}
         IN  [gen |-> header.gen, slots |-> header.slots, fresh |-> FALSE,
              map |-> [c \in Clusters |-> IF at(c) = {} THEN NoSlot ELSE Lowest(at(c))],
              data |-> [c \in Clusters |-> IF at(c) = {} THEN NoData
                                           ELSE slots[Lowest(at(c))].data],
              free |-> {k \in count : \A c \in Clusters : at(c) = {} \/ k # Lowest(at(c))}]

-----------------------------------------------------------------------------
\* One change of Overlay::update, on the index and the writes to perform.
WriteCluster(u, c, d) ==
    IF u.idx.map[c] # NoSlot /\ u.idx.data[c] = d THEN u
    ELSE LET reuse == u.idx.map[c] = NoSlot /\ u.idx.free # {}
             k == IF u.idx.map[c] # NoSlot THEN u.idx.map[c]
                  ELSE IF reuse THEN Lowest(u.idx.free) ELSE u.idx.slots
         IN  [idx |-> [u.idx EXCEPT !.map[c] = k, !.data[c] = d,
                                    !.free = IF reuse THEN @ \ {k} ELSE @,
                                    !.slots = IF k = @ THEN @ + 1 ELSE @],
              writes |-> [j \in DOMAIN u.writes \cup {k} |->
                             IF j = k THEN Slot(c, d) ELSE u.writes[j]]]

RemoveCluster(u, c) ==
    IF u.idx.map[c] = NoSlot THEN u
    ELSE LET k == u.idx.map[c]
         IN  [idx |-> [u.idx EXCEPT !.map[c] = NoSlot, !.data[c] = NoData,
                                    !.free = @ \cup {k}],
              writes |-> [j \in DOMAIN u.writes \cup {k} |->
                             IF j = k THEN FreeSlot ELSE u.writes[j]]]

\* update with the dirty clusters, or sync with all of them (the written ones
\* first, then those to remove), each in the order of the clusters.
Update(full) ==
    LET n == Cardinality(Clusters)
        nth == [i \in 1..n |-> CHOOSE c \in Clusters : Cardinality({d \in Clusters : d < c}) = i - 1]
        put[i \in 0..n] ==
            IF i = 0 THEN [idx |-> oIdx, writes |-> <<>>]
            ELSE IF mCow[nth[i]] # NoData /\ (full \/ nth[i] \in mDirty)
            THEN WriteCluster(put[i - 1], nth[i], mCow[nth[i]]) ELSE put[i - 1]
        cut[i \in 0..n] ==
            IF i = 0 THEN put[n]
            ELSE IF full /\ mCow[nth[i]] = NoData
            THEN RemoveCluster(cut[i - 1], nth[i]) ELSE cut[i - 1]
    IN  cut[n]

\* There is something to write.
Changed(u) == DOMAIN u.writes # {} \/ oIdx.fresh

-----------------------------------------------------------------------------
PersistInit ==
    /\ mUp = TRUE /\ mCow = [c \in Clusters |-> NoData] /\ mDirty = {} /\ mFull = FALSE
    /\ mNew = TRUE
    /\ oIdx = NewOverlay /\ oPc = "idle" /\ oFlight = <<>>
    /\ fHeader = NoHeader /\ fSlots = [k \in Slots |-> TornSlot]
    /\ sPc = "none" /\ sNew = None /\ sJson = None /\ sSnap = None
    /\ aOk = [c \in Clusters |-> {NoData}]

\* The guest writes a cluster (between two persists: both run on one thread).
GuestWrites(c, d) ==
    /\ mUp /\ oPc = "idle"
    /\ mCow' = [mCow EXCEPT ![c] = d]
    /\ mDirty' = mDirty \cup {c}
    /\ mNew' = FALSE
    /\ UNCHANGED <<mUp, mFull, fileVars, storeVars, aOk>>

\* persist: take_dirty, update or sync, truncation of a file made anew, and the
\* data writes.  The index and the dirty set change whether or not they succeed.
Persist ==
    /\ mUp /\ oPc = "idle" /\ oIdx.gen < MaxGen
    /\ LET u == Update(mFull)
       IN  /\ Changed(u)
           /\ oIdx' = [u.idx EXCEPT !.gen = @ + 1, !.fresh = FALSE]
           /\ oFlight' = u.writes
           /\ fSlots' = IF oIdx.fresh THEN [k \in Slots |-> TornSlot] ELSE fSlots
           /\ fHeader' = IF oIdx.fresh THEN NoHeader ELSE fHeader
           /\ aOk' = [c \in Clusters |->
                         IF u.idx.data[c] # oIdx.data[c] THEN aOk[c] \cup {mCow[c], NoData}
                         ELSE aOk[c] \cup {mCow[c]}]
    /\ oPc' = "data"
    /\ mDirty' = {} /\ mFull' = FALSE
    /\ UNCHANGED <<mUp, mCow, mNew, storeVars>>

\* The first flush, after which the header is written.
FlushData ==
    /\ mUp /\ oPc = "data"
    /\ fSlots' = [k \in Slots |-> IF k \in DOMAIN oFlight THEN oFlight[k] ELSE fSlots[k]]
    /\ oFlight' = <<>>
    /\ oPc' = "header"
    /\ UNCHANGED <<mUp, mCow, mDirty, mFull, mNew, oIdx, fHeader, storeVars, aOk>>

\* The second flush: persist returns.
FlushHeader ==
    /\ mUp /\ oPc = "header"
    /\ fHeader' = [gen |-> oIdx.gen, slots |-> oIdx.slots]
    /\ oPc' = "idle"
    /\ aOk' = [c \in Clusters |-> {mCow[c]}]
    /\ UNCHANGED <<mUp, mCow, mDirty, mFull, mNew, oIdx, oFlight, fSlots, storeVars>>

-----------------------------------------------------------------------------
\* saveSnapshot: the overlays have just been persisted; the snapshot holds the
\* clusters, its metadata the generation.  The machine goes on meanwhile.
SaveBegins ==
    /\ mUp /\ oPc = "idle" /\ sPc = "none"
    /\ ~Changed(Update(mFull))
    /\ sNew' = [gen |-> oIdx.gen, cow |-> mCow]
    /\ sPc' = "write"
    /\ mDirty' = {} /\ mFull' = FALSE
    /\ UNCHANGED <<mUp, mCow, mNew, fileVars, sJson, sSnap, aOk>>

\* abort, or an error before finish: the file of the attempt is dropped.
SaveAborts ==
    /\ mUp /\ sPc = "write"
    /\ sPc' = "none" /\ sNew' = None
    /\ UNCHANGED <<mUp, mCow, mDirty, mFull, mNew, fileVars, sJson, sSnap, aOk>>

\* Seeded fault: the old metadata stays until the new one replaces it.
SaveStepKeepsJson ==
    /\ mUp /\ sPc \notin {"none"}
    /\ CASE sPc = "write" -> sPc' = "move" /\ UNCHANGED <<sNew, sJson, sSnap>>
         [] sPc = "move" -> sPc' = "json" /\ sSnap' = sNew /\ UNCHANGED <<sNew, sJson>>
         [] OTHER -> sPc' = "none" /\ sJson' = sNew /\ sNew' = None /\ UNCHANGED sSnap
    /\ UNCHANGED <<mUp, mCow, mDirty, mFull, mNew, fileVars, aOk>>

\* finish: remove the metadata, remove the old snapshot, move the new one to
\* its place, write the metadata.
SaveStep ==
    /\ mUp /\ sPc # "none"
    /\ CASE sPc = "write" -> sPc' = "snap" /\ sJson' = None /\ UNCHANGED <<sNew, sSnap>>
         [] sPc = "snap" -> sPc' = "move" /\ sSnap' = None /\ UNCHANGED <<sNew, sJson>>
         [] sPc = "move" -> sPc' = "json" /\ sSnap' = sNew /\ UNCHANGED <<sNew, sJson>>
         [] sPc = "json" -> sPc' = "none" /\ sJson' = sNew /\ sNew' = None /\ UNCHANGED sSnap
    /\ UNCHANGED <<mUp, mCow, mDirty, mFull, mNew, fileVars, aOk>>

-----------------------------------------------------------------------------
\* The page is closed or the process dies.
Crash ==
    /\ mUp
    /\ mUp' = FALSE
    /\ \E done, torn \in SUBSET DOMAIN oFlight :
          /\ done \cap torn = {}
          /\ fSlots' = [k \in Slots |-> IF k \in done THEN oFlight[k]
                                        ELSE IF k \in torn THEN TornSlot ELSE fSlots[k]]
    /\ \/ fHeader' = fHeader
       \/ oPc = "header" /\ fHeader' = [gen |-> oIdx.gen, slots |-> oIdx.slots]
    /\ oPc' = "idle" /\ oFlight' = <<>> /\ oIdx' = NewOverlay
    /\ sPc' = "none" /\ sNew' = None
    /\ mCow' = None.cow /\ mDirty' = {} /\ mFull' = FALSE /\ mNew' = TRUE
    /\ UNCHANGED <<sJson, sSnap, aOk>>

\* load of the store: the metadata is there and the snapshot has its size.
Stored == sJson # None /\ sSnap # None

\* Seeded fault: the generation is not compared.
StaleNever(idx) == FALSE

\* staleReason.
Stale(idx) == sJson.gen # idx.gen

\* A session begins: the overlay's clusters go into the disk; a snapshot that
\* is not stale replaces them, and the next persist compares everything.
Start ==
    /\ ~mUp
    /\ mUp' = TRUE
    /\ oIdx' = Load(fHeader, fSlots)
    /\ LET restore == Stored /\ ~Stale(oIdx')
       IN  /\ mCow' = IF restore THEN sSnap.cow ELSE oIdx'.data
           /\ mFull' = restore
    /\ mDirty' = {} /\ mNew' = TRUE
    /\ UNCHANGED <<oPc, oFlight, fHeader, fSlots, storeVars, aOk>>

PersistNext ==
    \/ \E c \in Clusters, d \in Data : GuestWrites(c, d)
    \/ Persist \/ FlushData \/ FlushHeader
    \/ SaveBegins \/ SaveAborts \/ SaveStep
    \/ Crash \/ Start

-----------------------------------------------------------------------------
\* A session begins with every write of a persist that returned: a cluster
\* differs from it only if a later persist was cut short, and then it has its
\* new contents, its old ones, or (half written) the base's.  Restoring a
\* snapshot never takes a persisted write back.
WritesNeverLost == mUp /\ mNew => \A c \in Clusters : mCow[c] \in aOk[c]

\* The index in memory is the one a new session would read from the file:
\* slots are reused, freed and counted the same way by update and by load.
IndexMatchesFile ==
    mUp /\ oPc = "idle" /\ ~oIdx.fresh =>
        LET l == Load(fHeader, fSlots)
        IN  l.gen = oIdx.gen /\ l.map = oIdx.map /\ l.data = oIdx.data /\ l.free = oIdx.free

\* What the store would give back is a snapshot with its own metadata: the
\* clusters are the ones of the generation the metadata names.
MetaMatchesSnap == Stored => sJson = sSnap

\* The files agree with each other and with the index, at every instant.
StoreConsistent == IndexMatchesFile /\ MetaMatchesSnap
=============================================================================
