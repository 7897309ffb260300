----------------------------- MODULE CodeCache -----------------------------
(***************************************************************************)
(* The compiled regions of one JIT (vetro-jit sys.rs: Cache, install,      *)
(* compile_pending, evict, reset, drain) over the browser's engine         *)
(* (web/node/jit-engine.mjs).  Regions wait to be compiled together; their *)
(* module takes a chunk of the function table; a Worker may compile it in  *)
(* the background; when the table or the engine is full, modules go and    *)
(* their chunks are used again.  The fetch translation is one page, which  *)
(* TLBIs change: JumpCache has the context numbers, CodeWatch the races of *)
(* a translation with the writes of other cores.                           *)
(***************************************************************************)
EXTENDS Integers, FiniteSets, Sequences, TLC

LOCAL INSTANCE SequencesExt
LOCAL INSTANCE FiniteSetsExt

CONSTANTS
    CcKeys,     \* the addresses regions start at, in one virtual page
    CcInner,    \* the other entries a region has, by its start
    CcPages,    \* physical pages
    CcWritten,  \* those the guest writes
    CcCodes,    \* what an address may hold; 0 is not translated
    CcConfigs,  \* SysJitConfig::batch, and the modules the engine's budget holds
    CcTable,    \* TABLE_SIZE
    CcRoom,     \* the dispatcher does not count
    CcNone      \* None

VARIABLE cc

CcSlots == 0 .. CcTable - 1
ChunkOf(c, s) == s \div c.batch
CcMods == 1 .. CcTable + 1

\* Variant::block of an instruction that is not translated.
One == [mod |-> 0, slot |-> 0]
IsBlock(v) == v \notin {CcNone, One}

NoBlocks == [k \in CcKeys |-> [p \in CcPages |-> CcNone]]
NoWords == [k \in CcKeys |-> CcNone]
EmptyTable == [s \in CcSlots |-> CcNone]

CcInit ==
    \E p \in CcPages, cfg \in CcConfigs :
    cc = [batch |-> cfg.batch, budget |-> cfg.budget,
          ram |-> [q \in CcPages |-> [k \in CcKeys |-> 1]], at |-> p,
          watched |-> {}, dirty |-> {}, in |-> FALSE,
          blocks |-> NoBlocks, hot |-> NoWords, used |-> {}, pages |-> {},
          compiled |-> {}, pending |-> <<>>, hits |-> 0,
          next |-> 0, free |-> {}, modules |-> <<>>, retired |-> {},
          marked |-> {}, ready |-> {}, compiling |-> {},
          live |-> {}, worker |-> <<>>, table |-> EmptyTable, disp |-> FALSE,
          jump |-> NoWords]

-----------------------------------------------------------------------------
(* The engine *)

\* The modules something refers to (strong_count > 0).
Refs(c) ==
    UNION {{v.mod : v \in {c.blocks[k][p] : p \in CcPages} \ {CcNone, One}} : k \in CcKeys}
    \cup {e.mod : e \in c.compiled} \cup c.compiling

\* JsModule::drop, at the last reference: the module's table entries are
\* cleared; one still in the Worker is not there yet.
Dropped(c) ==
    LET gone == {m \in c.live : m.mod \notin Refs(c)}
        chunks == {m.chunk : m \in {x \in gone : x.mod \notin DOMAIN c.worker}}
    IN  [c EXCEPT !.live = @ \ gone,
                  !.worker = [m \in DOMAIN @ \cap Refs(c) |-> @[m]],
                  !.ready = @ \cap Refs(c),
                  !.marked = @ \cap Refs(c),
                  !.table = [s \in CcSlots |-> IF ChunkOf(c, s) \in chunks THEN CcNone ELSE @[s]]]

\* JitEngine.compile refuses beyond the budget, never its first module.
Takes(c) ==
    LET n == Cardinality(c.live) + (IF c.disp /\ ~CcRoom THEN 1 ELSE 0)
    IN  n = 0 \/ n < c.budget

\* new_epoch: no jump cache entry is valid.
Epoch(c) == [c EXCEPT !.jump = NoWords]

\* Seeded fault: the jump cache keeps its entries.
KeepJumps(c) == c

\* refresh_marks.
RefreshMarks(c) == Epoch(c)

\* reset.  The waiting blocks count again in the pages.
Reset(c) ==
    [c EXCEPT !.blocks = NoBlocks, !.hot = NoWords, !.used = {}, !.compiled = {},
              !.pages = {<<p.page, p.key>> : p \in ToSet(c.pending)},
              !.next = 0, !.free = {}, !.modules = <<>>, !.retired = {},
              !.marked = {}, !.ready = {}, !.compiling = {},
              !.live = {}, !.worker = <<>>, !.table = EmptyTable, !.disp = FALSE,
              !.jump = NoWords]

-----------------------------------------------------------------------------
(* Chunks of the table *)

\* The evicted modules nothing refers to any more.
Unreferenced(c) == {r \in c.retired : r.mod \notin Refs(c)}

\* alloc_chunk: which of the free chunks is immaterial.
Alloc(c) ==
    LET back == IF c.free = {} THEN Unreferenced(c) ELSE {}
        free == c.free \cup {r.chunk : r \in back}
        d == [c EXCEPT !.retired = @ \ back]
    IN  IF free # {} THEN [c |-> [d EXCEPT !.free = free \ {Min(free)}], chunk |-> Min(free)]
        ELSE IF (c.next + 1) * c.batch <= CcTable
        THEN [c |-> [d EXCEPT !.next = @ + 1], chunk |-> c.next]
        ELSE [c |-> d, chunk |-> CcNone]

\* evict: the modules not entered since the last eviction or, if all were,
\* the older half.
Evict(c) ==
    LET alive == SelectSeq(c.modules, LAMBDA m : m.mod \in Refs(c))
        freed == {m.chunk : m \in ToSet(c.modules) \ ToSet(alive)}
        marked == c.marked \cup
            {v.mod : v \in {x \in {c.blocks[k][p] : k \in c.used, p \in CcPages} : IsBlock(x)}}
        unused == {m \in ToSet(alive) : m.mod \notin marked}
        dead == IF unused # {} THEN unused
                ELSE {alive[i] : i \in 1 .. (Len(alive) + 1) \div 2}
        mods == {m.mod : m \in dead}
        blocks == [k \in CcKeys |-> [p \in CcPages |->
            LET v == c.blocks[k][p] IN IF IsBlock(v) /\ v.mod \in mods THEN CcNone ELSE v]]
    IN  IF alive = <<>>
        THEN [ok |-> FALSE, c |-> [c EXCEPT !.free = @ \cup freed, !.modules = <<>>]]
        ELSE [ok |-> TRUE, c |-> Dropped(RefreshMarks(
            [c EXCEPT !.free = @ \cup freed, !.used = {}, !.marked = {},
                      !.modules = SelectSeq(alive, LAMBDA m : m \notin dead),
                      !.retired = @ \cup dead,
                      !.blocks = blocks, !.hot = NoWords,
                      !.pages = {x \in CcPages \X CcKeys : blocks[x[2]][x[1]] # CcNone}
                                \cup {<<p.page, p.key>> : p \in ToSet(c.pending)},
                      !.compiled = {e \in @ : e.mod \notin mods},
                      !.compiling = @ \ mods]))]

-----------------------------------------------------------------------------
(* Blocks *)

\* discover: the words of the region of k, its entries their domain.
Words(c, k) ==
    LET page == c.ram[c.at]
    IN  [j \in {i \in {k} \cup CcInner[k] : page[i] # 0} |-> page[j]]

\* Seeded fault: it is hot before its module is ready.
RecordHot(c, k, p, v) ==
    [c EXCEPT !.blocks[k][p] = v,
              !.hot[k] = IF IsBlock(v) THEN [page |-> p, slot |-> v.slot] ELSE CcNone,
              !.pages = @ \cup {<<p, k>>}]

\* Cache::record.
Record(c, k, p, v) ==
    [c EXCEPT !.blocks[k][p] = v,
              !.hot[k] = IF IsBlock(v) /\ v.mod \in c.ready
                         THEN [page |-> p, slot |-> v.slot] ELSE CcNone,
              !.pages = @ \cup {<<p, k>>}]

\* Cache::record_entries: the start, and the entries with no block yet.
RecordEntries(c, k, p, words, v) ==
    FoldSet(LAMBDA j, d : IF j # k /\ IsBlock(d.blocks[j][p]) THEN d ELSE Record(d, j, p, v),
            c, DOMAIN words)

\* drain: the blocks of the written pages go, the waiting ones too.
CcDrain(c) ==
    LET hit == {k \in CcKeys : \E p \in c.dirty : <<p, k>> \in c.pages}
        d == [c EXCEPT !.pending = SelectSeq(@, LAMBDA w : w.page \notin c.dirty),
                       !.blocks = [k \in CcKeys |-> [p \in CcPages |->
                           IF p \in c.dirty /\ <<p, k>> \in c.pages THEN CcNone ELSE @[k][p]]],
                       !.hot = [k \in CcKeys |-> IF k \in hit THEN CcNone ELSE @[k]],
                       !.pages = {x \in @ : x[1] \notin c.dirty},
                       !.dirty = {}]
    IN  Dropped(IF hit # {} THEN Epoch(d) ELSE d)

\* compile_pending's chunk for one more module, after an eviction e if the first
\* attempt a found none ...
ChunkAfter(a, e) ==
    IF a.chunk # CcNone THEN a ELSE IF e.ok THEN Alloc(e.c) ELSE [a EXCEPT !.c = e.c]
ChunkFor(a) == ChunkAfter(a, Evict(a.c))

\* ... and the engine's consent, after an eviction f or at last a reset.
ConsentAfter(c, b, f) ==
    CASE b.chunk # CcNone /\ Takes(b.c) -> b
      [] b.chunk # CcNone /\ ~Takes(b.c) /\ f.ok /\ Takes(f.c) -> [b EXCEPT !.c = f.c]
      [] OTHER -> Alloc(Reset(c))
Consent(c, b) == ConsentAfter(c, b, Evict(b.c))

MakeRoom(c) == Consent(c, ChunkFor(Alloc(c)))

\* JitEngine.place: the regions of a module, in the entries of its chunk.
Placed(c, chunk, regions) ==
    [s \in CcSlots |-> IF ChunkOf(c, s) = chunk /\ s % c.batch < Len(regions)
                       THEN regions[(s % c.batch) + 1] ELSE c.table[s]]

\* What waits becomes module mod in a chunk; background says that the Worker
\* compiles it, sweep that it is the last of SWEEP_MODULES (refresh_marks).
CompileInto(d, chunk, mod, background, sweep) ==
    LET place == [mod |-> mod, chunk |-> chunk]
        waiting == d.pending
        regions == [i \in 1 .. Len(waiting) |-> waiting[i].words]
        e == [d EXCEPT !.pending = <<>>, !.hits = 0,
                       !.live = @ \cup {place},
                       !.worker = IF background THEN (mod :> regions) @@ @ ELSE @,
                       !.compiling = IF background THEN @ \cup {mod} ELSE @,
                       !.ready = IF background THEN @ ELSE @ \cup {mod},
                       !.modules = Append(@, place),
                       !.table = IF background THEN @ ELSE Placed(d, chunk, regions)]
        Insert(x, i) ==
            LET w == waiting[i]
                v == [mod |-> mod, slot |-> chunk * d.batch + i - 1]
                old == {y \in x.compiled : y.key = w.key /\ y.words = w.words}
            IN  RecordEntries(
                  [x EXCEPT !.compiled = (@ \ old) \cup
                     {[key |-> w.key, words |-> w.words, mod |-> mod, slot |-> v.slot]}],
                  w.key, w.page, w.words, v)
    IN  Dropped(FoldLeft(Insert, IF sweep THEN RefreshMarks(e) ELSE e,
                         [i \in 1 .. Len(waiting) |-> i]))

\* compile_pending: a module of its own, with no name in use.
NewModule(d) ==
    Min(CcMods \ (Refs(d) \cup {m.mod : m \in d.live \cup d.retired \cup ToSet(d.modules)}))
CompileIn(room, background, sweep) ==
    CompileInto(room.c, room.chunk, NewModule(room.c), background, sweep)
CompilePending(c, background, sweep) == CompileIn(MakeRoom(c), background, sweep)

-----------------------------------------------------------------------------
(* SysJit::run *)

\* The start of a run: poll_compiling, drain.
CcBegin ==
    /\ ~cc.in
    /\ LET done == cc.compiling \ DOMAIN cc.worker
       IN  cc' = CcDrain([cc EXCEPT !.in = TRUE, !.compiling = @ \ done,
                                  !.ready = @ \cup (done \cap Refs(cc))])

Ended(c) == [c EXCEPT !.in = FALSE]
CcEnd == cc.in /\ cc' = Ended(cc)

\* install_jc and the dispatcher, compiled before its first run.
Entered(c, k, slot) ==
    LET d == IF c.disp THEN c
             ELSE IF CcRoom \/ Takes(c) THEN [c EXCEPT !.disp = TRUE]
             ELSE [Reset(c) EXCEPT !.disp = TRUE]
    IN  [d EXCEPT !.jump[k] = slot]

\* The region is entered, or has more steps than the budget left.
Goes(c, k, slot) == cc' \in {Entered(c, k, slot), Ended(c)}

HotHere(k) == cc.hot[k] # CcNone /\ cc.hot[k].page = cc.at
Block(k) == cc.blocks[k][cc.at]

\* lookup, after a miss of the jump cache.
Misses(k) == cc.in /\ cc.jump[k] = CcNone

LookupHot(k) ==
    /\ Misses(k)
    /\ HotHere(k)
    /\ Goes([cc EXCEPT !.used = @ \cup {k}], k, cc.hot[k].slot)

LookupReady(k) ==
    /\ Misses(k) /\ ~HotHere(k)
    /\ IsBlock(Block(k)) /\ Block(k).mod \in cc.ready
    /\ Goes([cc EXCEPT !.used = @ \cup {k}, !.hot[k] = [page |-> cc.at, slot |-> Block(k).slot]],
            k, Block(k).slot)

\* Still compiling, or not translated: the interpreter runs it.
LookupNone(k) ==
    /\ Misses(k) /\ ~HotHere(k)
    /\ Block(k) = One \/ (IsBlock(Block(k)) /\ Block(k).mod \notin cc.ready)
    /\ cc' = Ended(cc)

\* install: no variant of this page, and hot.
Installs(k) == Misses(k) /\ ~HotHere(k) /\ Block(k) = CcNone

\* What follows a compilation (compiled_block).
Continue(c, k) ==
    LET v == c.blocks[k][c.at]
    IN  IF IsBlock(v) /\ v.mod \in c.ready THEN Goes(c, k, v.slot) ELSE cc' = Ended(c)

Waiting(k) == \E w \in ToSet(cc.pending) : w.key = k /\ w.page = cc.at

\* It waits already: after batch requests what waits is compiled.
InstallWaiting(k) ==
    /\ Installs(k) /\ Waiting(k)
    /\ IF cc.hits + 1 < cc.batch THEN cc' = Ended([cc EXCEPT !.hits = @ + 1])
       ELSE \E background, sweep \in BOOLEAN : Continue(CompilePending(cc, background, sweep), k)

\* Its first instruction is not translated.
InstallNone(k) ==
    /\ Installs(k) /\ ~Waiting(k)
    /\ cc.ram[cc.at][k] = 0
    /\ cc' = Ended(Dropped(Record(cc, k, cc.at, One)))

\* It is read, watched (CodeWatch has the wait for the other cores), and
\* found compiled or added to those that wait.
InstallNew(k) ==
    /\ Installs(k) /\ ~Waiting(k)
    /\ cc.ram[cc.at][k] # 0
    /\ LET words == Words(cc, k)
           same == {e \in cc.compiled : e.key = k /\ e.words = words}
           c == [cc EXCEPT !.watched = @ \cup {cc.at}]
           d == [c EXCEPT !.pending = Append(@, [key |-> k, page |-> cc.at, words |-> words])]
       IN  \/ /\ same # {}
              /\ LET e == CHOOSE e \in same : TRUE
                     v == [mod |-> e.mod, slot |-> e.slot]
                 IN  Continue(Dropped(RecordEntries(c, k, cc.at, words, v)), k)
           \/ /\ same = {} /\ Len(d.pending) < cc.batch
              /\ cc' = Ended([d EXCEPT !.pages = @ \cup {<<cc.at, k>>}])
           \/ /\ same = {} /\ Len(d.pending) >= cc.batch
              /\ \E background, sweep \in BOOLEAN :
                     Continue(CompilePending(d, background, sweep), k)

-----------------------------------------------------------------------------
(* The rest of the machine *)

\* The Worker's module arrives, between runs: installed and placed.
Arrived(m) ==
    /\ ~cc.in
    /\ LET chunk == (CHOOSE x \in cc.live : x.mod = m).chunk
       IN  cc' = [cc EXCEPT !.worker = [x \in DOMAIN @ \ {m} |-> @[x]],
                            !.table = Placed(cc, chunk, cc.worker[m])]

\* A write: by a region, which stops and drains, or by another core or a
\* device.
CcWrite(p, k, code) ==
    LET c == [cc EXCEPT !.ram[p][k] = code, !.watched = @ \ {p},
                        !.dirty = IF p \in cc.watched THEN @ \cup {p} ELSE @]
    IN  /\ cc.ram[p][k] # code
        /\ \/ cc' = c
           \/ cc.in /\ p \in cc.watched /\ cc' = CcDrain(c)

\* A TLBI after the page tables changed (sync_regime).
CcRemap(p) == ~cc.in /\ p # cc.at /\ cc' = Epoch([cc EXCEPT !.at = p])

\* set_stops, set_yields, set_parallel: forget_blocks.
ForgetBlocks ==
    /\ ~cc.in
    /\ cc' = Dropped(Epoch(
         [cc EXCEPT !.blocks = NoBlocks, !.hot = NoWords, !.used = {}, !.pages = {},
                    !.compiled = {}, !.pending = <<>>, !.hits = 0]))

CcNext ==
    \/ CcBegin \/ CcEnd \/ ForgetBlocks
    \/ \E k \in CcKeys : \/ LookupHot(k) \/ LookupReady(k) \/ LookupNone(k)
                         \/ InstallWaiting(k) \/ InstallNone(k) \/ InstallNew(k)
    \/ \E m \in DOMAIN cc.worker : Arrived(m)
    \/ \E p \in CcPages : CcRemap(p)
    \/ \E p \in CcWritten, k \in CcKeys : \E code \in CcCodes[k] : CcWrite(p, k, code)

-----------------------------------------------------------------------------
\* A table entry holds a region with entry k made from what is in page p.
Runs(k, slot, p) ==
    LET region == cc.table[slot]
    IN  /\ region # CcNone
        /\ k \in DOMAIN region
        /\ \A j \in DOMAIN region : region[j] = cc.ram[p][j]

\* Until the page is written, a jump cache entry and a remembered one name
\* the region of that page, in place and ready (sys.rs: "A valid jump cache
\* entry for `pc` names the region the lookup would find").
JumpsRun ==
    \A k \in CcKeys :
        /\ cc.jump[k] # CcNone /\ cc.at \notin cc.dirty => Runs(k, cc.jump[k], cc.at)
        /\ cc.hot[k] # CcNone /\ cc.hot[k].page \notin cc.dirty
           => Runs(k, cc.hot[k].slot, cc.hot[k].page)

\* A write to a page with blocks is seen, and finds them (drain).
WritesFind ==
    /\ \A k \in CcKeys, p \in CcPages :
          /\ cc.blocks[k][p] # CcNone => <<p, k>> \in cc.pages
          /\ IsBlock(cc.blocks[k][p]) => p \in cc.watched \cup cc.dirty
    /\ \A w \in ToSet(cc.pending) : w.page \in cc.watched \cup cc.dirty

\* A chunk of the table is free, a module's or an evicted module's, one of
\* them, and none is lost.
ChunksOnce ==
    LET mods == {m.chunk : m \in ToSet(cc.modules)}
        retired == {m.chunk : m \in cc.retired}
    IN  /\ 0 .. cc.next - 1 = cc.free \cup mods \cup retired
        /\ cc.free \cap (mods \cup retired) = {} /\ mods \cap retired = {}
        /\ \A m \in cc.live : m.chunk \notin cc.free
        /\ \A m, n \in cc.live : m.chunk = n.chunk => m = n

\* The dispatcher never runs another region than the one of the code in
\* memory, whatever was compiled late, evicted, reset, forgotten or written.
CacheSafe == JumpsRun /\ WritesFind /\ ChunksOnce
=============================================================================
