----------------------------- MODULE BlockStore -----------------------------
(***************************************************************************)
(* The worker's block engine: src/worker/block_store.cpp together with the *)
(* StorageTier block tables (storage_tier.cpp), the CacheManager with its  *)
(* LRU policy (cache_manager.cpp) and the persistent MetaStore             *)
(* (meta_store.cpp).                                                       *)
(*                                                                         *)
(* RPC handlers run on a thread pool, so several threads execute BlockStore *)
(* operations at once.  Each call that takes one lock (a tier mutex, the   *)
(* CacheManager mutex, the block_tier_map_ mutex, the MetaStore) is one    *)
(* step; an operation is a sequence of such steps, tracked by a per-thread *)
(* program counter.  Block contents are not modelled, only which tier      *)
(* holds which block and with what allocated size.                         *)
(***************************************************************************)
EXTENDS Integers, SequencesExt

CONSTANTS
    Blocks,            \* block ids a client may use (model values)
    Threads,           \* RPC / DataMover threads calling into the BlockStore
    Tiers,             \* configured TierType values: 0 = MEM, 1 = SSD, 2 = HDD
    Capacity,          \* Capacity[t]: capacity_bytes of tier t
    Sizes,             \* block sizes a write may request
    PromoteThreshold,  \* Options::auto_promote_access_threshold (0 = off)
    HighWM, LowWM,     \* auto-evict watermarks, in percent
    MaxOps,            \* bound: operations started per behaviour
    MaxRestarts,       \* bound: worker process restarts per behaviour
    NONE               \* model value: absent / not found

ASSUME Tiers \subseteq {0, 1, 2} /\ Tiers # {}
ASSUME Capacity \in [Tiers -> Nat] /\ Sizes \subseteq Nat \ {0}
ASSUME PromoteThreshold \in Nat /\ HighWM \in 0..100 /\ LowWM \in 0..100

VARIABLES
    tier_blocks,          \* tier_blocks[t][b]: capacity of b's handle in tier t, 0 if absent
    block_tier_map,       \* BlockStore::block_tier_map_
    meta_store,           \* MetaStore records (persistent, survive restart)
    lru_order,            \* LRUPolicy::order_, Head = least recently used
    block_sizes,          \* CacheManager::block_sizes_, 0 if absent
    total_cached_bytes,   \* CacheManager::total_cached_bytes_
    th,                   \* per-thread program counter and locals
    ops,                  \* operations started so far (bound only)
    restarts              \* restarts so far (bound only)

vars == <<tier_blocks, block_tier_map, meta_store, lru_order, block_sizes,
          total_cached_bytes, th, ops, restarts>>

MetaRec == [tier : Tiers, length : Nat, count : Nat]

(* RocksMetaStore (meta_store.cpp): one record per block id, NONE where    *)
(* the key is absent.                                                      *)
PutBlockMeta(ms, id, meta) == [ms EXCEPT ![id] = meta]     \* lines 90-95
GetBlockMeta(ms, id) == ms[id]                             \* 97-106; NONE = NotFound
DeleteBlockMeta(ms, id) == [ms EXCEPT ![id] = NONE]        \* 108-113
ScanAll(ms) == {b \in DOMAIN ms : ms[b] # NONE}             \* 115-125

Pcs == {"idle", "ensure", "pick", "cands", "victim", "recheck", "alloc",
        "putmeta", "map", "insert", "autoevict", "write", "read", "getmeta",
        "putmeta_r", "promote_chk", "p_find", "p_import", "p_rmsrc", "p_meta",
        "p_map", "rm_find", "rm_do"}

Idle == [pc |-> "idle", blk |-> NONE, size |-> 0, tier |-> NONE, src |-> NONE,
         need |-> 0, ev_tier |-> NONE, cont |-> "idle", cands |-> <<>>,
         m |-> NONE, created |-> FALSE]

-----------------------------------------------------------------------------
(* Helpers over the tiers.                                                 *)

Used(t) == SumFunction(tier_blocks[t])          \* StorageTier::used_bytes_
Avail(t) == Capacity[t] - Used(t)                \* GetAvailableBytes()
Fastest == Min(Tiers)                            \* tiers_.front() after the sort

\* CreateBlock's scan: the first tier, fastest first, with room for size.
PickTier(size) ==
    LET ok == {t \in Tiers : Avail(t) >= size}
    IN  IF ok = {} THEN NONE ELSE Min(ok)

PromoteTarget(cur) == CASE cur = 2 -> 1 [] cur = 1 -> 0 [] OTHER -> NONE

\* MaybeAutoEvict: usage > high watermark, target = capacity * low watermark.
OverHighWM(t) == Capacity[t] > 0 /\ 100 * Used(t) > HighWM * Capacity[t]
ToFree(t) == LET target == (Capacity[t] * LowWM) \div 100
             IN  IF Used(t) > target THEN Used(t) - target ELSE 0

\* CacheManager::GetEvictionCandidates: how many policy victims are popped
\* before `freed` reaches `need` (freed only counts ids found in block_sizes_).
RECURSIVE CandidateCount(_, _, _)
CandidateCount(order, freed, need) ==
    IF freed >= need \/ order = <<>> THEN 0
    ELSE 1 + CandidateCount(Tail(order), freed + block_sizes[Head(order)], need)

\* StorageTier::AllocateBlock's checks, under the tier mutex.
CanAllocate(t, b, size) == tier_blocks[t][b] = 0 /\ Used(t) + size <= Capacity[t]

\* A faulty variant: the existing list node is not erased.
LruInsertNoErase(b) == Append(lru_order, b)

\* LRUPolicy::OnInsert: drop an existing entry, append at the MRU end.
LruInsert(b) == Append(Remove(lru_order, b), b)
\* LRUPolicy::OnAccess: move to the MRU end only if tracked.
LruAccess(b) == IF Contains(lru_order, b) THEN LruInsert(b) ELSE lru_order

\* LRUPolicy::OnRemove (cache_manager.cpp 28-34): erase if tracked.
LruOnRemove(b) == Remove(lru_order, b)

\* A faulty variant: the size entry is dropped but not subtracted.
OnBlockRemoveKeepTotal(b) ==
    /\ lru_order' = LruOnRemove(b)
    /\ total_cached_bytes' = total_cached_bytes
    /\ block_sizes' = [block_sizes EXCEPT ![b] = 0]

\* CacheManager::OnBlockRemove: policy entry, size and byte counter.
OnBlockRemove(b) ==
    /\ lru_order' = LruOnRemove(b)
    /\ total_cached_bytes' = total_cached_bytes - block_sizes[b]
    /\ block_sizes' = [block_sizes EXCEPT ![b] = 0]

\* StorageTier::HasBlock (storage_tier.cpp 76-79): the tier's own table.
TierHasBlock(tb, tr, b) == tb[tr][b] > 0
\* StorageTier::RemoveBlock (69-74) -> RemoveMem / RemoveDisk: the handle's
\* capacity leaves used_bytes_; NotFound leaves the tier as it was.
TierRemoveBlock(tb, tr, b) == [tb EXCEPT ![tr][b] = 0]
\* StorageTier::ReadMem: NotFound, else a memcpy clamped to the capacity.
ReadMem(tb, b) == IF TierHasBlock(tb, 0, b) THEN {"OK"} ELSE {"NotFound"}
\* StorageTier::ReadDisk: NotFound, else open and pread, either may fail.
ReadDisk(tb, tr, b) ==
    IF TierHasBlock(tb, tr, b) THEN {"OK", "IOError"} ELSE {"NotFound"}
\* StorageTier::ReadBlock: tier 0 is the memory tier, the others are files.
TierRead(tb, tr, b) == IF tr = 0 THEN ReadMem(tb, b) ELSE ReadDisk(tb, tr, b)
\* StorageTier::WriteMem: NotFound, or InvalidArgument when the write passes
\* the handle's capacity (the RPC writes at offset 0).
WriteMem(tb, b, s) ==
    CASE ~TierHasBlock(tb, 0, b) -> {"NotFound"}
      [] s > tb[0][b]            -> {"InvalidArgument"}
      [] OTHER                   -> {"OK"}
\* StorageTier::WriteDisk: no capacity check; open and pwrite may fail.
WriteDisk(tb, tr, b) ==
    IF TierHasBlock(tb, tr, b) THEN {"OK", "IOError"} ELSE {"NotFound"}
\* StorageTier::WriteBlock: dispatch on the tier type under the tier mutex.
TierWrite(tb, tr, b, s) ==
    IF tr = 0 THEN WriteMem(tb, b, s) ELSE WriteDisk(tb, tr, b)
\* BlockStore::FindBlockTier (block_store.cpp 324-329), under mu_.
FindBlockTier(b) == block_tier_map[b]
\* BlockStore::HasBlock (222-225), under mu_.
HasBlock(b) == block_tier_map[b] # NONE

Goto(t, p) == th' = [th EXCEPT ![t].pc = p]
Finish(t) == th' = [th EXCEPT ![t] = Idle]

-----------------------------------------------------------------------------
Init ==
    /\ tier_blocks = [t \in Tiers |-> [b \in Blocks |-> 0]]
    /\ block_tier_map = [b \in Blocks |-> NONE]
    /\ meta_store = [b \in Blocks |-> NONE]
    /\ lru_order = <<>>
    /\ block_sizes = [b \in Blocks |-> 0]
    /\ total_cached_bytes = 0
    /\ th = [t \in Threads |-> Idle]
    /\ ops = 0
    /\ restarts = 0

(* A thread takes a request: WriteBlock / CacheBlock RPC or a DataMover     *)
(* preload (EnsureBlock then WriteBlock), ReadBlock RPC, RemoveBlock RPC.  *)
StartWrite(t, b, s) ==
    /\ th[t].pc = "idle" /\ ops < MaxOps
    /\ th' = [th EXCEPT ![t] = [Idle EXCEPT !.pc = "ensure", !.blk = b, !.size = s]]
    /\ ops' = ops + 1
    /\ UNCHANGED <<tier_blocks, block_tier_map, meta_store, lru_order, block_sizes,
                   total_cached_bytes, restarts>>

(* WorkerServiceImpl::CacheBlock: a missing config or ufs_path, or a UFS   *)
(* that cannot be created, opened or read, returns before the block store *)
(* is touched; otherwise EnsureBlock and WriteBlock at offset 0 of the     *)
(* bytes read, s, as for WriteBlock.                                       *)
StartCache(t, b, s) ==
    /\ th[t].pc = "idle" /\ ops < MaxOps
    /\ \/ th' = [th EXCEPT ![t] = [Idle EXCEPT !.pc = "ensure", !.blk = b, !.size = s]]
       \/ UNCHANGED th
    /\ ops' = ops + 1
    /\ UNCHANGED <<tier_blocks, block_tier_map, meta_store, lru_order, block_sizes,
                   total_cached_bytes, restarts>>

StartRead(t, b) ==
    /\ th[t].pc = "idle" /\ ops < MaxOps
    /\ th' = [th EXCEPT ![t] = [Idle EXCEPT !.pc = "read", !.blk = b]]
    /\ ops' = ops + 1
    /\ UNCHANGED <<tier_blocks, block_tier_map, meta_store, lru_order, block_sizes,
                   total_cached_bytes, restarts>>

StartRemove(t, b) ==
    /\ th[t].pc = "idle" /\ ops < MaxOps
    /\ th' = [th EXCEPT ![t] = [Idle EXCEPT !.pc = "rm_find", !.blk = b]]
    /\ ops' = ops + 1
    /\ UNCHANGED <<tier_blocks, block_tier_map, meta_store, lru_order, block_sizes,
                   total_cached_bytes, restarts>>

(* EnsureBlock: HasBlock under mu_; a cached block needs no create.        *)
Ensure(t) ==
    /\ th[t].pc = "ensure"
    /\ Goto(t, IF HasBlock(th[t].blk) THEN "write" ELSE "pick")
    /\ UNCHANGED <<tier_blocks, block_tier_map, meta_store, lru_order, block_sizes,
                   total_cached_bytes, ops, restarts>>

(* CreateBlock, lines 33-48: pick the fastest tier with room (read without  *)
(* the tier lock), else evict `size` bytes from the fastest tier.          *)
Pick(t) ==
    /\ th[t].pc = "pick"
    /\ LET tgt == PickTier(th[t].size)
       IN  th' = [th EXCEPT ![t] =
                    IF tgt # NONE
                    THEN [@ EXCEPT !.pc = "alloc", !.tier = tgt]
                    ELSE [@ EXCEPT !.pc = "cands", !.need = th[t].size,
                                   !.ev_tier = Fastest, !.cont = "recheck"]]
    /\ UNCHANGED <<tier_blocks, block_tier_map, meta_store, lru_order, block_sizes,
                   total_cached_bytes, ops, restarts>>

(* EvictBlocks, line 181: CacheManager::GetEvictionCandidates pops policy  *)
(* victims from the whole cache, whatever tier they live in.               *)
Cands(t) ==
    /\ th[t].pc = "cands"
    /\ LET k    == CandidateCount(lru_order, 0, th[t].need)
           vics == SubSeq(lru_order, 1, k)
           vset == ToSet(vics)
       IN  /\ lru_order' = SubSeq(lru_order, k + 1, Len(lru_order))
           /\ total_cached_bytes' = total_cached_bytes
                                    - MapThenSumSet(LAMBDA b : block_sizes[b], vset)
           /\ block_sizes' = [b \in Blocks |-> IF b \in vset THEN 0 ELSE block_sizes[b]]
           /\ th' = [th EXCEPT ![t].pc = "victim", ![t].cands = vics]
    /\ UNCHANGED <<tier_blocks, block_tier_map, meta_store, ops, restarts>>

(* EvictBlocks, lines 182-194: a candidate is dropped only if it lives in  *)
(* the tier being evicted; the others are skipped.  (The variant first    *)
(* forgets DeleteBlockMeta.)                                               *)
EvictOneKeepMeta(v, tier) ==
    IF block_tier_map[v] = tier
    THEN /\ tier_blocks' = TierRemoveBlock(tier_blocks, tier, v)
         /\ block_tier_map' = [block_tier_map EXCEPT ![v] = NONE]
         /\ UNCHANGED meta_store
    ELSE UNCHANGED <<tier_blocks, meta_store, block_tier_map>>

EvictOne(v, tier) ==
    IF block_tier_map[v] = tier
    THEN /\ tier_blocks' = TierRemoveBlock(tier_blocks, tier, v)
         /\ meta_store' = DeleteBlockMeta(meta_store, v)
         /\ block_tier_map' = [block_tier_map EXCEPT ![v] = NONE]
    ELSE UNCHANGED <<tier_blocks, meta_store, block_tier_map>>

Victim(t) ==
    /\ th[t].pc = "victim"
    /\ IF th[t].cands = <<>>
       THEN /\ Goto(t, th[t].cont)
            /\ UNCHANGED <<tier_blocks, meta_store, block_tier_map>>
       ELSE /\ EvictOne(Head(th[t].cands), th[t].ev_tier)
            /\ th' = [th EXCEPT ![t].cands = Tail(@)]
    /\ UNCHANGED <<lru_order, block_sizes, total_cached_bytes, ops, restarts>>

(* CreateBlock, lines 44-47: after eviction only the fastest tier is tried. *)
Recheck(t) ==
    /\ th[t].pc = "recheck"
    /\ IF Avail(Fastest) < th[t].size
       THEN Finish(t)                                   \* ResourceExhausted
       ELSE th' = [th EXCEPT ![t].pc = "alloc", ![t].tier = Fastest]
    /\ UNCHANGED <<tier_blocks, block_tier_map, meta_store, lru_order, block_sizes,
                   total_cached_bytes, ops, restarts>>

(* StorageTier::AllocateBlock under the tier mutex: AlreadyExists or       *)
(* ResourceExhausted end CreateBlock, else used_bytes_ grows by size.      *)
Alloc(t) ==
    /\ th[t].pc = "alloc"
    /\ LET b == th[t].blk  tr == th[t].tier  s == th[t].size
       IN  IF CanAllocate(tr, b, s)
           THEN /\ tier_blocks' = [tier_blocks EXCEPT ![tr][b] = s]
                /\ th' = [th EXCEPT ![t].pc = "putmeta", ![t].created = TRUE]
           ELSE /\ Finish(t)
                /\ UNCHANGED tier_blocks
    /\ UNCHANGED <<block_tier_map, meta_store, lru_order, block_sizes,
                   total_cached_bytes, ops, restarts>>

(* CreateBlock, lines 54-60: a fresh meta record, access_count 0.          *)
PutMeta(t) ==
    /\ th[t].pc = "putmeta"
    /\ meta_store' = PutBlockMeta(meta_store, th[t].blk,
                        [tier |-> th[t].tier, length |-> th[t].size, count |-> 0])
    /\ Goto(t, "map")
    /\ UNCHANGED <<tier_blocks, block_tier_map, lru_order, block_sizes,
                   total_cached_bytes, ops, restarts>>

(* CreateBlock, lines 62-65. *)
MapBlock(t) ==
    /\ th[t].pc = "map"
    /\ block_tier_map' = [block_tier_map EXCEPT ![th[t].blk] = th[t].tier]
    /\ Goto(t, "insert")
    /\ UNCHANGED <<tier_blocks, meta_store, lru_order, block_sizes,
                   total_cached_bytes, ops, restarts>>

(* CacheManager::OnBlockInsert: the size is added even if b was tracked.   *)
Insert(t) ==
    /\ th[t].pc = "insert"
    /\ LET b == th[t].blk IN
       /\ lru_order' = LruInsert(b)
       /\ block_sizes' = [block_sizes EXCEPT ![b] = th[t].size]
       /\ total_cached_bytes' = total_cached_bytes + th[t].size
    /\ Goto(t, "autoevict")
    /\ UNCHANGED <<tier_blocks, block_tier_map, meta_store, ops, restarts>>

(* MaybeAutoEvict(target tier), then CreateBlock returns OK and the caller *)
(* goes on to WriteBlock.                                                  *)
AutoEvict(t) ==
    /\ th[t].pc = "autoevict"
    /\ LET tr == th[t].tier IN
       th' = [th EXCEPT ![t] =
                IF OverHighWM(tr) /\ ToFree(tr) > 0
                THEN [@ EXCEPT !.pc = "cands", !.need = ToFree(tr), !.ev_tier = tr,
                               !.cont = "write"]
                ELSE [@ EXCEPT !.pc = "write"]]
    /\ UNCHANGED <<tier_blocks, block_tier_map, meta_store, lru_order, block_sizes,
                   total_cached_bytes, ops, restarts>>

(* BlockStore::WriteBlock: FindBlockTier, the tier write, OnBlockAccess.   *)
(* Only OK reaches OnBlockAccess; any error status is returned as it is.   *)
Write(t) ==
    /\ th[t].pc = "write"
    /\ LET b == th[t].blk  tr == FindBlockTier(th[t].blk)
       IN  \E res \in IF tr = NONE THEN {"NotFound"}
                       ELSE TierWrite(tier_blocks, tr, b, th[t].size) :
             IF res = "OK" THEN lru_order' = LruAccess(b)
             ELSE UNCHANGED lru_order
    /\ Finish(t)
    /\ UNCHANGED <<tier_blocks, block_tier_map, meta_store, block_sizes,
                   total_cached_bytes, ops, restarts>>

(* BlockStore::ReadBlock, lines 86-91: FindBlockTier, the tier read        *)
(* (NotFound if the tier lost the block) and OnBlockAccess.                *)
Read(t) ==
    /\ th[t].pc = "read"
    /\ LET b == th[t].blk  tr == FindBlockTier(th[t].blk)
       IN  \E res \in IF tr = NONE THEN {"NotFound"}
                       ELSE TierRead(tier_blocks, tr, b) :
             IF res = "OK"
             THEN /\ lru_order' = LruAccess(b)
                  /\ Goto(t, "getmeta")
             ELSE /\ Finish(t)
                  /\ UNCHANGED lru_order
    /\ UNCHANGED <<tier_blocks, block_tier_map, meta_store, block_sizes,
                   total_cached_bytes, ops, restarts>>

(* ReadBlock, lines 94-97: a local copy of the record, access_count + 1.   *)
GetMetaR(t) ==
    /\ th[t].pc = "getmeta"
    /\ LET rec == GetBlockMeta(meta_store, th[t].blk)
       IN  th' = [th EXCEPT ![t] =
                    IF rec = NONE THEN Idle
                    ELSE [@ EXCEPT !.pc = "putmeta_r", !.m = [rec EXCEPT !.count = @ + 1]]]
    /\ UNCHANGED <<tier_blocks, block_tier_map, meta_store, lru_order, block_sizes,
                   total_cached_bytes, ops, restarts>>

(* ReadBlock, line 98: the local copy is written back whole.               *)
PutMetaR(t) ==
    /\ th[t].pc = "putmeta_r"
    /\ meta_store' = PutBlockMeta(meta_store, th[t].blk, th[t].m)
    /\ Goto(t, "promote_chk")
    /\ UNCHANGED <<tier_blocks, block_tier_map, lru_order, block_sizes,
                   total_cached_bytes, ops, restarts>>

(* MaybeAutoPromote, lines 262-291, on the local meta copy.                *)
PromoteCheck(t) ==
    /\ th[t].pc = "promote_chk"
    /\ LET m   == th[t].m
           cur == block_tier_map[th[t].blk]
           dst == IF cur = NONE THEN NONE ELSE PromoteTarget(cur)
       IN  IF /\ PromoteThreshold > 0 /\ m.count >= PromoteThreshold
              /\ dst \in Tiers
              /\ Avail(dst) >= m.length
           THEN th' = [th EXCEPT ![t].pc = "p_find", ![t].tier = dst]
           ELSE Finish(t)
    /\ UNCHANGED <<tier_blocks, block_tier_map, meta_store, lru_order, block_sizes,
                   total_cached_bytes, ops, restarts>>

(* PromoteBlock, lines 142-154: FindBlockTier, then ExportBlock reads the  *)
(* whole handle (its capacity) from the source tier.                      *)
PFind(t) ==
    /\ th[t].pc = "p_find"
    /\ LET b == th[t].blk  src == FindBlockTier(th[t].blk)
       IN  IF src # NONE /\ src # th[t].tier /\ TierHasBlock(tier_blocks, src, b)
           THEN th' = [th EXCEPT ![t].pc = "p_import", ![t].src = src,
                                 ![t].size = tier_blocks[src][b]]
           ELSE Finish(t)
    /\ UNCHANGED <<tier_blocks, block_tier_map, meta_store, lru_order, block_sizes,
                   total_cached_bytes, ops, restarts>>

(* PromoteBlock, line 157: ImportBlock = AllocateBlock + WriteBlock.       *)
PImport(t) ==
    /\ th[t].pc = "p_import"
    /\ LET b == th[t].blk  dst == th[t].tier
       IN  IF CanAllocate(dst, b, th[t].size)
           THEN /\ tier_blocks' = [tier_blocks EXCEPT ![dst][b] = th[t].size]
                /\ Goto(t, "p_rmsrc")
           ELSE /\ Finish(t)
                /\ UNCHANGED tier_blocks
    /\ UNCHANGED <<block_tier_map, meta_store, lru_order, block_sizes,
                   total_cached_bytes, ops, restarts>>

(* PromoteBlock, line 160: the source copy is removed (NotFound ignored).  *)
PRemoveSrc(t) ==
    /\ th[t].pc = "p_rmsrc"
    /\ tier_blocks' = TierRemoveBlock(tier_blocks, th[t].src, th[t].blk)
    /\ Goto(t, "p_meta")
    /\ UNCHANGED <<block_tier_map, meta_store, lru_order, block_sizes,
                   total_cached_bytes, ops, restarts>>

(* PromoteBlock, lines 163-167: the meta tier, if a record still exists.   *)
PMeta(t) ==
    /\ th[t].pc = "p_meta"
    /\ LET b == th[t].blk IN
       LET rec == GetBlockMeta(meta_store, b) IN
       meta_store' = IF rec = NONE THEN meta_store
                     ELSE PutBlockMeta(meta_store, b, [rec EXCEPT !.tier = th[t].tier])
    /\ Goto(t, "p_map")
    /\ UNCHANGED <<tier_blocks, block_tier_map, lru_order, block_sizes,
                   total_cached_bytes, ops, restarts>>

(* PromoteBlock, lines 169-172: block_tier_map_[id] = target, unconditionally. *)
PMap(t) ==
    /\ th[t].pc = "p_map"
    /\ block_tier_map' = [block_tier_map EXCEPT ![th[t].blk] = th[t].tier]
    /\ Finish(t)
    /\ UNCHANGED <<tier_blocks, meta_store, lru_order, block_sizes,
                   total_cached_bytes, ops, restarts>>

(* BlockStore::RemoveBlock, line 124: FindBlockTier.                       *)
RmFind(t) ==
    /\ th[t].pc = "rm_find"
    /\ th' = [th EXCEPT ![t].pc = "rm_do", ![t].tier = FindBlockTier(th[t].blk)]
    /\ UNCHANGED <<tier_blocks, block_tier_map, meta_store, lru_order, block_sizes,
                   total_cached_bytes, ops, restarts>>

(* RemoveBlock, lines 125-135: tier remove, CacheManager::OnBlockRemove,   *)
(* DeleteBlockMeta and the map erase, whatever the lookup found.           *)
RmDo(t) ==
    /\ th[t].pc = "rm_do"
    /\ LET b == th[t].blk IN
       /\ tier_blocks' = IF th[t].tier = NONE THEN tier_blocks
                         ELSE TierRemoveBlock(tier_blocks, th[t].tier, b)
       /\ OnBlockRemove(b)
       /\ meta_store' = DeleteBlockMeta(meta_store, b)
       /\ block_tier_map' = [block_tier_map EXCEPT ![b] = NONE]
    /\ Finish(t)
    /\ UNCHANGED <<ops, restarts>>

(* A worker restart: StorageTier's constructor (storage_tier.cpp:14-22)    *)
(* starts with an empty block table and never scans its directory, so the  *)
(* tables are empty whatever survived on disk.                             *)
TiersAfterRestart == [tr \in Tiers |-> [b \in Blocks |-> 0]]

(* The process dies at any point; the MetaStore survives.  WorkerServer    *)
(* then runs BlockStore::Recover (lines 200-220): a record whose tier      *)
(* HasBlock is re-mapped and inserted into the policy, any other deleted.  *)
Restart ==
    /\ restarts < MaxRestarts
    /\ LET tb   == TiersAfterRestart
           kept == {b \in ScanAll(meta_store) : meta_store[b].tier \in Tiers
                                               /\ TierHasBlock(tb, meta_store[b].tier, b)}
       IN  /\ tier_blocks' = tb
           /\ block_tier_map' = [b \in Blocks |-> IF b \in kept THEN meta_store[b].tier
                                                 ELSE NONE]
           /\ meta_store' = [b \in Blocks |-> IF b \in kept THEN meta_store[b] ELSE NONE]
              \* DeleteBlockMeta of every scanned record not kept
           /\ lru_order' = SetToSeq(kept)
           /\ block_sizes' = [b \in Blocks |-> IF b \in kept THEN meta_store[b].length
                                              ELSE 0]
           /\ total_cached_bytes' = MapThenSumSet(LAMBDA b : meta_store[b].length, kept)
    /\ th' = [t \in Threads |-> Idle]
    /\ restarts' = restarts + 1
    /\ UNCHANGED ops

-----------------------------------------------------------------------------
Next ==
    \/ \E t \in Threads, b \in Blocks, s \in Sizes : StartWrite(t, b, s)
    \/ \E t \in Threads, b \in Blocks, s \in Sizes : StartCache(t, b, s)
    \/ \E t \in Threads, b \in Blocks : StartRead(t, b)
    \/ \E t \in Threads, b \in Blocks : StartRemove(t, b)
    \/ \E t \in Threads : Ensure(t)
    \/ \E t \in Threads : Pick(t)
    \/ \E t \in Threads : Cands(t)
    \/ \E t \in Threads : Victim(t)
    \/ \E t \in Threads : Recheck(t)
    \/ \E t \in Threads : Alloc(t)
    \/ \E t \in Threads : PutMeta(t)
    \/ \E t \in Threads : MapBlock(t)
    \/ \E t \in Threads : Insert(t)
    \/ \E t \in Threads : AutoEvict(t)
    \/ \E t \in Threads : Write(t)
    \/ \E t \in Threads : Read(t)
    \/ \E t \in Threads : GetMetaR(t)
    \/ \E t \in Threads : PutMetaR(t)
    \/ \E t \in Threads : PromoteCheck(t)
    \/ \E t \in Threads : PFind(t)
    \/ \E t \in Threads : PImport(t)
    \/ \E t \in Threads : PRemoveSrc(t)
    \/ \E t \in Threads : PMeta(t)
    \/ \E t \in Threads : PMap(t)
    \/ \E t \in Threads : RmFind(t)
    \/ \E t \in Threads : RmDo(t)
    \/ Restart

Spec == Init /\ [][Next]_vars

-----------------------------------------------------------------------------
(* Properties.                                                             *)

TypeOK ==
    /\ tier_blocks \in [Tiers -> [Blocks -> Nat]]
    /\ block_tier_map \in [Blocks -> Tiers \cup {NONE}]
    /\ meta_store \in [Blocks -> MetaRec \cup {NONE}]
    /\ lru_order \in Seq(Blocks) /\ IsInjective(lru_order)
    /\ block_sizes \in [Blocks -> Nat]
    /\ total_cached_bytes \in Nat
    /\ \A t \in Threads : th[t].pc \in Pcs

\* No BlockStore call is in progress on any thread.
Quiescent == \A t \in Threads : th[t].pc = "idle"

\* Between calls, the three records of a block agree: the tier named by
\* block_tier_map_ is the only tier whose table holds the block, the
\* MetaStore names the same tier and the allocated length, and a block
\* unknown to the map is in no tier and has no metadata.  Eviction,
\* promotion, removal and restart recovery each update all three.
ResidencyConsistent ==
    Quiescent =>
      \A b \in Blocks :
        LET tr == block_tier_map[b] IN
        IF tr = NONE
        THEN (\A u \in Tiers : tier_blocks[u][b] = 0) /\ meta_store[b] = NONE
        ELSE /\ tier_blocks[tr][b] > 0
             /\ \A u \in Tiers \ {tr} : tier_blocks[u][b] = 0
             /\ meta_store[b] # NONE
             /\ meta_store[b].tier = tr
             /\ meta_store[b].length = tier_blocks[tr][b]

\* CacheManager's total_cached_bytes_ (reported to the master as the
\* worker's used bytes) is the sum of the sizes it tracks: inserts, removals
\* and eviction-candidate pops keep the counter and block_sizes_ in step.
CachedBytesAccounted == total_cached_bytes = SumFunction(block_sizes)

CreatedBlockResident ==
    \A t \in Threads :
      th[t].pc = "write" /\ th[t].created =>
        LET b == th[t].blk IN
        /\ block_tier_map[b] # NONE
        /\ Cardinality({u \in Tiers : tier_blocks[u][b] > 0}) = 1

\* Between calls, every cached block is known to the eviction policy, so
\* EvictBlocks can still reclaim it.
PolicyTracksResidents ==
    Quiescent => \A b \in Blocks : block_tier_map[b] # NONE => Contains(lru_order, b)

\* Between calls, no block occupies space in two tiers.
SingleResidency ==
    Quiescent => \A b \in Blocks : Cardinality({u \in Tiers : tier_blocks[u][b] > 0}) <= 1

\* Between calls, a mapped block has a MetaStore record (RemoveBlock and
\* EvictBlocks delete both).
MappedBlockHasMeta ==
    Quiescent => \A b \in Blocks : block_tier_map[b] # NONE => meta_store[b] # NONE

\* A restart keeps every block whose MetaStore record names a disk tier
\* holding its file (spec 4.4.2: only volatile backing is dropped).
WarmRestartRecovers ==
    [][restarts' = restarts + 1 =>
         \A b \in Blocks :
           meta_store[b] # NONE /\ meta_store[b].tier # 0
             /\ tier_blocks[meta_store[b].tier][b] > 0
           => block_tier_map'[b] = meta_store[b].tier]_vars

=============================================================================
