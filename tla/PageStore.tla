------------------------------ MODULE PageStore ------------------------------
(* The page cache (worker/page_store.h, worker/page_store.cpp): a          *)
(* ConcurrentLRUCache of pages keyed by (file id, page index), a fetcher   *)
(* that reads a page from the under file system, and a reverse index       *)
(* file_page_index_ from a file to the page indices cached for it.         *)
(*                                                                         *)
(* Every cache_ call holds the cache's mu_ for its own duration only, and  *)
(* TrackPage holds file_index_mu_: a PageStore operation is a chain of     *)
(* separate critical sections, and the fetch in between holds no lock.    *)
(* Each thread runs one operation at a time; op[t] is where it is.         *)
(*                                                                         *)
(* Page contents are abstracted to the version of the under-file-system    *)
(* page they were fetched from; data given to WritePage is "client".       *)
(* ufs is the under file system; UfsUpdate is another client changing a    *)
(* page there, after which it calls InvalidateFile (CacheClient).          *)
EXTENDS Naturals, Sequences, FiniteSets

CONSTANTS Threads,      \* threads calling into one PageStore
          Files,        \* file ids
          PageIdx,      \* page indices (a set of naturals)
          MaxPages,     \* max_pages: the cache's max_entries_
          MaxVersion,   \* bound on under-file-system updates of a page
          MaxOps,       \* bound on PageStore calls
          HasFetcher,   \* whether SetPageFetcher was called
          NONE          \* an absent map_ entry

ASSUME MaxPages \in Nat \ {0} /\ PageIdx \subseteq Nat

VARIABLES ufs,       \* the under file system: version of each page
          order,     \* order_: cached keys, least recently used first
          map,       \* map_: key -> PageData, or NONE
          index,     \* file_page_index_: file -> set of page indices
          op,        \* what each thread is doing
          nops,      \* PageStore calls made so far
          floor      \* history: the version a clean cached page must have
                     \* reached, set when an InvalidateFile returns

vars == <<ufs, order, map, index, op, nops, floor>>

Keys == Files \X PageIdx
PageData == [src : {"ufs", "client"}, ver : 0..MaxVersion, dirty : BOOLEAN]

Idle == [st |-> "idle"]

Todo == Seq(PageIdx) \ {<<>>}

(* Where a thread can be: between two critical sections of one call.      *)
OpState ==
    {Idle} \cup [st : {"rd_fetch"}, key : Keys]
    \cup [st : {"rd_put"}, key : Keys, ver : 0..MaxVersion]
    \cup [st : {"track"}, key : Keys, todo : Seq(PageIdx)]
    \cup [st : {"pf_check", "pf_fetch"}, file : Files, todo : Todo]
    \cup [st : {"pf_put"}, file : Files, todo : Todo, ver : 0..MaxVersion]
    \cup [st : {"inv_erase"}, file : Files, pending : SUBSET PageIdx \ {{}},
           snap : [PageIdx -> 0..MaxVersion]]

TypeOK ==
    /\ ufs \in [Keys -> 0..MaxVersion]
    /\ order \in Seq(Keys)
    /\ map \in [Keys -> PageData \cup {NONE}]
    /\ index \in [Files -> SUBSET PageIdx]
    /\ nops \in 0..MaxOps
    /\ floor \in [Keys -> 0..MaxVersion]
    /\ op \in [Threads -> OpState]

(* PageStore::PageStore: an empty cache and an empty reverse index.        *)
Init ==
    /\ ufs = [k \in Keys |-> 0]
    /\ order = <<>>
    /\ map = [k \in Keys |-> NONE]
    /\ index = [f \in Files |-> {}]
    /\ op = [t \in Threads |-> Idle]
    /\ nops = 0
    /\ floor = [k \in Keys |-> 0]

-----------------------------------------------------------------------------
(* ConcurrentLRUCache: each operator is one critical section under mu_.    *)

Cached(k) == map[k] # NONE

RemoveKey(s, k) == SelectSeq(s, LAMBDA x : x # k)

(* Get: on a hit, splice the entry to the back of order_.                  *)
LruGet(k) ==
    /\ order' = Append(RemoveKey(order, k), k)
    /\ UNCHANGED map

\* A faulty variant: the capacity test is map_.size() > max_entries_.
LruPutLate(k, v) ==
    IF Cached(k)
    THEN /\ map' = [map EXCEPT ![k] = v]
         /\ order' = Append(RemoveKey(order, k), k)
    ELSE IF Len(order) > MaxPages
         THEN /\ map' = [map EXCEPT ![Head(order)] = NONE, ![k] = v]
              /\ order' = Append(Tail(order), k)
         ELSE /\ map' = [map EXCEPT ![k] = v]
              /\ order' = Append(order, k)

(* Put: an existing key gets the new value and moves to the back; a new    *)
(* key first evicts the front entry when map_.size() >= max_entries_.      *)
LruPut(k, v) ==
    IF Cached(k)
    THEN /\ map' = [map EXCEPT ![k] = v]
         /\ order' = Append(RemoveKey(order, k), k)
    ELSE IF Len(order) >= MaxPages
         THEN /\ map' = [map EXCEPT ![Head(order)] = NONE, ![k] = v]
              /\ order' = Append(Tail(order), k)
         ELSE /\ map' = [map EXCEPT ![k] = v]
              /\ order' = Append(order, k)

LruContains(k) == Cached(k)

LruErase(k) ==
    /\ map' = [map EXCEPT ![k] = NONE]
    /\ order' = RemoveKey(order, k)

(* EvictN: pop up to n entries from the front.                             *)
LruEvictN(n) ==
    LET m == IF n < Len(order) THEN n ELSE Len(order)
        victims == {order[i] : i \in 1..m}
    IN /\ map' = [k \in Keys |-> IF k \in victims THEN NONE ELSE map[k]]
       /\ order' = SubSeq(order, m + 1, Len(order))

-----------------------------------------------------------------------------
(* PageStore.                                                              *)

Begin(t) == op[t] = Idle /\ nops < MaxOps /\ nops' = nops + 1
Set(t, r) == op' = [op EXCEPT ![t] = r]

(* TrackPage: file_page_index_[file_id].insert(page_index).                *)
TrackPage(f, p) == index' = [index EXCEPT ![f] = @ \cup {p}]

(* ReadPage, first critical section: cache_.Get.  A hit returns the page;  *)
(* a miss with no fetcher returns Internal; otherwise the page is fetched. *)
ReadGet(t, k) ==
    /\ Begin(t)
    /\ IF Cached(k)
       THEN LruGet(k) /\ Set(t, Idle)
       ELSE /\ UNCHANGED <<order, map>>
            /\ Set(t, IF HasFetcher THEN [st |-> "rd_fetch", key |-> k]
                                    ELSE Idle)
    /\ UNCHANGED <<ufs, index, floor>>

(* ReadPage: fetcher_ reads the page, holding no lock; RETURN_IF_ERROR     *)
(* leaves nothing cached when it fails.                                    *)
ReadFetch(t) ==
    /\ op[t].st = "rd_fetch"
    /\ \/ Set(t, [st |-> "rd_put", key |-> op[t].key, ver |-> ufs[op[t].key]])
       \/ Set(t, Idle)
    /\ UNCHANGED <<ufs, order, map, index, nops, floor>>

(* ReadPage: cache_.Put of the fetched, clean page.                        *)
ReadPut(t) ==
    /\ op[t].st = "rd_put"
    /\ LruPut(op[t].key, [src |-> "ufs", ver |-> op[t].ver, dirty |-> FALSE])
    /\ Set(t, [st |-> "track", key |-> op[t].key, todo |-> <<>>])
    /\ UNCHANGED <<ufs, index, nops, floor>>

\* A faulty variant: WritePage returns without calling TrackPage.
WritePutUntracked(t, k) ==
    /\ Begin(t)
    /\ LruPut(k, [src |-> "client", ver |-> 0, dirty |-> TRUE])
    /\ Set(t, Idle)
    /\ UNCHANGED <<ufs, index, floor>>

(* WritePage: cache_.Put of a dirty page holding the caller's data.        *)
WritePut(t, k) ==
    /\ Begin(t)
    /\ LruPut(k, [src |-> "client", ver |-> 0, dirty |-> TRUE])
    /\ Set(t, [st |-> "track", key |-> k, todo |-> <<>>])
    /\ UNCHANGED <<ufs, index, floor>>

(* The TrackPage call that follows each Put, under file_index_mu_; inside  *)
(* PrefetchPages the loop then moves to its next page.                     *)
Track(t) ==
    /\ op[t].st = "track"
    /\ TrackPage(op[t].key[1], op[t].key[2])
    /\ Set(t, IF op[t].todo = <<>> THEN Idle
              ELSE [st |-> "pf_check", file |-> op[t].key[1],
                    todo |-> op[t].todo])
    /\ UNCHANGED <<ufs, order, map, nops, floor>>

(* PrefetchPages: the loop over start_page .. start_page + count - 1.      *)
(* todo holds the page indices still to visit, the current one first.    *)
PrefetchStart(t, f, pages) ==
    /\ Begin(t)
    /\ Set(t, [st |-> "pf_check", file |-> f, todo |-> pages])
    /\ UNCHANGED <<ufs, order, map, index, floor>>

\* A faulty variant: the loop runs once more than count (i <= count).
PrefetchNextPastEnd(t) ==
    Set(t, [op[t] EXCEPT !.st = "pf_check", !.todo = Tail(@)])

(* The next iteration of the loop, or the return after the last one.      *)
PrefetchNext(t) ==
    Set(t, IF Tail(op[t].todo) = <<>> THEN Idle
           ELSE [op[t] EXCEPT !.st = "pf_check", !.todo = Tail(@)])

(* cache_.Contains: a cached page is skipped, and so is every page when    *)
(* no fetcher is set.                                                      *)
PrefetchCheck(t) ==
    /\ op[t].st = "pf_check"
    /\ IF LruContains(<<op[t].file, Head(op[t].todo)>>) \/ ~HasFetcher
       THEN PrefetchNext(t)
       ELSE Set(t, [op[t] EXCEPT !.st = "pf_fetch"])
    /\ UNCHANGED <<ufs, order, map, index, nops, floor>>

(* fetcher_ without a lock; a failed fetch skips the page.                 *)
PrefetchFetch(t) ==
    /\ op[t].st = "pf_fetch"
    /\ \/ Set(t, [st |-> "pf_put", file |-> op[t].file, todo |-> op[t].todo,
                  ver |-> ufs[<<op[t].file, Head(op[t].todo)>>]])
       \/ PrefetchNext(t)
    /\ UNCHANGED <<ufs, order, map, index, nops, floor>>

PrefetchPut(t) ==
    /\ op[t].st = "pf_put"
    /\ LruPut(<<op[t].file, Head(op[t].todo)>>,
              [src |-> "ufs", ver |-> op[t].ver, dirty |-> FALSE])
    /\ Set(t, [st |-> "track", key |-> <<op[t].file, Head(op[t].todo)>>,
               todo |-> Tail(op[t].todo)])
    /\ UNCHANGED <<ufs, index, nops, floor>>

(* Evict: cache_.EvictN; the reverse index is left as it is.               *)
Evict(t, n) ==
    /\ Begin(t)
    /\ LruEvictN(n)
    /\ UNCHANGED <<ufs, index, op, floor>>

(* InvalidateFile, first critical section under file_index_mu_: take the   *)
(* file's page set out of the index, or return when it has none.  snap     *)
(* records the under file system as it is when the call is made; floor     *)
(* is raised to it when the call returns.                                  *)
InvalidateTake(t, f) ==
    /\ Begin(t)
    /\ IF index[f] = {}
       THEN /\ Set(t, Idle)
            /\ floor' = [k \in Keys |-> IF k[1] = f THEN ufs[k] ELSE floor[k]]
            /\ UNCHANGED index
       ELSE /\ index' = [index EXCEPT ![f] = {}]
            /\ Set(t, [st |-> "inv_erase", file |-> f, pending |-> index[f],
                       snap |-> [p \in PageIdx |-> ufs[<<f, p>>]]])
            /\ UNCHANGED floor
    /\ UNCHANGED <<ufs, order, map>>

(* InvalidateFile: one cache_.Erase per taken page, in the unordered_set's *)
(* order; the call returns after the last one.                             *)
InvalidateErase(t) ==
    /\ op[t].st = "inv_erase"
    /\ \E p \in op[t].pending :
         LET f == op[t].file
             rest == op[t].pending \ {p}
         IN /\ LruErase(<<f, p>>)
            /\ IF rest = {}
               THEN /\ Set(t, Idle)
                    /\ floor' = [k \in Keys |->
                                   IF k[1] = f THEN op[t].snap[k[2]]
                                   ELSE floor[k]]
               ELSE Set(t, [op[t] EXCEPT !.pending = rest]) /\ UNCHANGED floor
    /\ UNCHANGED <<ufs, index, nops>>

(* Another client changes a page in the under file system.                 *)
UfsUpdate(k) ==
    /\ ufs[k] < MaxVersion
    /\ ufs' = [ufs EXCEPT ![k] = @ + 1]
    /\ UNCHANGED <<order, map, index, op, nops, floor>>

(* The page ranges a PrefetchPages call may ask for.                       *)
Ranges == {r \in {[i \in 1..c |-> s + i - 1] :
                     s \in PageIdx, c \in 1..Cardinality(PageIdx)} :
              \A i \in 1..Len(r) : r[i] \in PageIdx}

Next ==
    \/ \E k \in Keys : UfsUpdate(k)
    \/ \E t \in Threads :
         \/ \E k \in Keys : ReadGet(t, k) \/ WritePut(t, k)
         \/ ReadFetch(t) \/ ReadPut(t) \/ Track(t)
         \/ \E f \in Files, r \in Ranges : PrefetchStart(t, f, r)
         \/ PrefetchCheck(t) \/ PrefetchFetch(t) \/ PrefetchPut(t)
         \/ \E n \in 1..MaxPages : Evict(t, n)
         \/ \E f \in Files : InvalidateTake(t, f)
         \/ InvalidateErase(t)

Spec == Init /\ [][Next]_vars

-----------------------------------------------------------------------------
(* Properties.                                                             *)

(* order_ and map_ describe the same entries: every cached key is in the   *)
(* LRU list exactly once and the list holds no other key, so the front     *)
(* Put evicts is a cached page and the cache never exceeds max_entries_.   *)
LruStructureConsistent ==
    /\ {order[i] : i \in 1..Len(order)} = {k \in Keys : Cached(k)}
    /\ Len(order) = Cardinality({k \in Keys : Cached(k)})
    /\ Len(order) <= MaxPages

(* InvalidateFile can only erase pages the reverse index names.  Every     *)
(* cached page is tracked in file_page_index_, or its Put's TrackPage is   *)
(* still to come, or an InvalidateFile in progress is about to erase it.   *)
IndexCoversCache ==
    \A k \in Keys : Cached(k) =>
        \/ k[2] \in index[k[1]]
        \/ \E t \in Threads : op[t].st = "track" /\ op[t].key = k
        \/ \E t \in Threads : op[t].st = "inv_erase" /\ op[t].file = k[1]
                              /\ k[2] \in op[t].pending

(* After InvalidateFile(f) returns, no clean page of f in the cache holds  *)
(* data older than the under file system held when the call was made.     *)
InvalidationRemovesStale ==
    \A k \in Keys : Cached(k) /\ ~map[k].dirty => map[k].ver >= floor[k]
====
