------------------------------ MODULE LFUPolicy ------------------------------
(* LFUPolicy (worker/cache_manager.cpp 47-120, class in unnamed/part_015    *)
(* 40-57): freq_map_, the per-frequency lists freq_lists_ (front = oldest   *)
(* at that frequency) and min_freq_.  Each method is one step: the policy  *)
(* is only called under CacheManager's mutex.  A method's early return on  *)
(* an untracked id changes nothing and is a stuttering step.                *)
EXTENDS Naturals, Sequences, FiniteSets

CONSTANTS Ids,      \* block ids
          MaxFreq,  \* bound on the uint64_t frequencies
          NoId      \* kInvalidBlockId

Freqs == 0..MaxFreq

VARIABLES freq_map,    \* id -> frequency, 0 = no entry (entries start at 1)
          freq_lists,  \* frequency -> list of ids; an erased list is <<>>
          min_freq,    \* min_freq_
          victim       \* the id the last Evict() returned

vars == <<freq_map, freq_lists, min_freq, victim>>

Tracked == {i \in Ids : freq_map[i] # 0}

Init ==
    /\ freq_map = [i \in Ids |-> 0]
    /\ freq_lists = [f \in Freqs |-> <<>>]
    /\ min_freq = 0
    /\ victim = NoId

\* list::remove(id): every occurrence goes.
Unlink(lst, id) == SelectSeq(lst, LAMBDA x : x # id)

(* OnAccess (50-70) for a tracked id below the frequency bound.             *)
Access(id) ==
    LET old == freq_map[id]
        new == old + 1
        rest == Unlink(freq_lists[old], id)
    IN  /\ new <= MaxFreq
        /\ freq_map' = [freq_map EXCEPT ![id] = new]
        /\ freq_lists' = [freq_lists EXCEPT ![old] = rest, ![new] = Append(@, id)]
        /\ min_freq' = IF rest = <<>> /\ min_freq = old THEN new ELSE min_freq

OnAccess(id) ==
    /\ id \in Tracked
    /\ Access(id)
    /\ UNCHANGED victim

(* OnInsert (72-83): a tracked id is accessed; a new one starts at 1.      *)
\* Mutant: min_freq_ is left alone for a new entry.
InsertKeepMin(id) ==
    IF id \in Tracked
    THEN Access(id) /\ UNCHANGED victim
    ELSE /\ freq_map' = [freq_map EXCEPT ![id] = 1]
         /\ freq_lists' = [freq_lists EXCEPT ![1] = Append(@, id)]
         /\ UNCHANGED <<min_freq, victim>>

OnInsert(id) ==
    IF id \in Tracked
    THEN Access(id) /\ UNCHANGED victim
    ELSE /\ freq_map' = [freq_map EXCEPT ![id] = 1]
         /\ freq_lists' = [freq_lists EXCEPT ![1] = Append(@, id)]
         /\ min_freq' = 1
         /\ UNCHANGED victim

(* OnRemove (85-97): min_freq_ is not touched.                             *)
\* Mutant: the map entry goes, the list entry stays.
RemoveMapOnly(id) ==
    /\ id \in Tracked
    /\ freq_map' = [freq_map EXCEPT ![id] = 0]
    /\ UNCHANGED <<freq_lists, min_freq, victim>>

OnRemove(id) ==
    /\ id \in Tracked
    /\ freq_lists' = [freq_lists EXCEPT ![freq_map[id]] = Unlink(@, id)]
    /\ freq_map' = [freq_map EXCEPT ![id] = 0]
    /\ UNCHANGED <<min_freq, victim>>

(* Evict (99-118): min_freq_ climbs to the first non-empty list, whose     *)
(* front is the victim.  Were every list from min_freq_ up empty while     *)
(* freq_map_ is not, the loop would never end: Evict takes no step.         *)
RECURSIVE FirstNonEmpty(_)
FirstNonEmpty(f) ==
    IF freq_lists[f] = <<>> /\ f < MaxFreq THEN FirstNonEmpty(f + 1) ELSE f

Evict ==
    IF Tracked = {}
    THEN victim' = NoId /\ UNCHANGED <<freq_map, freq_lists, min_freq>>
    ELSE LET m == FirstNonEmpty(min_freq)
             v == Head(freq_lists[m])
         IN  /\ freq_lists[m] # <<>>
             /\ min_freq' = m
             /\ victim' = v
             /\ freq_lists' = [freq_lists EXCEPT ![m] = Tail(@)]
             /\ freq_map' = [freq_map EXCEPT ![v] = 0]

Next ==
    \/ \E id \in Ids : OnAccess(id)
    \/ \E id \in Ids : OnInsert(id)
    \/ \E id \in Ids : OnRemove(id)
    \/ Evict

Spec == Init /\ [][Next]_vars

-----------------------------------------------------------------------------
\* Every tracked id sits exactly once in the list of its frequency and no
\* untracked id sits in any list, whatever sequence of the four methods
\* ran: the invariant Evict's loop relies on to terminate and to find the
\* entry it erases.
IndexConsistent ==
    /\ freq_map \in [Ids -> Freqs]
    /\ \A f \in Freqs : \A k \in 1..Len(freq_lists[f]) : freq_map[freq_lists[f][k]] = f
    /\ \A i \in Tracked :
          Cardinality({k \in 1..Len(freq_lists[freq_map[i]]) : freq_lists[freq_map[i]][k] = i}) = 1

\* The implementation evicts what spec 4.4.3's LFU promises: least frequency
\* first, oldest at that frequency first, none when empty.  The order among
\* ids of equal frequency is their order in freq_lists_.
InBucketOrder ==
    {<<a, b>> \in Ids \X Ids :
        \E f \in Freqs : \E i, j \in 1..Len(freq_lists[f]) :
            i < j /\ freq_lists[f][i] = a /\ freq_lists[f][j] = b}

Order == INSTANCE LFUOrder WITH freq <- freq_map, older <- InBucketOrder

OrderSpec == Order!Spec
=============================================================================
