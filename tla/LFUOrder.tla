------------------------------ MODULE LFUOrder ------------------------------
(* What an LFU eviction policy promises (spec 4.4.3): every tracked id has  *)
(* an access frequency, starting at 1; an access raises it by one; evict()  *)
(* removes an id of least frequency and, among those, the one that has held *)
(* that frequency longest, or returns none when nothing is tracked.         *)
(* `older` orders ids of equal frequency by when they reached it.            *)
EXTENDS Naturals

CONSTANTS Ids, NoId

VARIABLES freq,    \* id -> frequency; 0 = not tracked
          older,   \* <<a, b>>: a reached its frequency before b did
          victim   \* the result of the last evict()

vars == <<freq, older, victim>>

Tracked == {i \in Ids : freq[i] # 0}

Init == freq = [i \in Ids |-> 0] /\ older = {} /\ victim = NoId

\* id leaves its place in the order; a new place behind every id of frequency f.
Unplace(id) == {p \in older : id # p[1] /\ id # p[2]}
PlaceLast(id, f) == {<<j, id>> : j \in {k \in Tracked \ {id} : freq[k] = f}}

Access(id) ==
    /\ id \in Tracked
    /\ freq' = [freq EXCEPT ![id] = @ + 1]
    /\ older' = Unplace(id) \cup PlaceLast(id, freq[id] + 1)
    /\ UNCHANGED victim

Insert(id) ==
    \/ Access(id)
    \/ /\ id \notin Tracked
       /\ freq' = [freq EXCEPT ![id] = 1]
       /\ older' = older \cup PlaceLast(id, 1)
       /\ UNCHANGED victim

Remove(id) ==
    /\ id \in Tracked
    /\ freq' = [freq EXCEPT ![id] = 0]
    /\ older' = Unplace(id)
    /\ UNCHANGED victim

Evict ==
    \/ /\ Tracked = {}
       /\ victim' = NoId
       /\ UNCHANGED <<freq, older>>
    \/ \E v \in Tracked :
          /\ \A j \in Tracked : freq[v] <= freq[j]
          /\ \A j \in Tracked : freq[j] = freq[v] => <<j, v>> \notin older
          /\ victim' = v
          /\ freq' = [freq EXCEPT ![v] = 0]
          /\ older' = Unplace(v)

Next == Evict \/ \E id \in Ids : Access(id) \/ Insert(id) \/ Remove(id)

Spec == Init /\ [][Next]_vars
=============================================================================
