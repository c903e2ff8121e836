----------------------------- MODULE MountTable -----------------------------
(* MountTable (master/mount_table.cpp, mount_table.h): the map mounts_ from *)
(* namespace path to UFS URI, its RocksDB copy, and Resolve.  Each method  *)
(* runs under mu_ and is one step; a method that returns an error changes  *)
(* nothing and is a stuttering step.  Paths are strings over a small       *)
(* alphabet, since Resolve works on their characters.                       *)
EXTENDS Naturals, Sequences

CONSTANTS Chars,       \* the alphabet, in ascending character order (a sequence)
          MountPaths,  \* paths that Mount may be given
          Uris,        \* UFS URIs that Mount may be given
          ValidUris,   \* those UfsFactory::Create accepts
          MaxLen,      \* longest path Resolve is asked about
          MaxCrashes,
          NONE

VARIABLES mounts,   \* mounts_: path -> URI, NONE = no entry
          db,       \* the mount_table RocksDB: path -> URI
          up,       \* the master process runs
          acked,    \* paths whose last Mount/Unmount returned OK was a Mount
          crashes

vars == <<mounts, db, up, acked, crashes>>

Mounted == {p \in MountPaths : mounts[p] # NONE}

Init ==
    /\ mounts = [p \in MountPaths |-> NONE]
    /\ db = [p \in MountPaths |-> NONE]
    /\ up = TRUE
    /\ acked = {}
    /\ crashes = 0

(* PersistMount (75-85) and PersistUnmount (87-96): one RocksDB write.    *)
PersistMount(p, u) == db' = [db EXCEPT ![p] = u]
PersistUnmount(p) == db' = [db EXCEPT ![p] = NONE]

(* Mount (98-125): AlreadyExists, an invalid URI and a failed Put return   *)
(* early; the DB is written before mounts_ changes.                         *)
\* Mutant: the entry is never written to RocksDB.
MountNoPersist(p, u) ==
    /\ up /\ mounts[p] = NONE /\ u \in ValidUris
    /\ mounts' = [mounts EXCEPT ![p] = u]
    /\ acked' = acked \cup {p}
    /\ UNCHANGED <<db, up, crashes>>

\* Mutant: the UfsFactory::Create check is dropped.
MountNoUriCheck(p, u) ==
    /\ up /\ mounts[p] = NONE
    /\ db' = [db EXCEPT ![p] = u]
    /\ mounts' = [mounts EXCEPT ![p] = u]
    /\ acked' = acked \cup {p}
    /\ UNCHANGED <<up, crashes>>

Mount(p, u) ==
    /\ up /\ mounts[p] = NONE /\ u \in ValidUris
    /\ PersistMount(p, u)
    /\ mounts' = [mounts EXCEPT ![p] = u]
    /\ acked' = acked \cup {p}
    /\ UNCHANGED <<up, crashes>>

(* Unmount (127-143): NotFound and a failed Delete return early.           *)
Unmount(p) ==
    /\ up /\ mounts[p] # NONE
    /\ PersistUnmount(p)
    /\ mounts' = [mounts EXCEPT ![p] = NONE]
    /\ acked' = acked \ {p}
    /\ UNCHANGED <<up, crashes>>

Crash ==
    /\ up /\ crashes < MaxCrashes
    /\ up' = FALSE
    /\ mounts' = [p \in MountPaths |-> NONE]
    /\ crashes' = crashes + 1
    /\ UNCHANGED <<db, acked>>

(* MasterServer::Start -> Init (22-45) -> LoadFromDb (47-73): every DB     *)
(* entry whose URI UfsFactory accepts is mounted again; others are skipped. *)
Restart ==
    /\ ~up
    /\ up' = TRUE
    /\ mounts' = [p \in MountPaths |-> IF db[p] \in ValidUris THEN db[p] ELSE NONE]
    /\ UNCHANGED <<db, acked, crashes>>

Next ==
    \/ \E p \in MountPaths, u \in Uris : Mount(p, u)
    \/ \E p \in MountPaths : Unmount(p)
    \/ Crash
    \/ Restart

Spec == Init /\ [][Next]_vars

-----------------------------------------------------------------------------
(* Resolve (145-172).  std::map iterates its keys in std::string order;    *)
(* reverse iteration returns the greatest key that matches.                 *)
Rank(c) == CHOOSE k \in 1..Len(Chars) : Chars[k] = c

\* std::string::compare(s, t) < 0
StrLess(s, t) ==
    \/ Len(s) < Len(t) /\ SubSeq(t, 1, Len(s)) = s
    \/ \E k \in 1..Len(s) :
          /\ k <= Len(t)
          /\ SubSeq(s, 1, k - 1) = SubSeq(t, 1, k - 1)
          /\ Rank(s[k]) < Rank(t[k])

\* The condition of lines 153-157: equal, or a prefix ending at a '/'.
Matches(m, p) ==
    \/ p = m
    \/ /\ Len(p) > Len(m)
       /\ SubSeq(p, 1, Len(m)) = m
       /\ (m[Len(m)] = "/" \/ p[Len(m) + 1] = "/")

\* Mutant: forward iteration, the least matching key.
ResolveForward(p) ==
    LET hits == {m \in Mounted : Matches(m, p)}
    IN  IF hits = {} THEN NONE
        ELSE CHOOSE m \in hits : \A m2 \in hits : m2 = m \/ StrLess(m, m2)

\* The mount Resolve picks for p, NONE for NotFound.
Resolve(p) ==
    LET hits == {m \in Mounted : Matches(m, p)}
    IN  IF hits = {} THEN NONE
        ELSE CHOOSE m \in hits : \A m2 \in hits : m2 = m \/ StrLess(m2, m)

\* Every path Resolve may be asked about: '/' followed by up to MaxLen - 1
\* characters.
Queries == {<<"/">> \o s : s \in UNION {[1..n -> {Chars[k] : k \in 1..Len(Chars)}] : n \in 0..MaxLen - 1}}

-----------------------------------------------------------------------------
TypeOK ==
    /\ mounts \in [MountPaths -> ValidUris \cup {NONE}]
    /\ db \in [MountPaths -> Uris \cup {NONE}]
    /\ acked \subseteq MountPaths

\* Spec 4.5 and scenario 7: Resolve is a longest-prefix match.  The code
\* takes the first match in reverse key order; whatever set of mounts the
\* Mount/Unmount/restart history left, that is the longest mount path that
\* equals the path or is a prefix of it ending at a '/'.
ResolveIsLongestMatch ==
    \A p \in Queries :
        LET hits == {m \in Mounted : Matches(m, p)}
        IN  IF hits = {} THEN Resolve(p) = NONE
            ELSE /\ Resolve(p) \in hits
                 /\ \A m \in hits : Len(m) <= Len(Resolve(p))

\* Spec 3 (mounts survive restart): while the master runs, the mounted
\* paths are exactly those whose last successful call was a Mount, across
\* crashes and reloads.
MountsMatchAcknowledged == up => Mounted = acked
=============================================================================
