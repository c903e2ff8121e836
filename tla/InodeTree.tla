------------------------------ MODULE InodeTree ------------------------------
(***************************************************************************)
(* The master's namespace: src/master/inode_tree.cpp in two-tier mode      *)
(* (a store is set), over the RocksDB inode store (inode_store.cpp).       *)
(*                                                                         *)
(* Every mutating call holds mu_ exclusively for its whole run, including  *)
(* the RocksDB commits, so each call is one action, except                 *)
(* CreateDirectory, which commits once per created level and can crash     *)
(* between levels: it runs one level per step with the lock held           *)
(* (`mkdir` records the loop state).  A commit may fail (RocksDB error),   *)
(* and the process may crash between any two steps; Recover rebuilds      *)
(* memory from the store.                                                  *)
(***************************************************************************)
EXTENDS Integers, SequencesExt

CONSTANTS
    Names,           \* path components (model values)
    NoName,          \* the empty name "" of the root and of a default Inode
    MaxDepth,        \* longest path, in components
    MaxId,           \* bound: largest id AllocateId may return
    IdBatch,         \* kIdAllocBatchSize
    FailingCommits,  \* which commits may fail: "cursor" (AllocateId), "op"
    MaxCrashes,      \* bound: master restarts per behaviour
    NONE

ASSUME IdBatch \in Nat \ {0} /\ FailingCommits \subseteq {"cursor", "op"}

VARIABLES
    dir_inodes,   \* InodeTree::dir_inodes_ (memory), NONE where absent
    next_id,      \* next_id_
    alloc_end,    \* alloc_end_
    inodes,       \* store: inodes column family, id -> record or NONE
    edges,        \* store: edges column family, <<parent, name>> -> child or 0
    cursor,       \* store: the persisted next-id cursor, 0 if never written
    mkdir,        \* CreateDirectory in progress (lock held), or NONE
    issued,       \* ids AllocateId has returned (history)
    crashes       \* restarts so far (bound only)

vars == <<dir_inodes, next_id, alloc_end, inodes, edges, cursor, mkdir,
          issued, crashes>>

RootId == 1
Ids == 0..MaxId                      \* 0 = kInvalidInodeId
AllNames == Names \cup {NoName}
Paths == UNION {[1..k -> Names] : k \in 1..MaxDepth}
NoChildren == [n \in Names |-> 0]

\* Inode as kept in dir_inodes_ and as stored (children only in memory).
MemInode == [is_directory : BOOLEAN, parent_id : Ids, name : AllNames,
             children : [Names -> Ids], is_complete : BOOLEAN]
StoreInode == [is_directory : BOOLEAN, parent_id : Ids, name : AllNames,
               is_complete : BOOLEAN]

\* A default-constructed Inode (inode_tree.h:19-37): what operator[] inserts.
DefaultInode == [is_directory |-> FALSE, parent_id |-> 0, name |-> NoName,
                 children |-> NoChildren, is_complete |-> TRUE]

RootInode == [DefaultInode EXCEPT !.is_directory = TRUE]

ToStore(i) == [is_directory |-> i.is_directory, parent_id |-> i.parent_id,
               name |-> i.name, is_complete |-> i.is_complete]

(* InodeStore (inode_store.cpp): `inodes` and `edges` are its two column  *)
(* families and `cursor` its next-id key.  Batch operations build the new *)
(* contents; CommitBatch (Outcomes) decides whether they are written.     *)
\* BatchPutInode (188-192): the serialized record under the inode's key.
BatchPutInode(s, id, inode) == [s EXCEPT ![id] = ToStore(inode)]

\* BatchDeleteInode (194-196), once per id of the batch.
BatchDeleteInodes(s, ids) == [i \in DOMAIN s |-> IF i \in ids THEN NONE ELSE s[i]]

\* BatchPutEdge (198-202): parent/name -> child.
BatchPutEdge(e, p, n, c) == [e EXCEPT ![<<p, n>>] = c]

\* BatchPutNextId (209-211).
BatchPutNextId(c, id) == id

\* GetNextId (159-173): the cursor value; 0 stands for NotFound.
GetNextId == cursor

\* ScanDirectoryInodes (223-254): ids of the stored records whose flags
\* byte marks a directory.
ScanDirectoryInodes == {i \in 1..MaxId : inodes[i] # NONE /\ inodes[i].is_directory}

\* ScanAllEdges (256-277): every stored <<parent, name, child>> edge.
ScanAllEdges == {<<e[1], e[2], edges[e]>> : e \in {k \in DOMAIN edges : edges[k] # 0}}

\* dir_inodes_[id]: the entry, inserting a default Inode if absent.
Touch(d, id) == IF d[id] = NONE THEN [d EXCEPT ![id] = DefaultInode] ELSE d

\* Commit outcomes allowed for each kind of batch.
Outcomes(kind) == IF kind \in FailingCommits THEN BOOLEAN ELSE {TRUE}

-----------------------------------------------------------------------------
(* Lookups.                                                                *)

\* ResolvePathLocked over the map d: each step on a directory entry.
RECURSIVE Walk(_, _, _)
Walk(d, cur, ps) ==
    IF ps = <<>> THEN cur
    ELSE IF d[cur] = NONE \/ ~d[cur].is_directory THEN NONE
    ELSE LET c == d[cur].children[Head(ps)]
         IN  IF c = 0 THEN NONE ELSE Walk(d, c, Tail(ps))

Resolve(path) == Walk(dir_inodes, RootId, path)

\* The parent loop of CreateFile, Delete and Rename: the entry must exist,
\* but its is_directory flag is not checked.
RECURSIVE WalkParent(_, _, _)
WalkParent(d, cur, ps) ==
    IF ps = <<>> THEN cur
    ELSE IF d[cur] = NONE THEN NONE
    ELSE LET c == d[cur].children[Head(ps)]
         IN  IF c = 0 THEN NONE ELSE WalkParent(d, c, Tail(ps))

ParentOf(d, path) == WalkParent(d, RootId, Front(path))

\* Ids reached from S through the children of entries present in d, as
\* CollectSubtreeForDeletion and RemoveDirSubtreeFromMemory recurse.
RECURSIVE Below(_, _)
Below(d, S) ==
    LET next == {d[x].children[n] : x \in {y \in S : d[y] # NONE}, n \in Names} \ {0}
    IN  IF next \subseteq S THEN S ELSE Below(d, S \cup next)

Subtree(id) == Below(dir_inodes, {id})

-----------------------------------------------------------------------------
(* AllocateId (lines 114-124): fetch_add, and every IdBatch ids a          *)
(* best-effort commit of the cursor whose failure is ignored.              *)
\* Mutant: the cursor is persisted at the id being handed out.
NewAllocEndNoBatch(id) == IF id >= alloc_end THEN id ELSE alloc_end

NewAllocEnd(id) == IF id >= alloc_end THEN id + IdBatch ELSE alloc_end

AllocateId(cursor_ok) ==
    LET id == next_id IN
    /\ next_id' = id + 1
    /\ alloc_end' = NewAllocEnd(id)
    /\ cursor' = IF id >= alloc_end /\ cursor_ok THEN BatchPutNextId(cursor, NewAllocEnd(id))
                  ELSE cursor
    /\ issued' = issued \cup {id}

Init ==
    \* Recover on an empty store: no cursor, so next_id_ = max dir id + 1,
    \* and the root is created and committed.
    /\ dir_inodes = [i \in Ids |-> IF i = RootId THEN RootInode ELSE NONE]
    /\ next_id = 2
    /\ alloc_end = 2
    /\ inodes = [i \in 1..MaxId |-> IF i = RootId THEN ToStore(RootInode) ELSE NONE]
    /\ edges = [e \in Ids \X Names |-> 0]
    /\ cursor = 0
    /\ mkdir = NONE
    /\ issued = {}
    /\ crashes = 0

\* Edge updates of a batch; a key outside the column family is a no-op.
EdgeDel(e, p, n) == IF <<p, n>> \in DOMAIN e THEN [e EXCEPT ![<<p, n>>] = 0] ELSE e
\* children.erase(name) on an entry.
EraseChild(i, n) == IF n \in Names THEN [i EXCEPT !.children[n] = 0] ELSE i

Frozen == <<next_id, alloc_end, cursor, issued>>

(* CreateFile (lines 245-306).  The parent is found without a type check;  *)
(* dir_inodes_[parent_id] then inserts a default entry if the parent is a  *)
(* file, which stays after the InvalidArgument return.  A failed commit    *)
(* leaves memory as it was but the id is spent.                            *)
CreateFile(path, cursor_ok, op_ok) ==
    /\ mkdir = NONE
    /\ ParentOf(dir_inodes, path) # NONE
    /\ LET pid  == ParentOf(dir_inodes, path)
           d    == Touch(dir_inodes, pid)
           name == Last(path)
       IN  IF ~d[pid].is_directory \/ d[pid].children[name] # 0
           THEN /\ dir_inodes' = d
                /\ UNCHANGED <<Frozen, inodes, edges>>
           ELSE /\ next_id <= MaxId
                /\ AllocateId(cursor_ok)
                /\ IF op_ok
                   THEN /\ inodes' = BatchPutInode(inodes, next_id,
                                        [DefaultInode EXCEPT !.parent_id = pid,
                                           !.name = name, !.is_complete = FALSE])
                        /\ edges' = BatchPutEdge(edges, pid, name, next_id)
                        /\ dir_inodes' = [d EXCEPT ![pid].children[name] = next_id]
                   ELSE /\ dir_inodes' = d
                        /\ UNCHANGED <<inodes, edges>>
    /\ UNCHANGED <<mkdir, crashes>>

(* CreateDirectory (lines 308-363): starts the walk from the root.  The    *)
(* bound reserves an id for every level it may create.                     *)
MkdirStart(path, recursive) ==
    /\ mkdir = NONE
    /\ next_id + Len(path) - 1 <= MaxId
    /\ mkdir' = [rest |-> path, cur |-> RootId, recursive |-> recursive]
    /\ UNCHANGED <<dir_inodes, Frozen, inodes, edges, crashes>>

(* One iteration of CreateDirectory's loop, on dir_inodes_[current].       *)
MkdirStep(cursor_ok, op_ok) ==
    /\ mkdir # NONE
    /\ LET cur  == mkdir.cur
           d    == Touch(dir_inodes, cur)
           n    == Head(mkdir.rest)
           last == Len(mkdir.rest) = 1
           c    == d[cur].children[n]
       IN  CASE ~d[cur].is_directory ->                       \* InvalidArgument
                  /\ dir_inodes' = d /\ mkdir' = NONE
                  /\ UNCHANGED <<Frozen, inodes, edges>>
             [] c # 0 ->                                      \* exists: descend
                  /\ dir_inodes' = d
                  /\ mkdir' = IF last THEN NONE                \* AlreadyExists
                              ELSE [mkdir EXCEPT !.cur = c, !.rest = Tail(@)]
                  /\ UNCHANGED <<Frozen, inodes, edges>>
             [] ~mkdir.recursive /\ ~last ->                  \* NotFound
                  /\ dir_inodes' = d /\ mkdir' = NONE
                  /\ UNCHANGED <<Frozen, inodes, edges>>
             [] OTHER ->
                  LET id  == next_id
                      new == [DefaultInode EXCEPT !.is_directory = TRUE,
                                                  !.parent_id = cur, !.name = n]
                  IN  /\ AllocateId(cursor_ok)
                      /\ IF op_ok
                         THEN /\ inodes' = BatchPutInode(inodes, id, new)
                              /\ edges' = BatchPutEdge(edges, cur, n, id)
                              /\ dir_inodes' = [d EXCEPT ![cur].children[n] = id,
                                                         ![id] = new]
                              /\ mkdir' = IF last THEN NONE
                                          ELSE [mkdir EXCEPT !.cur = id, !.rest = Tail(@)]
                         ELSE /\ dir_inodes' = d /\ mkdir' = NONE
                              /\ UNCHANGED <<inodes, edges>>
    /\ UNCHANGED crashes

(* Delete (lines 407-509).  is_dir is "has an entry in dir_inodes_"; a      *)
(* directory's parent comes from its entry, a file's from the path.  One   *)
(* batch deletes the target, its edge and, if recursive, the subtree.  A   *)
(* failed commit changes nothing and is not a separate step.               *)
Delete(path, recursive) ==
    /\ mkdir = NONE
    /\ Resolve(path) # NONE
    /\ LET id     == Resolve(path)
           is_dir == dir_inodes[id] # NONE
           pid    == IF is_dir THEN dir_inodes[id].parent_id ELSE ParentOf(dir_inodes, path)
           name   == Last(path)
           sub    == IF is_dir /\ recursive THEN Subtree(id) ELSE {id}
           subE   == {<<x, n>> \in sub \X Names :
                         is_dir /\ recursive /\ dir_inodes[x] # NONE
                         /\ dir_inodes[x].children[n] # 0}
       IN  /\ ~(is_dir /\ dir_inodes[id].children # NoChildren /\ ~recursive)
           /\ pid # NONE
           /\ inodes' = BatchDeleteInodes(inodes, sub)
           /\ edges' = [e \in DOMAIN edges |-> IF e \in subE THEN 0
                                               ELSE EdgeDel(edges, pid, name)[e]]
           /\ dir_inodes' =
                LET d1 == IF dir_inodes[pid] # NONE
                          THEN [dir_inodes EXCEPT ![pid] = EraseChild(@, name)]
                          ELSE dir_inodes
                IN  IF is_dir THEN [i \in Ids |-> IF i \in sub THEN NONE ELSE d1[i]]
                    ELSE d1
    /\ UNCHANGED <<Frozen, mkdir, crashes>>

(* A renamed directory's own entry takes its new name and parent.         *)
\* Mutant: only the parent is updated.
RenameEntryKeepName(d, sid, dpid, new) == [d EXCEPT ![sid].parent_id = dpid]

RenameEntry(d, sid, dpid, new) == [d EXCEPT ![sid].name = new, ![sid].parent_id = dpid]

(* Rename (lines 511-608).  dir_inodes_[dst_parent_id] inserts a default   *)
(* entry first.  Nothing stops a directory from being moved under itself. *)
(* The old edge is the one named by the source's entry (a directory) or   *)
(* by the source path (a file).  The memory update's operator[] on the old *)
(* parent inserts a default entry there too if it is missing.             *)
Rename(src, dst, op_ok) ==
    /\ mkdir = NONE
    /\ Resolve(src) # NONE
    /\ ParentOf(dir_inodes, dst) # NONE
    /\ LET sid  == Resolve(src)
           dpid == ParentOf(dir_inodes, dst)
           new  == Last(dst)
           d1   == Touch(dir_inodes, dpid)
           is_dir  == d1[sid] # NONE
           opid    == IF is_dir THEN d1[sid].parent_id ELSE ParentOf(d1, src)
           oname   == IF is_dir THEN d1[sid].name ELSE Last(src)
           rec     == IF is_dir THEN ToStore(d1[sid]) ELSE inodes[sid]
           proceed == /\ d1[dpid].is_directory /\ d1[dpid].children[new] = 0
                      /\ opid # NONE /\ rec # NONE /\ op_ok
       IN  IF ~proceed
           THEN /\ dir_inodes' = d1                  \* error return
                /\ UNCHANGED <<inodes, edges>>
           ELSE /\ inodes' = [inodes EXCEPT ![sid] = [rec EXCEPT !.parent_id = dpid,
                                                                 !.name = new]]
                /\ edges' = BatchPutEdge(EdgeDel(edges, opid, oname), dpid, new, sid)
                /\ dir_inodes' =
                     LET d2 == LET t == Touch(d1, opid)
                               IN  [t EXCEPT ![opid] = EraseChild(@, oname)]
                         d3 == [d2 EXCEPT ![dpid].children[new] = sid]
                     IN  IF is_dir THEN RenameEntry(d3, sid, dpid, new) ELSE d3
    /\ UNCHANGED <<Frozen, mkdir, crashes>>

(* CompleteFile (lines 365-391): read-modify-write of the stored record.   *)
CompleteFile(id) ==
    /\ mkdir = NONE
    /\ inodes[id] # NONE /\ ~inodes[id].is_directory
    /\ inodes' = [inodes EXCEPT ![id].is_complete = TRUE]
    /\ UNCHANGED <<dir_inodes, Frozen, edges, mkdir, crashes>>

(* UpdateSize (lines 610-644): an id with an entry in dir_inodes_ has     *)
(* that entry written to the store, whatever the store held; for other    *)
(* ids only the size changes, which the model does not track.             *)
UpdateSize(id) ==
    /\ mkdir = NONE
    /\ dir_inodes[id] # NONE
    /\ inodes' = BatchPutInode(inodes, id, dir_inodes[id])
    /\ UNCHANGED <<dir_inodes, Frozen, edges, mkdir, crashes>>

(* The master process dies (possibly inside CreateDirectory's loop) and    *)
(* restarts: InodeTree::Recover (lines 37-99) loads the directory inodes,  *)
(* links their children from the edges, takes next_id_ from the cursor or *)
(* else from the largest directory id, and creates the root if missing.   *)
\* Mutant: the fallback takes the largest directory id itself.
RecoveredNextIdNoIncrement ==
    IF GetNextId > 0 THEN GetNextId ELSE Max(ScanDirectoryInodes \cup {1})

RecoveredNextId == IF GetNextId > 0 THEN GetNextId
                   ELSE Max(ScanDirectoryInodes \cup {1}) + 1

Crash ==
    /\ crashes < MaxCrashes
    /\ LET dirs == ScanDirectoryInodes
           child(i, n) == IF \E c \in Ids : <<i, n, c>> \in ScanAllEdges
                          THEN CHOOSE c \in Ids : <<i, n, c>> \in ScanAllEdges ELSE 0
           load(i) == [is_directory |-> TRUE, parent_id |-> inodes[i].parent_id,
                       name |-> inodes[i].name, is_complete |-> inodes[i].is_complete,
                       children |-> [n \in Names |-> child(i, n)]]
       IN  /\ dir_inodes' = [i \in Ids |-> IF i \in dirs THEN load(i)
                                         ELSE IF i = RootId THEN RootInode ELSE NONE]
           /\ inodes' = IF RootId \in dirs THEN inodes
                        ELSE BatchPutInode(inodes, RootId, RootInode)
    /\ next_id' = RecoveredNextId
    /\ alloc_end' = RecoveredNextId
    /\ mkdir' = NONE
    /\ crashes' = crashes + 1
    /\ UNCHANGED <<edges, cursor, issued>>

-----------------------------------------------------------------------------
Next ==
    \/ \E p \in Paths, c \in Outcomes("cursor"), o \in Outcomes("op") : CreateFile(p, c, o)
    \/ \E p \in Paths, r \in BOOLEAN : MkdirStart(p, r)
    \/ \E c \in Outcomes("cursor"), o \in Outcomes("op") : MkdirStep(c, o)
    \/ \E p \in Paths, r \in BOOLEAN : Delete(p, r)
    \/ \E p, q \in Paths, o \in Outcomes("op") : Rename(p, q, o)
    \/ \E i \in issued : CompleteFile(i)
    \/ \E i \in 1..MaxId : UpdateSize(i)
    \/ Crash

Spec == Init /\ [][Next]_vars

-----------------------------------------------------------------------------
(* Properties.                                                             *)

TypeOK ==
    /\ dir_inodes \in [Ids -> MemInode \cup {NONE}]
    /\ inodes \in [1..MaxId -> StoreInode \cup {NONE}]
    /\ edges \in [Ids \X Names -> Ids]
    /\ next_id \in 2..MaxId + IdBatch /\ alloc_end \in Nat /\ cursor \in Nat
    /\ issued \subseteq 2..MaxId

\* Spec 8, allocator monotonicity: across creates interleaved with crashes
\* and failed commits, every id AllocateId hands out is above all ids it
\* handed out before, so ids are never reused.  This rests on the cursor
\* being persisted ahead of the ids before they are used and on Recover
\* restarting from it.
AllocatorMonotone == \A i \in issued : i < next_id

\* The directories in memory are exactly the directories in the store, with
\* the same parent and name, and each one's children map is exactly the
\* store's edges under it: every write commits first and then applies the
\* same change to memory, a failed commit changes neither, and Recover
\* rebuilds memory from the store.
DirMemoryMatchesStore ==
    \A i \in 1..MaxId :
      LET inMem == dir_inodes[i] # NONE /\ dir_inodes[i].is_directory
          inDb  == inodes[i] # NONE /\ inodes[i].is_directory
      IN  /\ inMem <=> inDb
          /\ inMem => /\ ToStore(dir_inodes[i]) = inodes[i]
                      /\ \A n \in Names : dir_inodes[i].children[n] = edges[<<i, n>>]

\* Spec 3: every edge on disk leads to an inode on disk.
EdgesHaveInodes ==
    \A e \in DOMAIN edges : edges[e] # 0 => inodes[edges[e]] # NONE

\* Every directory the master holds can be reached from the root.
DirsReachable ==
    \A i \in 1..MaxId :
      dir_inodes[i] # NONE /\ dir_inodes[i].is_directory => i \in Subtree(RootId)

=============================================================================
