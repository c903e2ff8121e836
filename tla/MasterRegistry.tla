---------------------------- MODULE MasterRegistry ----------------------------
(* The master's worker registry (WorkerManager, master/worker_manager.cpp) *)
(* and block-location map (BlockMaster, block_master.cpp in               *)
(* fuse/fuse_operations.h), the heartbeat checker (MasterServer::          *)
(* HeartbeatCheckLoop, unnamed/part_010), and the worker nodes that talk  *)
(* to them (WorkerServer::Start and HeartbeatLoop, the location report of *)
(* WorkerServiceImpl::WriteBlock and CacheBlock).                          *)
(*                                                                         *)
(* Each master call runs under its component's mutex and is one step.     *)
(* Location reports are RPCs whose processing at the master may be        *)
(* delayed past other steps; registration is a synchronous RPC that may   *)
(* fail before or after the master processed it.  Time is abstracted to  *)
(* `Expire`: an alive worker's last heartbeat becomes older than the      *)
(* timeout.                                                                *)
EXTENDS Naturals, FiniteSets

CONSTANTS Nodes,            \* worker processes, identified by their address
          Blocks,           \* block ids
          MaxWid,           \* bound on worker ids handed out
          Capacity,         \* capacity_bytes every worker reports
          UsedValues,       \* used_bytes values a worker may report
          WordBits,         \* width of uint64_t, scaled down
          RegisterFailures, \* subset of {"request", "reply"}: lost halves of the RPC
          MaxCrashes,       \* bound on worker process restarts
          NONE

WIds == 1..MaxWid
InvalidWid == 0            \* kInvalidWorkerId

VARIABLES
    workers,          \* WorkerManager::workers_: id -> [addr, alive, expired, used] or NONE
    next_wid,         \* WorkerManager::next_id_
    block_locations,  \* BlockMaster::block_locations_: block -> set of worker ids
    worker_blocks,    \* BlockMaster::worker_blocks_: worker id -> set of blocks
    chk_pending,      \* ids CheckHeartbeats returned whose RemoveWorkerBlocks is still to come
    up,               \* the worker process is running
    wid,              \* WorkerServer::worker_id_
    svc_wid,          \* WorkerServiceImpl::worker_id_, copied at Start
    held,             \* blocks in the node's BlockStore
    net,              \* ReportBlockLocation requests not yet processed: <<block, wid>>
    deleted,          \* blocks whose file was deleted (history)
    selected,         \* the id SelectWorkerForWrite last returned
    crashes

vars == <<workers, next_wid, block_locations, worker_blocks, chk_pending, up,
          wid, svc_wid, held, net, deleted, selected, crashes>>
master == <<workers, next_wid, block_locations, worker_blocks, chk_pending>>
node == <<up, wid, svc_wid, held, crashes>>

WorkerState == [addr : Nodes, alive : BOOLEAN, expired : BOOLEAN, used : UsedValues]

Registered == {i \in WIds : workers[i] # NONE}
Alive(i) == workers[i] # NONE /\ workers[i].alive

Init ==
    /\ workers = [i \in WIds |-> NONE]
    /\ next_wid = 1
    /\ block_locations = [b \in Blocks |-> {}]
    /\ worker_blocks = [i \in WIds |-> {}]
    /\ chk_pending = {}
    /\ up = [n \in Nodes |-> FALSE]
    /\ wid = [n \in Nodes |-> InvalidWid]
    /\ svc_wid = [n \in Nodes |-> InvalidWid]
    /\ held = [n \in Nodes |-> {}]
    /\ net = {}
    /\ deleted = {}
    /\ selected = InvalidWid
    /\ crashes = 0

-----------------------------------------------------------------------------
(* WorkerManager.                                                          *)

(* RegisterWorker (worker_manager.cpp 15-47): an address already in       *)
(* workers_ gets its old id back, refreshed and alive; otherwise a new id. *)
\* Mutant: the re-registration scan is skipped.
RegisterNoLookup(n, u) ==
    LET id == next_wid IN
    /\ workers' = [workers EXCEPT ![id] =
                     [addr |-> n, alive |-> TRUE, expired |-> FALSE, used |-> u]]
    /\ next_wid' = next_wid + 1

RegisterWorker(n, u) ==
    IF \E i \in Registered : workers[i].addr = n
    THEN LET id == CHOOSE i \in Registered : workers[i].addr = n IN
         /\ workers' = [workers EXCEPT ![id] =
                          [@ EXCEPT !.alive = TRUE, !.expired = FALSE, !.used = u]]
         /\ UNCHANGED next_wid
    ELSE LET id == next_wid IN
         /\ workers' = [workers EXCEPT ![id] =
                          [addr |-> n, alive |-> TRUE, expired |-> FALSE, used |-> u]]
         /\ next_wid' = next_wid + 1

\* The id RegisterWorker returns, evaluated in the state after it.
IdOf(n) == CHOOSE i \in {j \in WIds : workers'[j] # NONE /\ workers'[j].addr = n} : TRUE

(* Heartbeat (49-60).                                                      *)
\* Mutant: a heartbeat refreshes the time but does not revive.
HeartbeatNoRevive(id, u) ==
    workers' = [workers EXCEPT ![id] = [@ EXCEPT !.expired = FALSE, !.used = u]]

Heartbeat(id, u) ==
    workers' = [workers EXCEPT ![id] = [@ EXCEPT !.alive = TRUE, !.expired = FALSE,
                                                   !.used = u]]

(* SelectWorkerForWrite (81-102): capacity - used in uint64_t; the first   *)
(* id in the map's (unspecified) order with a strictly larger value wins.  *)
Avail(i) == (Capacity - workers[i].used) % (2^WordBits)

SelectWorkerForWrite ==
    LET live == {i \in Registered : workers[i].alive}
        best == {i \in live : Avail(i) > 0 /\ \A j \in live : Avail(j) <= Avail(i)}
    IN  IF best = {} THEN {InvalidWid} ELSE best

-----------------------------------------------------------------------------
(* BlockMaster (block_master.cpp, in fuse/fuse_operations.h 80-199).       *)

(* AddBlockLocation (100-121): no check that the worker is alive.          *)
AddBlockLocation(b, id) ==
    /\ block_locations' = [block_locations EXCEPT ![b] = @ \cup {id}]
    /\ worker_blocks' = [worker_blocks EXCEPT ![id] = @ \cup {b}]

(* RemoveWorkerBlocks (145-166).                                           *)
RemoveWorkerBlocks(id) ==
    /\ block_locations' = [b \in Blocks |->
                             IF b \in worker_blocks[id] THEN block_locations[b] \ {id}
                             ELSE block_locations[b]]
    /\ worker_blocks' = [worker_blocks EXCEPT ![id] = {}]

(* RemoveBlock (168-181).                                                  *)
\* Mutant: the reverse index is left alone.
RemoveBlockKeepIndex(b) ==
    /\ block_locations' = [block_locations EXCEPT ![b] = {}]
    /\ UNCHANGED worker_blocks

RemoveBlock(b) ==
    /\ block_locations' = [block_locations EXCEPT ![b] = {}]
    /\ worker_blocks' = [i \in WIds |-> worker_blocks[i] \ {b}]

-----------------------------------------------------------------------------
(* Worker nodes.                                                           *)

(* A RegisterWorker RPC from node n: lost before the master (no effect),  *)
(* lost after it (registered, but the caller sees an error), or answered. *)
RegisterOutcomes == {"ok"} \cup RegisterFailures

RegisterRpc(n, u, outcome) ==
    /\ IF outcome = "request"
       THEN UNCHANGED <<workers, next_wid>>
       ELSE /\ (\E i \in Registered : workers[i].addr = n) \/ next_wid <= MaxWid
            /\ RegisterWorker(n, u)
    /\ wid' = [wid EXCEPT ![n] = IF outcome = "ok" THEN IdOf(n) ELSE InvalidWid]

(* WorkerServer::Start (worker_server.cpp 59-93): register, then hand the *)
(* id to WorkerServiceImpl, which keeps its own copy.  A restarted        *)
(* process has an empty BlockStore.                                        *)
Start(n, u, outcome) ==
    /\ ~up[n]
    /\ RegisterRpc(n, u, outcome)
    /\ svc_wid' = [svc_wid EXCEPT ![n] = wid'[n]]
    /\ up' = [up EXCEPT ![n] = TRUE]
    /\ UNCHANGED <<block_locations, worker_blocks, chk_pending, held, net, deleted,
                   selected, crashes>>

(* HeartbeatLoop (147-179), one tick: register if Start failed to, else   *)
(* send a heartbeat.  The service's copy of the id is not updated.         *)
LateRegister(n, u, outcome) ==
    /\ up[n] /\ wid[n] = InvalidWid
    /\ RegisterRpc(n, u, outcome)
    /\ UNCHANGED <<block_locations, worker_blocks, chk_pending, up, svc_wid, held,
                   net, deleted, selected, crashes>>

SendHeartbeat(n, u) ==
    /\ up[n] /\ wid[n] # InvalidWid
    /\ Heartbeat(wid[n], u)
    /\ UNCHANGED <<next_wid, block_locations, worker_blocks, chk_pending, node, net,
                   deleted, selected>>

(* WriteBlock / CacheBlock (worker_service_impl.cpp 53-59, 136-140): the  *)
(* block enters the BlockStore and, if the service's id is valid, its      *)
(* location is reported.  A block id belongs to one file, so a block of a *)
(* deleted file is never written again.                                    *)
\* Mutant: the report is sent without checking the id.
WriteBlockNoIdCheck(n, b) ==
    /\ up[n] /\ b \notin held[n] /\ b \notin deleted
    /\ held' = [held EXCEPT ![n] = @ \cup {b}]
    /\ net' = net \cup {<<b, svc_wid[n]>>}
    /\ UNCHANGED <<master, up, wid, svc_wid, deleted, selected, crashes>>

WriteBlock(n, b) ==
    /\ up[n] /\ b \notin held[n] /\ b \notin deleted
    /\ held' = [held EXCEPT ![n] = @ \cup {b}]
    /\ net' = IF svc_wid[n] # InvalidWid THEN net \cup {<<b, svc_wid[n]>>} ELSE net
    /\ UNCHANGED <<master, up, wid, svc_wid, deleted, selected, crashes>>

(* Eviction or RemoveBlock at the worker: nothing is reported.             *)
DropBlock(n, b) ==
    /\ up[n] /\ b \in held[n]
    /\ held' = [held EXCEPT ![n] = @ \ {b}]
    /\ UNCHANGED <<master, up, wid, svc_wid, net, deleted, selected, crashes>>

Crash(n) ==
    /\ up[n] /\ crashes < MaxCrashes
    /\ up' = [up EXCEPT ![n] = FALSE]
    /\ wid' = [wid EXCEPT ![n] = InvalidWid]
    /\ svc_wid' = [svc_wid EXCEPT ![n] = InvalidWid]
    /\ held' = [held EXCEPT ![n] = {}]
    /\ crashes' = crashes + 1
    /\ UNCHANGED <<master, net, deleted, selected>>

-----------------------------------------------------------------------------
(* The master's handlers and its checker thread.                          *)

(* MasterServiceImpl::ReportBlockLocation -> FileSystemMaster::           *)
(* ReportBlockLocation (file_system_master.cpp 121-125).                   *)
DeliverReport(m) ==
    /\ m \in net
    /\ AddBlockLocation(m[1], m[2])
    /\ net' = net \ {m}
    /\ UNCHANGED <<workers, next_wid, chk_pending, node, deleted, selected>>

(* The report RPC fails; WriteBlock ignores its status and never retries. *)
LoseReport(m) ==
    /\ m \in net
    /\ net' = net \ {m}
    /\ UNCHANGED <<master, node, deleted, selected>>

(* Time passes: an alive worker's last heartbeat is older than the timeout. *)
Expire(id) ==
    /\ Alive(id) /\ ~workers[id].expired
    /\ workers' = [workers EXCEPT ![id].expired = TRUE]
    /\ UNCHANGED <<next_wid, block_locations, worker_blocks, chk_pending, node, net,
                   deleted, selected>>

(* HeartbeatCheckLoop (part_010 85-97): CheckHeartbeats (worker_manager    *)
(* 104-117) marks the timed-out workers dead under the WorkerManager lock; *)
(* RemoveWorkerBlocks then runs for each of them, under the BlockMaster    *)
(* lock, as separate steps.                                                *)
CheckHeartbeats ==
    /\ chk_pending = {}
    /\ LET dead == {i \in Registered : workers[i].alive /\ workers[i].expired}
       IN  /\ dead # {}
           /\ workers' = [i \in WIds |-> IF i \in dead
                                         THEN [workers[i] EXCEPT !.alive = FALSE]
                                         ELSE workers[i]]
           /\ chk_pending' = dead
    /\ UNCHANGED <<next_wid, block_locations, worker_blocks, node, net, deleted, selected>>

PurgeWorker(id) ==
    /\ id \in chk_pending
    /\ RemoveWorkerBlocks(id)
    /\ chk_pending' = chk_pending \ {id}
    /\ UNCHANGED <<workers, next_wid, node, net, deleted, selected>>

(* FileSystemMaster::DeleteFile (53-66): the file's blocks are removed    *)
(* from the location map; the workers keep their bytes.                    *)
DeleteFileBlocks(b) ==
    /\ b \notin deleted
    /\ RemoveBlock(b)
    /\ deleted' = deleted \cup {b}
    /\ UNCHANGED <<workers, next_wid, chk_pending, node, net, selected>>

(* FileSystemMaster::TruncateFile (90-111) shrinking the file below the   *)
(* block's start: its location is removed, the worker keeps the bytes and *)
(* a later write of the file may bring the block back.                     *)
TruncateFileBlocks(b) ==
    /\ b \notin deleted
    /\ RemoveBlock(b)
    /\ UNCHANGED <<workers, next_wid, chk_pending, node, net, deleted, selected>>

(* FileSystemMaster::CreateFile (33-46): the worker to write to.           *)
SelectForCreate ==
    /\ \E i \in SelectWorkerForWrite : selected' = i
    /\ UNCHANGED <<master, node, net, deleted>>

-----------------------------------------------------------------------------
Next ==
    \/ \E n \in Nodes, u \in UsedValues, o \in RegisterOutcomes : Start(n, u, o)
    \/ \E n \in Nodes, u \in UsedValues, o \in RegisterOutcomes : LateRegister(n, u, o)
    \/ \E n \in Nodes, u \in UsedValues : SendHeartbeat(n, u)
    \/ \E n \in Nodes, b \in Blocks : WriteBlock(n, b)
    \/ \E n \in Nodes, b \in Blocks : DropBlock(n, b)
    \/ \E n \in Nodes : Crash(n)
    \/ \E m \in net : DeliverReport(m)
    \/ \E m \in net : LoseReport(m)
    \/ \E i \in WIds : Expire(i)
    \/ CheckHeartbeats
    \/ \E i \in WIds : PurgeWorker(i)
    \/ \E b \in Blocks : DeleteFileBlocks(b)
    \/ \E b \in Blocks : TruncateFileBlocks(b)
    \/ SelectForCreate

(* The heartbeat thread ticks every 10 s and the checker every 5 s while  *)
(* their process runs, and a report RPC that was sent is processed by the *)
(* master unless it is lost; registration eventually gets through.  The   *)
(* environment's steps (writes, drops, crashes, timeouts, deletes) are not *)
(* fair.                                                                   *)
Fairness ==
    /\ \A n \in Nodes : WF_vars(\E u \in UsedValues : SendHeartbeat(n, u))
    /\ \A n \in Nodes : WF_vars(\E u \in UsedValues : LateRegister(n, u, "ok"))
    /\ \A m \in (Blocks \X WIds) : WF_vars(DeliverReport(m))
    /\ WF_vars(CheckHeartbeats)
    /\ \A i \in WIds : WF_vars(PurgeWorker(i))

Spec == Init /\ [][Next]_vars /\ Fairness

-----------------------------------------------------------------------------
(* Properties.                                                             *)

TypeOK ==
    /\ workers \in [WIds -> WorkerState \cup {NONE}]
    /\ next_wid \in 1..MaxWid + 1
    /\ block_locations \in [Blocks -> SUBSET WIds]
    /\ worker_blocks \in [WIds -> SUBSET Blocks]
    /\ chk_pending \subseteq WIds
    /\ wid \in [Nodes -> {InvalidWid} \cup WIds]
    /\ svc_wid \in [Nodes -> {InvalidWid} \cup WIds]
    /\ held \in [Nodes -> SUBSET Blocks]
    /\ net \subseteq Blocks \X WIds

\* Spec 4.5: re-registration by address is idempotent.  Across lost
\* replies, retried registrations and restarts, no address ever holds two
\* worker ids.
OneIdPerAddress ==
    \A i, j \in Registered : workers[i].addr = workers[j].addr => i = j

\* block_locations_ and its reverse index worker_blocks_ describe the same
\* relation after every BlockMaster call, whichever of the four runs.
BlockIndexConsistent ==
    \A b \in Blocks, i \in WIds : i \in block_locations[b] <=> b \in worker_blocks[i]

\* A running worker process is eventually registered and alive at the
\* master, whatever timeouts and failed registrations happen.
WorkerEventuallyAlive ==
    \A n \in Nodes : up[n] ~> (~up[n] \/ (wid[n] # InvalidWid /\ Alive(wid[n])))

\* Spec 4.5 and 8 (scenario 8): a worker pronounced dead loses its block
\* locations; spec 3 allows the master to hold stale locations only
\* temporarily.  A location naming a dead worker is eventually dropped,
\* unless the worker comes back.
DeadLocationsDropped ==
    \A b \in Blocks, i \in WIds :
        (i \in block_locations[b] /\ workers[i] # NONE /\ ~workers[i].alive)
          ~> (i \notin block_locations[b] \/ Alive(i))

\* Spec 4.5 (deletions): DeleteFile removes the file's blocks from the
\* location map; a stale entry for a deleted block is eventually gone.
DeletedLocationsDropped ==
    \A b \in Blocks : (b \in deleted /\ block_locations[b] # {}) ~> (block_locations[b] = {})

\* Spec 2 (block locations are rebuilt by worker re-registration): a block
\* an alive, registered worker keeps is eventually listed at that worker.
LocationsEventuallyKnown ==
    \A n \in Nodes, b \in Blocks :
        (up[n] /\ wid[n] # InvalidWid /\ Alive(wid[n]) /\ b \in held[n])
          ~> (wid[n] \in block_locations[b] \/ ~up[n] \/ b \notin held[n] \/ b \in deleted
              \/ ~Alive(wid[n]))

=============================================================================
