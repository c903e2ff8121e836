------------------------------ MODULE DataMover ------------------------------
(* The worker's DataMover (src/unnamed/part_016, worker/data_mover.h): a   *)
(* queue tasks_ under mu_, worker threads running WorkerLoop, and two      *)
(* condition variables, cv_ (queue non-empty or stopping) and done_cv_     *)
(* (all tasks done).  One caller thread stands for the owner: it submits   *)
(* tasks (SubmitPreload/SubmitPersist), may call WaitAll, and may call     *)
(* Stop.                                                                   *)
(*                                                                         *)
(* A condition variable is a set of blocked threads.  cv.wait(lock, pred)  *)
(* is two steps: the predicate is evaluated holding mu_, then the thread   *)
(* releases mu_ and joins the set.  A notify removes threads from the set; *)
(* a removed thread takes mu_ again and re-evaluates the predicate.  Steps *)
(* the code runs without mu_ (running_ = false, active_tasks_--, and the   *)
(* notifies) may fall between the two.                                     *)
EXTENDS Naturals, Sequences, FiniteSets

CONSTANTS Workers,      \* the threads_ started by the constructor
          Caller,       \* the owner's thread
          MaxTasks,     \* bound on submitted tasks
          CallWaitAll,  \* whether the caller may call WaitAll
          CallStop,     \* whether the caller may call Stop
          NONE

VARIABLES mu,            \* holder of mu_, or NONE
          tasks,         \* tasks_: task numbers in FIFO order
          running,       \* running_
          active_tasks,  \* active_tasks_
          cv_waiters,    \* threads blocked in cv_.wait
          done_waiters,  \* threads blocked in done_cv_.wait
          pc,            \* program counter of each thread
          cur,           \* the task a worker thread holds, or 0
          nsub,          \* tasks submitted so far (history)
          run            \* tasks whose ExecuteTask has finished (history)

vars == <<mu, tasks, running, active_tasks, cv_waiters, done_waiters, pc, cur,
          nsub, run>>

Threads == Workers \cup {Caller}

Init ==
    /\ mu = NONE
    /\ tasks = <<>>
    /\ running = TRUE
    /\ active_tasks = 0
    /\ cv_waiters = {}
    /\ done_waiters = {}
    /\ pc = [t \in Threads |-> IF t = Caller THEN "idle" ELSE "loop"]
    /\ cur = [w \in Workers |-> 0]
    /\ nsub = 0
    /\ run = {}

Free(t) == mu = NONE /\ t \notin cv_waiters \cup done_waiters
Goto(t, l) == pc' = [pc EXCEPT ![t] = l]

-----------------------------------------------------------------------------
(* The caller.                                                             *)

(* SubmitPreload / SubmitPersist (lines 33-73): push under mu_.  Allowed   *)
(* after Stop as well: WorkerServer::Stop stops the mover before it shuts  *)
(* down gRPC, so a CacheBlock RPC can still submit.                        *)
Submit ==
    /\ pc[Caller] \in {"idle", "stopped"} /\ Free(Caller)
    /\ nsub < MaxTasks
    /\ tasks' = Append(tasks, nsub + 1)
    /\ nsub' = nsub + 1
    /\ Goto(Caller, IF pc[Caller] = "idle" THEN "notify" ELSE "notify_stopped")
    /\ UNCHANGED <<mu, running, active_tasks, cv_waiters, done_waiters, cur, run>>

(* cv_.notify_one() after the lock is released: one blocked thread, if     *)
(* any, is woken.                                                          *)
NotifyOne ==
    /\ pc[Caller] \in {"notify", "notify_stopped"}
    /\ \/ cv_waiters = {} /\ UNCHANGED cv_waiters
       \/ \E x \in cv_waiters : cv_waiters' = cv_waiters \ {x}
    /\ Goto(Caller, IF pc[Caller] = "notify" THEN "idle" ELSE "stopped")
    /\ UNCHANGED <<mu, tasks, running, active_tasks, done_waiters, cur, nsub, run>>

StartWaitAll ==
    /\ CallWaitAll /\ pc[Caller] = "idle"
    /\ Goto(Caller, "wa_check")
    /\ UNCHANGED <<mu, tasks, running, active_tasks, cv_waiters, done_waiters,
                   cur, nsub, run>>

(* WaitAll's predicate (line 77).                                          *)
\* Mutant: the in-flight count is not consulted.
AllDoneQueueOnly == tasks = <<>>

AllDone == tasks = <<>> /\ active_tasks = 0

(* WaitAll (lines 75-78): with mu_ held, return if the predicate holds,    *)
(* else keep mu_ and go on to block.                                       *)
WaitAllCheck ==
    /\ pc[Caller] = "wa_check" /\ Free(Caller)
    /\ IF AllDone THEN Goto(Caller, "idle") /\ UNCHANGED mu
       ELSE Goto(Caller, "wa_block") /\ mu' = Caller
    /\ UNCHANGED <<tasks, running, active_tasks, cv_waiters, done_waiters, cur,
                   nsub, run>>

WaitAllBlock ==
    /\ pc[Caller] = "wa_block"
    /\ done_waiters' = done_waiters \cup {Caller}
    /\ mu' = NONE
    /\ Goto(Caller, "wa_check")
    /\ UNCHANGED <<tasks, running, active_tasks, cv_waiters, cur, nsub, run>>

(* Stop (lines 80-88): running_ = false and cv_.notify_all() without mu_,  *)
(* then join every thread.                                                 *)
StopSet ==
    /\ CallStop /\ pc[Caller] = "idle"
    /\ running' = FALSE
    /\ Goto(Caller, "st_notify")
    /\ UNCHANGED <<mu, tasks, active_tasks, cv_waiters, done_waiters, cur, nsub, run>>

StopNotify ==
    /\ pc[Caller] = "st_notify"
    /\ cv_waiters' = {}
    /\ Goto(Caller, "st_join")
    /\ UNCHANGED <<mu, tasks, running, active_tasks, done_waiters, cur, nsub, run>>

StopJoin ==
    /\ pc[Caller] = "st_join"
    /\ \A w \in Workers : pc[w] = "exit"
    /\ Goto(Caller, "stopped")
    /\ UNCHANGED <<mu, tasks, running, active_tasks, cv_waiters, done_waiters,
                   cur, nsub, run>>

-----------------------------------------------------------------------------
(* A worker thread: WorkerLoop (lines 95-116).                             *)

(* while (running_): the loop condition, read without mu_.                *)
LoopTest(w) ==
    /\ pc[w] = "loop"
    /\ Goto(w, IF running THEN "check" ELSE "exit")
    /\ UNCHANGED <<mu, tasks, running, active_tasks, cv_waiters, done_waiters,
                   cur, nsub, run>>

(* cv_'s predicate (line 100).                                             *)
\* Mutant: a queued task does not satisfy the predicate.
HasWorkStopOnly == ~running

HasWork == tasks # <<>> \/ ~running

(* Lines 103-105: pop the front and count it as active.                    *)
\* Mutant: the task is popped without active_tasks_++.
DequeueNoCount(w) ==
    /\ tasks' = Tail(tasks)
    /\ cur' = [cur EXCEPT ![w] = Head(tasks)]
    /\ UNCHANGED active_tasks

Dequeue(w) ==
    /\ tasks' = Tail(tasks)
    /\ cur' = [cur EXCEPT ![w] = Head(tasks)]
    /\ active_tasks' = active_tasks + 1

(* With mu_ held (lines 99-106): block if the predicate fails; return if   *)
(* stopping with an empty queue; otherwise take the front task.           *)
WorkerCheck(w) ==
    /\ pc[w] = "check" /\ Free(w)
    /\ \/ /\ ~HasWork
          /\ mu' = w /\ Goto(w, "block")
          /\ UNCHANGED <<tasks, active_tasks, cur>>
       \/ /\ HasWork /\ ~running /\ tasks = <<>>
          /\ Goto(w, "exit")
          /\ UNCHANGED <<mu, tasks, active_tasks, cur>>
       \/ /\ HasWork /\ tasks # <<>>
          /\ Dequeue(w) /\ Goto(w, "exec")
          /\ UNCHANGED mu
    /\ UNCHANGED <<running, cv_waiters, done_waiters, nsub, run>>

(* Inside cv_.wait: release mu_ and block.                                 *)
WorkerBlock(w) ==
    /\ pc[w] = "block"
    /\ cv_waiters' = cv_waiters \cup {w}
    /\ mu' = NONE
    /\ Goto(w, "check")
    /\ UNCHANGED <<tasks, running, active_tasks, done_waiters, cur, nsub, run>>

(* ExecuteTask (lines 108-111), without mu_.  Its BlockStore and UFS calls *)
(* are modelled in BlockStore; a failure is only logged, so the task is    *)
(* finished either way.                                                    *)
Execute(w) ==
    /\ pc[w] = "exec"
    /\ run' = run \cup {cur[w]}
    /\ Goto(w, "dec")
    /\ UNCHANGED <<mu, tasks, running, active_tasks, cv_waiters, done_waiters,
                   cur, nsub>>

(* active_tasks_-- (line 113), an atomic without mu_.                      *)
Decrement(w) ==
    /\ pc[w] = "dec"
    /\ active_tasks' = active_tasks - 1
    /\ cur' = [cur EXCEPT ![w] = 0]
    /\ Goto(w, "notify")
    /\ UNCHANGED <<mu, tasks, running, cv_waiters, done_waiters, nsub, run>>

(* done_cv_.notify_all() (line 114), without mu_.                          *)
NotifyDone(w) ==
    /\ pc[w] = "notify"
    /\ done_waiters' = {}
    /\ Goto(w, "loop")
    /\ UNCHANGED <<mu, tasks, running, active_tasks, cv_waiters, cur, nsub, run>>

Worker(w) == LoopTest(w) \/ WorkerCheck(w) \/ WorkerBlock(w) \/ Execute(w)
             \/ Decrement(w) \/ NotifyDone(w)

(* The caller's steps once it is inside a call; starting a call is its own *)
(* choice.                                                                 *)
CallerInCall == NotifyOne \/ WaitAllCheck \/ WaitAllBlock \/ StopNotify \/ StopJoin

Next ==
    \/ Submit
    \/ NotifyOne
    \/ StartWaitAll
    \/ WaitAllCheck
    \/ WaitAllBlock
    \/ StopSet
    \/ StopNotify
    \/ StopJoin
    \/ \E w \in Workers : LoopTest(w)
    \/ \E w \in Workers : WorkerCheck(w)
    \/ \E w \in Workers : WorkerBlock(w)
    \/ \E w \in Workers : Execute(w)
    \/ \E w \in Workers : Decrement(w)
    \/ \E w \in Workers : NotifyDone(w)

(* Every runnable thread is eventually scheduled (weak fairness of each    *)
(* thread); a thread blocked on a condition variable is not runnable, so   *)
(* nothing obliges a notify to reach it.                                   *)
Fairness == /\ \A w \in Workers : WF_vars(Worker(w))
            /\ WF_vars(CallerInCall)

Spec == Init /\ [][Next]_vars /\ Fairness

-----------------------------------------------------------------------------
(* Properties.                                                             *)

TypeOK ==
    /\ mu \in Threads \cup {NONE}
    /\ tasks \in Seq(1..MaxTasks)
    /\ running \in BOOLEAN
    /\ active_tasks \in 0..Cardinality(Workers)
    /\ cv_waiters \subseteq Workers /\ done_waiters \subseteq {Caller}
    /\ cur \in [Workers -> 0..MaxTasks]
    /\ nsub \in 0..MaxTasks /\ run \subseteq 1..MaxTasks

\* WaitAll returns only when every task submitted before it (by the caller)
\* has finished executing, including the ones a worker has already popped
\* from tasks_ but not yet run.
WaitAllMeansDone ==
    [][pc[Caller] = "wa_check" /\ pc'[Caller] = "idle" => 1..nsub \subseteq run']_vars

\* While the mover is running, every submitted task is eventually executed:
\* a push under mu_ cannot fall between a worker's predicate check and its
\* block, so notify_one always finds the blocked worker.
TasksEventuallyRun ==
    \A i \in 1..MaxTasks : (nsub >= i) ~> (i \in run \/ ~running)

\* A WaitAll call eventually returns.
WaitAllReturns == (pc[Caller] \in {"wa_check", "wa_block"}) ~> (pc[Caller] = "idle")

\* A Stop call eventually returns: every worker thread is joined.
StopReturns == (pc[Caller] = "st_notify") ~> (pc[Caller] = "stopped")

\* Spec 4.4.5: stop() discards pending tasks, so no task is taken from the
\* queue once Stop has begun.
NoStartAfterStop == [][~running => Len(tasks') >= Len(tasks) \/ nsub' > nsub]_vars
=============================================================================
