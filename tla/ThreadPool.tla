------------------------------ MODULE ThreadPool ------------------------------
(***************************************************************************)
(* base::ThreadPool (code/cyber/base/thread_pool.h): workers that take     *)
(* tasks from a BoundedQueue with a BlockWaitStrategy, and a destructor    *)
(* that stops and joins them.  The dequeuers of WaitQueue are the workers, *)
(* its enqueuers the threads that call ThreadPool::Enqueue().              *)
(***************************************************************************)
EXTENDS WaitQueue

CONSTANT None      \* no task

VARIABLES
    stop_,
    running,       \* the task each worker has taken
    exited,        \* workers that left their loop
    destructor     \* "no", "break" (stop_ set), "join", "done"

poolVars == <<queue, waitVars, pc, calls, stop_, running, exited, destructor>>

PoolInit ==
    /\ Init
    /\ stop_ = FALSE
    /\ running = [w \in Dequeuer |-> None]
    /\ exited = {}
    /\ destructor = "no"

\* while (!stop_): leave, or call WaitDequeue().
WorkerLoop(w) ==
    /\ pc[w] = "idle" /\ w \notin exited /\ running[w] = None
    /\ IF stop_ THEN exited' = exited \cup {w} /\ UNCHANGED pc
                ELSE Goto(w, "loop") /\ UNCHANGED exited
    /\ UNCHANGED <<queue, waitVars, calls, stop_, running, destructor>>

\* WaitDequeue(&task).
WorkerWait(w) ==
    /\ \/ LoopTest(w) /\ UNCHANGED running
       \/ EmptyWait(w) /\ UNCHANGED running
       \/ /\ TryDequeue(w)
          /\ running' = [running EXCEPT ![w] =
                           IF queue # <<>> THEN Head(queue) ELSE None]
    /\ UNCHANGED <<stop_, exited, destructor>>

\* task().
WorkerRun(w) ==
    /\ running[w] # None
    /\ running' = [running EXCEPT ![w] = None]
    /\ UNCHANGED <<queue, waitVars, pc, calls, stop_, exited, destructor>>

WorkerSpurious(w) ==
    /\ SpuriousWakeup(w)
    /\ UNCHANGED <<stop_, running, exited, destructor>>

\* ThreadPool::Enqueue(): nothing is queued after stop_.  The destructor has
\* not been called, since the caller still uses the pool.
ClientCall(p) ==
    /\ pc[p] = "idle" /\ destructor = "no"
    /\ calls[p] < MaxCalls
    /\ calls' = [calls EXCEPT ![p] = @ + 1]
    /\ Goto(p, IF stop_ THEN "idle" ELSE "try")
    /\ UNCHANGED <<queue, waitVars, stop_, running, exited, destructor>>

\* task_queue_.Enqueue(): what it returns is ignored, so a task that finds
\* the queue full is dropped.
ClientEnqueue(p) ==
    /\ pc[p] = "try"
    /\ IF Len(queue) < Size
         THEN queue' = Append(queue, <<p, calls[p]>>) /\ Goto(p, "notify")
         ELSE queue' = queue /\ Goto(p, "idle")
    /\ UNCHANGED <<waitVars, calls, stop_, running, exited, destructor>>

ClientNotify(p) ==
    /\ NotifyOne(p)
    /\ UNCHANGED <<stop_, running, exited, destructor>>

\* ~ThreadPool(): set stop_, BreakAllWait() in two steps, join.
Destroy ==
    /\ destructor = "no"
    /\ \A p \in Enqueuer : pc[p] = "idle"
    /\ stop_' = TRUE
    /\ destructor' = "break"
    /\ UNCHANGED <<queue, waitVars, pc, calls, running, exited>>

DestroyBreak ==
    /\ destructor = "break"
    /\ \/ BreakAllWait /\ UNCHANGED destructor
       \/ NotifyAll /\ destructor' = "join"
    /\ UNCHANGED <<stop_, running, exited>>

DestroyJoin ==
    /\ destructor = "join"
    /\ exited = Dequeuer
    /\ destructor' = "done"
    /\ UNCHANGED <<queue, waitVars, pc, calls, stop_, running, exited>>

PoolDone == destructor = "done" /\ UNCHANGED poolVars

WorkerStep(w) == WorkerLoop(w) \/ WorkerWait(w) \/ WorkerRun(w)
ClientStep(p) == ClientEnqueue(p) \/ ClientNotify(p)

PoolNext ==
    \/ \E w \in Dequeuer : WorkerStep(w) \/ WorkerSpurious(w)
    \/ \E p \in Enqueuer : ClientCall(p) \/ ClientStep(p)
    \/ Destroy \/ DestroyBreak \/ DestroyJoin
    \/ PoolDone

\* Threads that are not blocked run, and so does a destructor once called.
PoolSpec ==
    /\ PoolInit /\ [][PoolNext]_poolVars
    /\ \A w \in Dequeuer : WF_poolVars(WorkerStep(w))
    /\ \A p \in Enqueuer : WF_poolVars(ClientStep(p))
    /\ WF_poolVars(DestroyBreak) /\ WF_poolVars(DestroyJoin)

-----------------------------------------------------------------------------
(* Properties.                                                             *)

\* "the destructor joins all threads": it returns once called.
DestructorReturns == (destructor = "break") ~> (destructor = "done")
=============================================================================
