----------------------------- MODULE TaskManager -----------------------------
(***************************************************************************)
(* TaskManager (code/cyber/task): a bounded queue of tasks and a few       *)
(* routines that take them.  A routine that finds the queue empty hangs    *)
(* up, and is resumed by the scheduler once it has been notified.          *)
(*                                                                         *)
(* The queue is the sequence that BoundedQueue implements; the scheduler   *)
(* is reduced to what TaskManager uses of it, SchedulerClassic's           *)
(* NotifyProcessor() and the resuming of an updated routine                *)
(* (ClassicScheduler has the rest).                                        *)
(***************************************************************************)
EXTENDS Naturals, Sequences, FiniteSets

CONSTANTS
    Worker,             \* the routines "/internal/task0", "/internal/task1", ...
    QueueSizes,         \* capacities of the queue; the code's is 1000
    Caller,             \* threads that call Async()
    Job,                \* what they enqueue
    NoJob

ASSUME TaskManagerAssumption ==
    /\ QueueSizes \subseteq Nat \ {0}
    /\ NoJob \notin Job

VARIABLES
    task_queue_, task_queue_size_,
    stop_,
    toNotify,           \* the routines a caller inside Enqueue() has yet to notify
    workerAt,           \* "ready" (in its loop), "hangup" (found the queue empty),
                        \* "waiting" (DATA_WAIT), "task", "finished" or "removed"
    updated,            \* waiting routines whose update flag is set
    job,                \* the task a routine has taken
    dropped             \* history: tasks that found the queue full

taskVars == <<task_queue_, task_queue_size_, stop_, toNotify, workerAt, updated,
              job, dropped>>

TaskInit ==
    /\ task_queue_ = <<>>
    /\ task_queue_size_ \in QueueSizes
    /\ stop_ = FALSE
    /\ toNotify = [c \in Caller |-> {}]
    /\ workerAt = [w \in Worker |-> "ready"]
    /\ updated = {}
    /\ job = [w \in Worker |-> NoJob]
    /\ dropped = {}

Goto(w, label) == workerAt' = [workerAt EXCEPT ![w] = label]

-----------------------------------------------------------------------------
(* TaskManager::Enqueue().                                                 *)

\* The task is put into the queue.  What task_queue_->Enqueue() returns is
\* ignored: a task that finds the queue full is dropped.
Enqueue(c, j) ==
    /\ toNotify[c] = {}
    /\ \/ /\ stop_
          /\ UNCHANGED <<task_queue_, dropped, toNotify>>
       \/ /\ ~stop_
          /\ IF Len(task_queue_) < task_queue_size_
               THEN task_queue_' = Append(task_queue_, j) /\ UNCHANGED dropped
               ELSE dropped' = dropped \cup {j} /\ UNCHANGED task_queue_
          /\ toNotify' = [toNotify EXCEPT ![c] = Worker]
    /\ UNCHANGED <<task_queue_size_, stop_, workerAt, updated, job>>

\* NotifyTask(): only a routine that already waits is marked.
NotifyTask(c, w) ==
    /\ w \in toNotify[c]
    /\ toNotify' = [toNotify EXCEPT ![c] = @ \ {w}]
    /\ updated' = IF workerAt[w] = "waiting" THEN updated \cup {w} ELSE updated
    /\ UNCHANGED <<task_queue_, task_queue_size_, stop_, workerAt, job, dropped>>

-----------------------------------------------------------------------------
(* The routines.                                                           *)

\* The loop: leave, or find the queue empty, or take a task.
WorkerLoop(w) ==
    /\ workerAt[w] = "ready"
    /\ \/ /\ stop_
          /\ Goto(w, "finished")
          /\ UNCHANGED <<task_queue_, job>>
       \/ /\ ~stop_ /\ task_queue_ = <<>>
          /\ Goto(w, "hangup")
          /\ UNCHANGED <<task_queue_, job>>
       \/ /\ ~stop_ /\ task_queue_ # <<>>
          /\ task_queue_' = Tail(task_queue_)
          /\ job' = [job EXCEPT ![w] = Head(task_queue_)]
          /\ Goto(w, "task")
    /\ UNCHANGED <<task_queue_size_, stop_, toNotify, updated, dropped>>

\* routine->HangUp().
HangUp(w) ==
    /\ workerAt[w] = "hangup"
    /\ Goto(w, "waiting")
    /\ UNCHANGED <<task_queue_, task_queue_size_, stop_, toNotify, updated, job,
                   dropped>>

\* A processor finds the flag set, which makes the routine ready, and resumes it.
Resume(w) ==
    /\ workerAt[w] = "waiting"
    /\ w \in updated
    /\ updated' = updated \ {w}
    /\ Goto(w, "ready")
    /\ UNCHANGED <<task_queue_, task_queue_size_, stop_, toNotify, job, dropped>>

\* A routine that hangs up after every task.
TaskDone_HangsUp(w) ==
    /\ workerAt[w] = "task"
    /\ job' = [job EXCEPT ![w] = NoJob]
    /\ Goto(w, "hangup")
    /\ UNCHANGED <<task_queue_, task_queue_size_, stop_, toNotify, updated, dropped>>

\* task() returns, and the loop goes on.
TaskDone(w) ==
    /\ workerAt[w] = "task"
    /\ job' = [job EXCEPT ![w] = NoJob]
    /\ Goto(w, "ready")
    /\ UNCHANGED <<task_queue_, task_queue_size_, stop_, toNotify, updated, dropped>>

-----------------------------------------------------------------------------
(* TaskManager::Shutdown(): stop_.exchange(), then RemoveTask() for every  *)
(* routine, which waits until no processor holds it.                       *)

StopTasks ==
    /\ ~stop_
    /\ stop_' = TRUE
    /\ UNCHANGED <<task_queue_, task_queue_size_, toNotify, workerAt, updated, job,
                   dropped>>

RemoveTask_Finished(w) ==
    /\ stop_
    /\ workerAt[w] = "finished"
    /\ Goto(w, "removed")
    /\ UNCHANGED <<task_queue_, task_queue_size_, stop_, toNotify, updated, job,
                   dropped>>

RemoveTask(w) ==
    /\ stop_
    /\ workerAt[w] \in {"waiting", "finished"}
    /\ Goto(w, "removed")
    /\ updated' = updated \ {w}
    /\ UNCHANGED <<task_queue_, task_queue_size_, stop_, toNotify, job, dropped>>
=============================================================================
