------------------------------- MODULE Service -------------------------------
(***************************************************************************)
(* Service (code/cyber/service/service.h): the RTPS thread puts requests   *)
(* into a list, a thread of the service handles them one by one, and the   *)
(* owner creates and destroys the service.  Each service is in a process   *)
(* of its own, and may be created again in a new one.                      *)
(***************************************************************************)
EXTENDS Naturals, Sequences

CONSTANTS
    Services,
    NoRequest,
    MaxEnds     \* bound: services that fail, are destroyed or meet the end of cyber

ASSUME EndsAssumption == MaxEnds \in Nat

VARIABLES
    inited_,
    tasks_,
    queue_mutex_,       \* whether the service's thread holds it
    request_receiver_,  \* whether the receiver calls back
    responses,          \* what each service has written to the response channel
    threadAt,           \* "none", "loop", "lock", "sleep", "waiting", "woken", "task", "finished"
    task,               \* the request its thread has taken
    ownerAt,            \* "new", "receiving", "failed", "running", then the steps of
                        \* destroy(): "clear", "notify", "join", "destroyed", and of the
                        \* destructor: "members", "done"; "crashed"
    shutdown,           \* cyber::IsShutdown() in its process
    ends                \* how many of these there were

serviceVars == <<inited_, tasks_, queue_mutex_, request_receiver_, responses, threadAt,
                 task, ownerAt, shutdown, ends>>

ServiceInit ==
    /\ inited_ = [s \in Services |-> FALSE]
    /\ tasks_ = [s \in Services |-> <<>>]
    /\ queue_mutex_ = [s \in Services |-> FALSE]
    /\ request_receiver_ = [s \in Services |-> FALSE]
    /\ responses = [s \in Services |-> <<>>]
    /\ threadAt = [s \in Services |-> "none"]
    /\ task = [s \in Services |-> NoRequest]
    /\ ownerAt = [s \in Services |-> "new"]
    /\ shutdown = [s \in Services |-> FALSE]
    /\ ends = 0

Ends == ends < MaxEnds /\ ends' = ends + 1

Thread(s, label) == threadAt' = [threadAt EXCEPT ![s] = label]
Owner(s, label) == ownerAt' = [ownerAt EXCEPT ![s] = label]

-----------------------------------------------------------------------------
\* Init(): the receiver calls back from now on.
CreateReceiver(s) ==
    /\ ownerAt[s] = "new"
    /\ request_receiver_' = [request_receiver_ EXCEPT ![s] = TRUE]
    /\ Owner(s, "receiving")
    /\ UNCHANGED <<inited_, tasks_, queue_mutex_, responses, threadAt, task, shutdown, ends>>

\* Without a transmitter, because the transport has been shut down, there is no service.
InitFails(s) ==
    /\ ownerAt[s] = "new" /\ Ends
    /\ Owner(s, "done")
    /\ UNCHANGED <<inited_, tasks_, queue_mutex_, request_receiver_, responses, threadAt,
                   task, shutdown>>

\* The thread is started, also when there is a transmitter but no receiver.
\* CreateService() then drops the service.
StartThread(s) ==
    /\ ownerAt[s] \in {"new", "receiving"}
    /\ inited_' = [inited_ EXCEPT ![s] = TRUE]
    /\ Thread(s, "loop")
    /\ \/ request_receiver_[s] /\ Owner(s, "running") /\ UNCHANGED ends
       \/ ~request_receiver_[s] /\ Owner(s, "failed") /\ Ends
    /\ UNCHANGED <<tasks_, queue_mutex_, request_receiver_, responses, task, shutdown>>

Shutdown(s) ==
    /\ ~shutdown[s] /\ Ends
    /\ shutdown' = [shutdown EXCEPT ![s] = TRUE]
    /\ UNCHANGED <<inited_, tasks_, queue_mutex_, request_receiver_, responses, threadAt,
                   task, ownerAt>>

-----------------------------------------------------------------------------
\* What notify_one() and notify_all() do: one thread at most waits.
Notify(s) ==
    threadAt' = [threadAt EXCEPT ![s] = IF @ = "waiting" THEN "woken" ELSE @]

\* The RTPS thread calls back.  The members are destroyed in the reverse order of their
\* declaration: tasks_ and queue_mutex_ are gone before request_receiver_ is disabled.
Enqueue(s, msg) ==
    /\ request_receiver_[s]
    /\ \/ /\ ownerAt[s] # "members" /\ ~queue_mutex_[s]
          /\ tasks_' = [tasks_ EXCEPT ![s] = Append(@, msg)]
          /\ Notify(s)
          /\ UNCHANGED <<ownerAt, request_receiver_>>
       \/ /\ ownerAt[s] = "members"
          /\ Owner(s, "crashed")
          /\ request_receiver_' = [request_receiver_ EXCEPT ![s] = FALSE]
          /\ UNCHANGED <<tasks_, threadAt>>
    /\ UNCHANGED <<inited_, queue_mutex_, responses, task, shutdown, ends>>

-----------------------------------------------------------------------------
\* Process(): while (!IsShutdown()).
Loop(s) ==
    /\ threadAt[s] = "loop"
    /\ Thread(s, IF shutdown[s] THEN "finished" ELSE "lock")
    /\ UNCHANGED <<inited_, tasks_, queue_mutex_, request_receiver_, responses, task,
                   ownerAt, shutdown, ends>>

\* With queue_mutex_ locked, the thread leaves the loop, takes the first request and
\* unlocks, or is about to wait.
Test(s) ==
    /\ threadAt[s] \in {"lock", "woken"} /\ ~queue_mutex_[s]
    /\ \/ /\ ~inited_[s]
          /\ Thread(s, "finished")
          /\ UNCHANGED <<tasks_, task, queue_mutex_>>
       \/ /\ inited_[s] /\ tasks_[s] # <<>>
          /\ task' = [task EXCEPT ![s] = Head(tasks_[s])]
          /\ tasks_' = [tasks_ EXCEPT ![s] = Tail(@)]
          /\ Thread(s, "task")
          /\ UNCHANGED queue_mutex_
       \/ /\ inited_[s] /\ tasks_[s] = <<>>
          /\ queue_mutex_' = [queue_mutex_ EXCEPT ![s] = TRUE]
          /\ Thread(s, "sleep")
          /\ UNCHANGED <<tasks_, task>>
    /\ UNCHANGED <<inited_, request_receiver_, responses, ownerAt, shutdown, ends>>

\* wait() unlocks and sleeps at once.  A spurious wakeup would only repeat the test.
Sleep(s) ==
    /\ threadAt[s] = "sleep"
    /\ queue_mutex_' = [queue_mutex_ EXCEPT ![s] = FALSE]
    /\ Thread(s, "waiting")
    /\ UNCHANGED <<inited_, tasks_, request_receiver_, responses, task, ownerAt, shutdown, ends>>

\* The response has the header of the request, except for the sender.
Response(s, msg) == [msg EXCEPT !.sender_id = s]

\* service_callback_() answers the request, and the response is transmitted, unless the
\* participant has been shut down, which follows the end of cyber.
HandleRequest(s) ==
    /\ threadAt[s] = "task"
    /\ \/ responses' = [responses EXCEPT ![s] = Append(@, Response(s, task[s]))]
       \/ shutdown[s] /\ UNCHANGED responses
    /\ task' = [task EXCEPT ![s] = NoRequest]
    /\ Thread(s, "loop")
    /\ UNCHANGED <<inited_, tasks_, queue_mutex_, request_receiver_, ownerAt, shutdown, ends>>

-----------------------------------------------------------------------------
\* destroy(): inited_ is written without the mutex.
Destroy(s) ==
    /\ ownerAt[s] \in {"running", "failed"}
    /\ IF ownerAt[s] = "failed" THEN UNCHANGED ends ELSE Ends
    /\ inited_' = [inited_ EXCEPT ![s] = FALSE]
    /\ Owner(s, "clear")
    /\ UNCHANGED <<tasks_, queue_mutex_, request_receiver_, responses, threadAt, task, shutdown>>

\* Mutant: the list is cleared without the mutex.
DestroyClear_Unlocked(s) ==
    /\ ownerAt[s] = "clear"
    /\ tasks_' = [tasks_ EXCEPT ![s] = <<>>]
    /\ Owner(s, "notify")
    /\ UNCHANGED <<inited_, queue_mutex_, request_receiver_, responses, threadAt, task, shutdown, ends>>

DestroyClear(s) ==
    /\ ownerAt[s] = "clear" /\ ~queue_mutex_[s]
    /\ tasks_' = [tasks_ EXCEPT ![s] = <<>>]
    /\ Owner(s, "notify")
    /\ UNCHANGED <<inited_, queue_mutex_, request_receiver_, responses, threadAt, task, shutdown, ends>>

DestroyNotify(s) ==
    /\ ownerAt[s] = "notify"
    /\ Notify(s)
    /\ Owner(s, "join")
    /\ UNCHANGED <<inited_, tasks_, queue_mutex_, request_receiver_, responses, task, shutdown, ends>>

DestroyJoin(s) ==
    /\ ownerAt[s] = "join" /\ threadAt[s] = "finished"
    /\ Owner(s, "destroyed")
    /\ UNCHANGED <<inited_, tasks_, queue_mutex_, request_receiver_, responses, threadAt,
                   task, shutdown, ends>>

\* ~Service(): first tasks_ and the mutex, later the receiver.
Destruct(s) ==
    /\ \/ ownerAt[s] = "destroyed" /\ Owner(s, "members") /\ UNCHANGED request_receiver_
       \/ /\ ownerAt[s] = "members" /\ Owner(s, "done")
          /\ request_receiver_' = [request_receiver_ EXCEPT ![s] = FALSE]
    /\ UNCHANGED <<inited_, tasks_, queue_mutex_, responses, threadAt, task, shutdown, ends>>

\* Another process creates the service.
Recreate(s) ==
    /\ ownerAt[s] \in {"done", "crashed"}
    /\ Owner(s, "new")
    /\ Thread(s, "none")
    /\ tasks_' = [tasks_ EXCEPT ![s] = <<>>]
    /\ shutdown' = [shutdown EXCEPT ![s] = FALSE]
    /\ UNCHANGED <<inited_, queue_mutex_, request_receiver_, responses, task, ends>>
=============================================================================
