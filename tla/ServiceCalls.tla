---------------------------- MODULE ServiceCalls -----------------------------
(***************************************************************************)
(* Clients and services of one service name.  RTPS is external: both       *)
(* channels are reliable and transient-local, so each reader receives what *)
(* a writer wrote in order and from the first message on (up to ten, the   *)
(* depth of their QoS profile, which the bounds stay below).  A service    *)
(* that is created again, or a second one, receives the old requests, too, *)
(* and answers them again.                                                 *)
(***************************************************************************)
EXTENDS Client, Service

VARIABLES
    received,   \* how many requests of each client a service has received
    heard       \* how many responses of each service a client has received

vars == <<clientVars, serviceVars, received, heard>>

Init ==
    /\ ClientInit
    /\ ServiceInit
    /\ received = [s \in Services |-> [c \in Clients |-> 0]]
    /\ heard = [c \in Clients |-> [s \in Services |-> 0]]

SendRequest(k) == AsyncSendRequest(k) /\ UNCHANGED <<serviceVars, received, heard>>
EndSend(k) == AddPending(k) /\ UNCHANGED <<serviceVars, received, heard>>

DeliverRequest(s, c) ==
    /\ received[s][c] < Len(requests[c])
    /\ Enqueue(s, requests[c][received[s][c] + 1])
    /\ received' = [received EXCEPT ![s][c] = @ + 1]
    /\ UNCHANGED <<clientVars, heard>>

DeliverResponse(c, s) ==
    /\ heard[c][s] < Len(responses[s])
    /\ HandleResponse(c, responses[s][heard[c][s] + 1])
    /\ heard' = [heard EXCEPT ![c][s] = @ + 1]
    /\ UNCHANGED <<serviceVars, received>>

ThreadStep(s) ==
    /\ Loop(s) \/ Test(s) \/ Sleep(s) \/ HandleRequest(s)
    /\ UNCHANGED <<clientVars, received, heard>>

OwnerStep(s) ==
    /\ \/ ownerAt[s] = "receiving" /\ StartThread(s)
       \/ DestroyClear(s) \/ DestroyNotify(s) \/ DestroyJoin(s) \/ Destruct(s)
    /\ UNCHANGED <<clientVars, received, heard>>

\* What the owner and the process of a service may do at any time.
Environment(s) ==
    /\ \/ CreateReceiver(s) \/ InitFails(s)
       \/ ownerAt[s] = "new" /\ StartThread(s)
       \/ Destroy(s) \/ Shutdown(s)
    /\ UNCHANGED <<clientVars, received, heard>>

NewService(s) ==
    /\ Recreate(s)
    /\ received' = [received EXCEPT ![s] = [c \in Clients |-> 0]]
    /\ UNCHANGED <<clientVars, heard>>

Next ==
    \/ \E k \in Call : SendRequest(k) \/ EndSend(k)
    \/ \E s \in Services : ThreadStep(s) \/ OwnerStep(s) \/ Environment(s) \/ NewService(s)
    \/ \E s \in Services, c \in Clients : DeliverRequest(s, c) \/ DeliverResponse(c, s)

Spec == Init /\ [][Next]_vars

\* Threads go on, what was begun is ended, and RTPS delivers.
Fairness ==
    /\ \A k \in Call : WF_vars(EndSend(k))
    /\ \A s \in Services : WF_vars(ThreadStep(s)) /\ WF_vars(OwnerStep(s))
    /\ \A s \in Services, c \in Clients :
         WF_vars(DeliverRequest(s, c)) /\ WF_vars(DeliverResponse(c, s))

FairSpec == Spec /\ Fairness

-----------------------------------------------------------------------------
Message == [sender_id : Clients \cup Services, spare_id : Clients, seq_num : Nat, body : Call]

TypeOK ==
    /\ sequence_number_ \in [Clients -> Nat]
    /\ pending_requests_ \in [Clients -> SUBSET (Nat \X Call)]
    /\ pending_requests_mutex_ \in [Clients -> Call \cup {NoCall}]
    /\ requests \in [Clients -> Seq(Message)]
    /\ callAt \in [Call -> {"new", "transmitted", "waiting"}]
    /\ seq_num \in [Call -> Nat]
    /\ future \in [Call -> Call \cup {NoCall}]
    /\ inited_ \in [Services -> BOOLEAN]
    /\ tasks_ \in [Services -> Seq(Message)]
    /\ queue_mutex_ \in [Services -> BOOLEAN]
    /\ request_receiver_ \in [Services -> BOOLEAN]
    /\ responses \in [Services -> Seq(Message)]
    /\ threadAt \in [Services -> {"none", "loop", "lock", "sleep", "waiting", "woken", "task", "finished"}]
    /\ task \in [Services -> Message \cup {NoRequest}]
    /\ ownerAt \in [Services -> {"new", "receiving", "failed", "running", "clear", "notify",
                                 "join", "destroyed", "members", "done", "crashed"}]
    /\ shutdown \in [Services -> BOOLEAN]
    /\ ends \in 0..MaxEnds
    /\ received \in [Services -> [Clients -> Nat]]
    /\ heard \in [Clients -> [Services -> Nat]]

\* A call gets the answer to its own request, whatever other clients ask and however often
\* a request is answered: its promise is set once, while it is pending.
ResponsesMatch ==
    /\ \A k \in Call : future[k] \in {k, NoCall}
    /\ \A c \in Clients : \A p \in pending_requests_[c] : future[p[2]] = NoCall

\* A request is answered if some service stays, also one that was created after the
\* request was sent: the response never comes before its promise is pending.
AnswerArrives ==
    \A k \in Call, s \in Services :
       <>[](ownerAt[s] = "running" /\ ~shutdown[s])
          => (callAt[k] = "transmitted" ~> future[k] # NoCall)

\* destroy() returns: its notification does not get lost between the test of the waiting
\* thread and its wait.
DestroyReturns ==
    \A s \in Services : (ownerAt[s] = "clear") ~> (ownerAt[s] \notin {"clear", "notify", "join"})
=============================================================================
