---------------------------- MODULE ServiceProofs ----------------------------
(***************************************************************************)
(* ResponsesMatch for any clients, calls and services: a header that went  *)
(* through a service still belongs to the body it came with, and the       *)
(* numbers of a client tell its calls apart.                               *)
(***************************************************************************)
EXTENDS ServiceCalls, TLAPS

\* The header of message m, a request or a response, is that of the call in its body.
Genuine(m) ==
    /\ callAt[m.body] # "new"
    /\ m.spare_id = client[m.body] /\ m.seq_num = seq_num[m.body]

\* The messages on their way: in the channels, in the lists and in the threads' hands.
AllGenuine ==
    /\ \A c \in Clients : \A i \in 1..Len(requests[c]) : Genuine(requests[c][i])
    /\ \A s \in Services : \A i \in 1..Len(tasks_[s]) : Genuine(tasks_[s][i])
    /\ \A s \in Services : \A i \in 1..Len(responses[s]) : Genuine(responses[s][i])
    /\ \A s \in Services : threadAt[s] = "task" => task[s] \in Message /\ Genuine(task[s])

\* The calls of a client have different numbers, up to its sequence number.
Numbered ==
    /\ \A k \in Call : callAt[k] # "new" => seq_num[k] <= sequence_number_[client[k]]
    /\ \A k, l \in Call : /\ callAt[k] # "new" /\ callAt[l] # "new"
                          /\ client[k] = client[l] /\ seq_num[k] = seq_num[l]
                          => k = l

\* What is pending are calls of the client that wait, under their numbers.
PendingWait ==
    /\ \A c \in Clients : \A p \in pending_requests_[c] :
          client[p[2]] = c /\ seq_num[p[2]] = p[1] /\ callAt[p[2]] = "waiting"
    /\ \A k \in Call : callAt[k] # "waiting" => future[k] = NoCall

IInv == TypeOK /\ AllGenuine /\ Numbered /\ PendingWait /\ ResponsesMatch

-----------------------------------------------------------------------------
\* An element of an extended sequence is an old one or the new one.
LEMMA AppendAt ==
  ASSUME NEW S, NEW q \in Seq(S), NEW m \in S, NEW i \in 1..Len(Append(q, m))
  PROVE  (i \in 1..Len(q) /\ Append(q, m)[i] = q[i]) \/ Append(q, m)[i] = m
  OBVIOUS

\* Appending to one of several sequences keeps their type.
LEMMA AppendType ==
  ASSUME NEW S, NEW T, NEW f \in [T -> Seq(S)], NEW t \in T, NEW m \in S
  PROVE  [f EXCEPT ![t] = Append(@, m)] \in [T -> Seq(S)]
  OBVIOUS

\* Nothing has been sent when the clients and services are constructed.
LEMMA InitIInv == Init => IInv
<1> SUFFICES ASSUME Init PROVE IInv
  OBVIOUS
<1> USE CallAssumption, EndsAssumption DEF Init, ClientInit, ServiceInit
<1>1. TypeOK
  BY DEF TypeOK
<1>2. AllGenuine
  BY DEF AllGenuine
<1>3. Numbered /\ PendingWait /\ ResponsesMatch
  BY DEF Numbered, PendingWait, ResponsesMatch
<1> QED
  BY <1>1, <1>2, <1>3 DEF IInv

\* AsyncSendRequest() under the mutex: the new number is above all earlier ones of the
\* client, so no message on its way gets another meaning.
LEMMA SendStep ==
  ASSUME IInv, NEW k \in Call, SendRequest(k)
  PROVE  IInv'
<1> DEFINE c == client[k]
<1>0. PICK n \in Nat : n = sequence_number_[c] + 1
  BY CallAssumption DEF IInv, TypeOK
<1> DEFINE msg == Request(c, n, k)
<1>1. /\ c \in Clients /\ msg \in Message
      /\ callAt[k] = "new"
      /\ sequence_number_' = [sequence_number_ EXCEPT ![c] = n]
      /\ seq_num' = [seq_num EXCEPT ![k] = n]
      /\ requests' = [requests EXCEPT ![c] = Append(@, msg)]
      /\ callAt' = [callAt EXCEPT ![k] = "transmitted"]
      /\ pending_requests_mutex_' = [pending_requests_mutex_ EXCEPT ![c] = k]
      /\ UNCHANGED <<pending_requests_, future, serviceVars, received, heard>>
  <2>1. c \in Clients /\ msg \in Message
    BY CallAssumption DEF Request, Message
  <2>2. sequence_number_'[c] = n
    BY <1>0, <2>1 DEF IInv, TypeOK, SendRequest, AsyncSendRequest
  <2> QED
    BY <1>0, <2>1, <2>2 DEF SendRequest, AsyncSendRequest
<1>2. TypeOK'
  BY <1>1 DEF IInv, TypeOK, serviceVars
<1>3. \A m \in Message : Genuine(m) => Genuine(m)'
  BY <1>1 DEF IInv, TypeOK, Genuine, Message
<1>4. Genuine(msg)'
  BY <1>1 DEF IInv, TypeOK, Genuine, Request
<1>5. \A d \in Clients : \A i \in 1..Len(requests'[d]) : Genuine(requests[d][i])'
  <2> SUFFICES ASSUME NEW d \in Clients, NEW i \in 1..Len(requests'[d])
               PROVE  Genuine(requests[d][i])'
    OBVIOUS
  <2>1. requests[d] \in Seq(Message)
    BY DEF IInv, TypeOK
  <2>2. CASE i \in 1..Len(requests[d])
    <3>1. requests'[d][i] = requests[d][i] /\ requests[d][i] \in Message
      BY <2>1, <2>2, <1>1 DEF IInv, TypeOK
    <3> QED
      BY <3>1, <2>2, <1>3 DEF IInv, AllGenuine, Genuine
  <2>3. CASE i \notin 1..Len(requests[d])
    <3>1. requests'[d][i] = msg
      BY <2>1, <2>3, <1>1 DEF IInv, TypeOK
    <3> QED
      BY <3>1, <1>4 DEF Genuine
  <2> QED
    BY <2>2, <2>3
<1>6. AllGenuine'
  <2>1. \A s \in Services : \A i \in 1..Len(tasks_'[s]) : Genuine(tasks_[s][i])'
    BY <1>1, <1>3 DEF IInv, TypeOK, AllGenuine, Genuine, serviceVars
  <2>2. \A s \in Services : \A i \in 1..Len(responses'[s]) : Genuine(responses[s][i])'
    BY <1>1, <1>3 DEF IInv, TypeOK, AllGenuine, Genuine, serviceVars
  <2>3. \A s \in Services : threadAt'[s] = "task" => task'[s] \in Message /\ Genuine(task[s])'
    BY <1>1, <1>3 DEF IInv, TypeOK, AllGenuine, Genuine, serviceVars
  <2> QED
    BY <1>5, <2>1, <2>2, <2>3 DEF AllGenuine
<1>7. Numbered'
  <2>1. \A l \in Call : callAt[l] # "new" /\ client[l] = c => seq_num[l] < n
    BY <1>0, <1>1 DEF IInv, TypeOK, Numbered
  <2>2. seq_num'[k] = n /\ sequence_number_'[c] = n /\ callAt'[k] # "new"
    BY <1>1 DEF IInv, TypeOK
  <2>3. \A l \in Call \ {k} : seq_num'[l] = seq_num[l] /\ callAt'[l] = callAt[l]
    BY <1>1 DEF IInv, TypeOK
  <2>4. \A d \in Clients \ {c} : sequence_number_'[d] = sequence_number_[d]
    BY <1>1 DEF IInv, TypeOK
  <2>5. ASSUME NEW l \in Call, callAt'[l] # "new"
        PROVE  seq_num'[l] <= sequence_number_'[client[l]]
    <3>1. client[l] \in Clients /\ seq_num[l] \in Nat /\ sequence_number_[client[l]] \in Nat
      BY CallAssumption DEF IInv, TypeOK
    <3>2. CASE l = k
      BY <3>2, <2>2
    <3>3. CASE l # k /\ client[l] = c
      BY <3>1, <3>3, <2>1, <2>2, <2>3, <2>5
    <3>4. CASE l # k /\ client[l] # c
      BY <3>1, <3>4, <2>3, <2>4, <2>5 DEF IInv, Numbered
    <3> QED
      BY <3>2, <3>3, <3>4
  <2>6. ASSUME NEW j \in Call, NEW l \in Call, callAt'[j] # "new", callAt'[l] # "new",
               client[j] = client[l], seq_num'[j] = seq_num'[l]
        PROVE  j = l
    <3>1. \A i \in Call : seq_num[i] \in Nat
      BY DEF IInv, TypeOK
    <3>2. CASE j # k /\ l # k
      BY <3>2, <2>3, <2>6 DEF IInv, Numbered
    <3>3. CASE j = k /\ l # k
      BY <3>1, <3>3, <2>1, <2>2, <2>3, <2>6
    <3>4. CASE j # k /\ l = k
      BY <3>1, <3>4, <2>1, <2>2, <2>3, <2>6
    <3> QED
      BY <3>2, <3>3, <3>4
  <2> QED
    BY <2>5, <2>6 DEF Numbered
<1>8. PendingWait' /\ ResponsesMatch'
  BY <1>1 DEF IInv, TypeOK, PendingWait, ResponsesMatch
<1> QED
  BY <1>2, <1>6, <1>7, <1>8 DEF IInv

\* The promise is stored under the call's own number, and not yet set.
LEMMA EndSendStep ==
  ASSUME IInv, NEW k \in Call, EndSend(k)
  PROVE  IInv'
<1> DEFINE c == client[k]
<1>1. /\ c \in Clients
      /\ callAt[k] = "transmitted"
      /\ pending_requests_' = [pending_requests_ EXCEPT ![c] = @ \cup {<<seq_num[k], k>>}]
      /\ pending_requests_mutex_' = [pending_requests_mutex_ EXCEPT ![c] = NoCall]
      /\ callAt' = [callAt EXCEPT ![k] = "waiting"]
      /\ UNCHANGED <<sequence_number_, requests, seq_num, future, serviceVars, received, heard>>
  BY CallAssumption DEF EndSend, AddPending
<1>2. TypeOK'
  BY <1>1 DEF IInv, TypeOK, serviceVars
<1>3. \A m \in Message : Genuine(m) => Genuine(m)'
  BY <1>1 DEF IInv, TypeOK, Genuine, Message
<1>4. AllGenuine'
  <2>1. \A d \in Clients : \A i \in 1..Len(requests'[d]) : Genuine(requests[d][i])'
    BY <1>1, <1>3 DEF IInv, TypeOK, AllGenuine, Genuine
  <2>2. \A s \in Services : \A i \in 1..Len(tasks_'[s]) : Genuine(tasks_[s][i])'
    BY <1>1, <1>3 DEF IInv, TypeOK, AllGenuine, Genuine, serviceVars
  <2>3. \A s \in Services : \A i \in 1..Len(responses'[s]) : Genuine(responses[s][i])'
    BY <1>1, <1>3 DEF IInv, TypeOK, AllGenuine, Genuine, serviceVars
  <2>4. \A s \in Services : threadAt'[s] = "task" => task'[s] \in Message /\ Genuine(task[s])'
    BY <1>1, <1>3 DEF IInv, TypeOK, AllGenuine, Genuine, serviceVars
  <2> QED
    BY <2>1, <2>2, <2>3, <2>4 DEF AllGenuine
<1>5. Numbered'
  BY <1>1 DEF IInv, TypeOK, Numbered
<1>6. PendingWait' /\ ResponsesMatch'
  <2>1. future[k] = NoCall
    BY <1>1 DEF IInv, PendingWait
  <2>2. \A d \in Clients : \A p \in pending_requests_'[d] :
           p \in pending_requests_[d] \/ (d = c /\ p = <<seq_num[k], k>>)
    BY <1>1 DEF IInv, TypeOK
  <2>3. \A d \in Clients : \A p \in pending_requests_[d] : p[2] \in Call
    BY DEF IInv, TypeOK
  <2>4. PendingWait'
    BY <1>1, <2>2, <2>3 DEF IInv, TypeOK, PendingWait
  <2>5. ResponsesMatch'
    BY <1>1, <2>1, <2>2 DEF IInv, ResponsesMatch
  <2> QED
    BY <2>4, <2>5
<1> QED
  BY <1>2, <1>4, <1>5, <1>6 DEF IInv

\* HandleResponse(): the pending call that is found is the one of the response's body.
LEMMA ResponseStep ==
  ASSUME IInv, NEW c \in Clients, NEW s \in Services, DeliverResponse(c, s)
  PROVE  IInv'
<1> DEFINE m == responses[s][heard[c][s] + 1]
           found == {k \in Call : m.spare_id = c /\ <<m.seq_num, k>> \in pending_requests_[c]}
<1>1. /\ pending_requests_' =
             [pending_requests_ EXCEPT ![c] = @ \ {<<m.seq_num, k>> : k \in found}]
      /\ future' = [k \in Call |-> IF k \in found THEN m.body ELSE future[k]]
      /\ heard' = [heard EXCEPT ![c][s] = @ + 1]
      /\ UNCHANGED <<sequence_number_, pending_requests_mutex_, requests, callAt, seq_num,
                     serviceVars, received>>
  BY DEF DeliverResponse, HandleResponse
<1>2. m \in Message /\ Genuine(m)
  <2>1. responses[s] \in Seq(Message) /\ heard[c][s] + 1 \in 1..Len(responses[s])
    BY DEF IInv, TypeOK, DeliverResponse
  <2> QED
    BY <2>1 DEF IInv, AllGenuine
<1>3. \A k \in found : k = m.body
  <2> SUFFICES ASSUME NEW k \in found PROVE k = m.body
    OBVIOUS
  <2>1. m.body \in Call /\ callAt[m.body] # "new"
        /\ client[m.body] = c /\ seq_num[m.body] = m.seq_num
    BY <1>2 DEF Genuine, Message
  <2>2. callAt[k] = "waiting" /\ client[k] = c /\ seq_num[k] = m.seq_num
    BY DEF IInv, PendingWait
  <2> QED
    BY <2>1, <2>2 DEF IInv, Numbered
<1>4. TypeOK'
  <2>1. m.body \in Call
    BY <1>2 DEF Message
  <2>2. future' \in [Call -> Call \cup {NoCall}]
    BY <1>1, <2>1 DEF IInv, TypeOK
  <2>3. pending_requests_' \in [Clients -> SUBSET (Nat \X Call)]
    BY <1>1 DEF IInv, TypeOK
  <2>4. heard' \in [Clients -> [Services -> Nat]]
    BY <1>1 DEF IInv, TypeOK
  <2> QED
    BY <1>1, <2>2, <2>3, <2>4 DEF IInv, TypeOK, serviceVars
<1>5. AllGenuine' /\ Numbered'
  BY <1>1 DEF IInv, AllGenuine, Numbered, Genuine, serviceVars
<1>6. PendingWait' /\ ResponsesMatch'
  <2>1. \A d \in Clients : pending_requests_'[d] \subseteq pending_requests_[d]
    BY <1>1 DEF IInv, TypeOK
  <2>2. \A k \in found : callAt[k] = "waiting"
    BY DEF IInv, PendingWait
  <2>3. PendingWait'
    BY <1>1, <2>1, <2>2 DEF IInv, PendingWait
  <2>4. \A k \in Call : future'[k] \in {k, NoCall}
    BY <1>1, <1>3 DEF IInv, ResponsesMatch
  <2>5. ASSUME NEW d \in Clients, NEW p \in pending_requests_'[d]
        PROVE  future'[p[2]] = NoCall
    <3>1. p \in pending_requests_[d] /\ p \in Nat \X Call
      BY <2>1 DEF IInv, TypeOK
    <3>2. p = <<p[1], p[2]>> /\ p[2] \in Call /\ future[p[2]] = NoCall
          /\ client[p[2]] = d /\ seq_num[p[2]] = p[1]
      BY <3>1 DEF IInv, PendingWait, ResponsesMatch
    <3>3. p[2] \notin found
      <4> SUFFICES ASSUME p[2] \in found PROVE FALSE
        OBVIOUS
      <4>1. client[p[2]] = c /\ seq_num[p[2]] = m.seq_num
        BY DEF IInv, PendingWait
      <4>2. d = c /\ p = <<m.seq_num, p[2]>>
        BY <4>1, <3>2
      <4>3. p \in {<<m.seq_num, k>> : k \in found}
        BY <4>2
      <4> QED
        BY <4>2, <4>3, <1>1 DEF IInv, TypeOK
    <3> QED
      BY <1>1, <3>2, <3>3
  <2> QED
    BY <2>3, <2>4, <2>5 DEF ResponsesMatch
<1> QED
  BY <1>4, <1>5, <1>6 DEF IInv

\* Only the service's messages have to be looked at where the clients rest.
LEMMA ServiceFrame ==
  ASSUME IInv, UNCHANGED clientVars, TypeOK',
         \A s \in Services : \A i \in 1..Len(tasks_'[s]) : Genuine(tasks_'[s][i]),
         \A s \in Services : \A i \in 1..Len(responses'[s]) : Genuine(responses'[s][i]),
         \A s \in Services : threadAt'[s] = "task" => task'[s] \in Message /\ Genuine(task'[s])
  PROVE  IInv'
<1>2. AllGenuine'
  <2>1. \A s \in Services : \A i \in 1..Len(tasks_'[s]) : Genuine(tasks_[s][i])'
    BY DEF Genuine, clientVars
  <2>2. \A s \in Services : \A i \in 1..Len(responses'[s]) : Genuine(responses[s][i])'
    BY DEF Genuine, clientVars
  <2>3. \A s \in Services : threadAt'[s] = "task" => task'[s] \in Message /\ Genuine(task[s])'
    BY DEF Genuine, clientVars
  <2>4. \A c \in Clients : \A i \in 1..Len(requests'[c]) : Genuine(requests[c][i])'
    BY DEF IInv, AllGenuine, Genuine, clientVars
  <2> QED
    BY <2>1, <2>2, <2>3, <2>4 DEF AllGenuine
<1>3. Numbered' /\ PendingWait' /\ ResponsesMatch'
  BY DEF IInv, Numbered, PendingWait, ResponsesMatch, clientVars
<1> QED
  BY <1>2, <1>3 DEF IInv

\* A request comes from the channel and is appended to the list of the service.
LEMMA RequestStep ==
  ASSUME IInv, NEW s \in Services, NEW c \in Clients, DeliverRequest(s, c)
  PROVE  IInv'
<1>1. PICK m : m = requests[c][received[s][c] + 1]
  OBVIOUS
<1>2. m \in Message /\ Genuine(m)
  <2>1. requests[c] \in Seq(Message) /\ received[s][c] + 1 \in 1..Len(requests[c])
    BY DEF IInv, TypeOK, DeliverRequest
  <2> QED
    BY <1>1, <2>1 DEF IInv, AllGenuine
<1>3. UNCHANGED clientVars
  BY DEF DeliverRequest
<1>4. tasks_' = tasks_ \/ tasks_' = [tasks_ EXCEPT ![s] = Append(@, m)]
  BY <1>1 DEF DeliverRequest, Enqueue
<1>5. threadAt' \in [Services -> {"none", "loop", "lock", "sleep", "waiting", "woken", "task", "finished"}]
      /\ \A t \in Services : threadAt'[t] = "task" => threadAt[t] = "task"
  <2>1. \/ threadAt' = threadAt
        \/ threadAt' = [threadAt EXCEPT ![s] = IF @ = "waiting" THEN "woken" ELSE @]
    BY DEF DeliverRequest, Enqueue, Notify
  <2>2. threadAt \in [Services -> {"none", "loop", "lock", "sleep", "waiting", "woken", "task", "finished"}]
    BY DEF IInv, TypeOK
  <2> QED
    BY <2>1, <2>2
<1>6. TypeOK'
  <2>1. tasks_' \in [Services -> Seq(Message)]
    <3>1. tasks_ \in [Services -> Seq(Message)]
      BY DEF IInv, TypeOK
    <3>2. [tasks_ EXCEPT ![s] = Append(@, m)] \in [Services -> Seq(Message)]
      BY <3>1, <1>2, AppendType
    <3> QED
      BY <3>1, <3>2, <1>4
  <2>2. /\ ownerAt' \in [Services -> {"new", "receiving", "failed", "running", "clear", "notify",
                                     "join", "destroyed", "members", "done", "crashed"}]
        /\ request_receiver_' \in [Services -> BOOLEAN]
    BY DEF IInv, TypeOK, DeliverRequest, Enqueue, Owner
  <2>3. received' \in [Services -> [Clients -> Nat]] /\ heard' = heard
    BY DEF IInv, TypeOK, DeliverRequest
  <2>4. UNCHANGED <<inited_, queue_mutex_, responses, task, shutdown, ends>>
    BY DEF DeliverRequest, Enqueue
  <2> QED
    BY <1>3, <1>5, <2>1, <2>2, <2>3, <2>4 DEF IInv, TypeOK, clientVars
<1>7. \A t \in Services : \A i \in 1..Len(tasks_'[t]) : Genuine(tasks_'[t][i])
  <2> SUFFICES ASSUME NEW t \in Services, NEW i \in 1..Len(tasks_'[t])
               PROVE  Genuine(tasks_'[t][i])
    OBVIOUS
  <2>1. tasks_[t] \in Seq(Message)
    BY DEF IInv, TypeOK
  <2>2. (i \in 1..Len(tasks_[t]) /\ tasks_'[t][i] = tasks_[t][i]) \/ tasks_'[t][i] = m
    <3>1. tasks_'[t] = tasks_[t] \/ tasks_'[t] = Append(tasks_[t], m)
      BY <1>4 DEF IInv, TypeOK
    <3> QED
      BY <3>1, <2>1, <1>2, AppendAt
  <2> QED
    BY <2>2, <1>2 DEF IInv, AllGenuine
<1>8. UNCHANGED <<responses, task>>
  BY DEF DeliverRequest, Enqueue
<1>9. \A t \in Services : threadAt'[t] = "task" => task'[t] \in Message /\ Genuine(task'[t])
  BY <1>5, <1>8 DEF IInv, AllGenuine
<1>10. \A t \in Services : \A i \in 1..Len(responses'[t]) : Genuine(responses'[t][i])
  BY <1>8 DEF IInv, AllGenuine
<1> QED
  BY <1>3, <1>6, <1>7, <1>9, <1>10, ServiceFrame

\* The steps that only drop requests, move the owner or wake the thread.
LEMMA QuietStep ==
  ASSUME IInv, UNCHANGED <<clientVars, responses, task>>, TypeOK', NEW s \in Services,
         UNCHANGED tasks_ \/ tasks_' = [tasks_ EXCEPT ![s] = <<>>],
         \A t \in Services : threadAt'[t] = "task" => threadAt[t] = "task"
  PROVE  IInv'
<1>1. \A t \in Services : \A i \in 1..Len(tasks_'[t]) : Genuine(tasks_'[t][i])
  BY DEF IInv, TypeOK, AllGenuine
<1>2. \A t \in Services : \A i \in 1..Len(responses'[t]) : Genuine(responses'[t][i])
  BY DEF IInv, AllGenuine
<1>3. \A t \in Services : threadAt'[t] = "task" => task'[t] \in Message /\ Genuine(task'[t])
  BY DEF IInv, AllGenuine
<1>4. UNCHANGED clientVars
  OBVIOUS
<1> QED
  BY <1>1, <1>2, <1>3, <1>4, ServiceFrame

\* Process() takes the first request; what it answers goes out with the request's header.
LEMMA ProcessStep ==
  ASSUME IInv, NEW s \in Services, ThreadStep(s)
  PROVE  IInv'
<1>1. UNCHANGED <<clientVars, received, heard>>
  BY DEF ThreadStep
<1>2. ASSUME Loop(s) \/ Sleep(s) PROVE IInv'
  <2>1. TypeOK'
    BY <1>1, <1>2 DEF IInv, TypeOK, clientVars, Loop, Sleep, Thread
  <2>2. UNCHANGED <<clientVars, responses, task, tasks_>>
    BY <1>1, <1>2 DEF Loop, Sleep
  <2>3. \A t \in Services : threadAt'[t] = "task" => threadAt[t] = "task"
    BY <1>2 DEF IInv, TypeOK, Loop, Sleep, Thread
  <2> QED
    BY <2>1, <2>2, <2>3, QuietStep
<1>3. ASSUME Test(s) PROVE IInv'
  <2>1. CASE UNCHANGED <<tasks_, task>> /\ threadAt'[s] # "task"
    <3>1. TypeOK'
      BY <1>1, <1>3, <2>1 DEF IInv, TypeOK, clientVars, Test, Thread
    <3>2. UNCHANGED <<clientVars, responses, task, tasks_>>
      BY <1>1, <1>3, <2>1 DEF Test
    <3>3. \A t \in Services : threadAt'[t] = "task" => threadAt[t] = "task"
      BY <1>3, <2>1 DEF IInv, TypeOK, Test, Thread
    <3> QED
      BY <3>1, <3>2, <3>3, QuietStep
  <2>2. CASE /\ tasks_[s] # <<>>
             /\ task' = [task EXCEPT ![s] = Head(tasks_[s])]
             /\ tasks_' = [tasks_ EXCEPT ![s] = Tail(@)]
             /\ threadAt' = [threadAt EXCEPT ![s] = "task"]
             /\ UNCHANGED queue_mutex_
    <3>1. /\ tasks_[s] \in Seq(Message)
          /\ Head(tasks_[s]) = tasks_[s][1] /\ 1 \in 1..Len(tasks_[s])
          /\ Head(tasks_[s]) \in Message
          /\ Tail(tasks_[s]) \in Seq(Message)
      BY <2>2 DEF IInv, TypeOK
    <3>2. TypeOK'
      BY <1>1, <1>3, <2>2, <3>1 DEF IInv, TypeOK, clientVars, Test
    <3>3. Genuine(Head(tasks_[s]))
      BY <3>1 DEF IInv, AllGenuine
    <3>4. \A t \in Services : threadAt'[t] = "task" => task'[t] \in Message /\ Genuine(task'[t])
      BY <2>2, <3>1, <3>3 DEF IInv, TypeOK, AllGenuine
    <3>5. \A t \in Services : \A i \in 1..Len(tasks_'[t]) : Genuine(tasks_'[t][i])
      <4> SUFFICES ASSUME NEW t \in Services, NEW i \in 1..Len(tasks_'[t])
                   PROVE  Genuine(tasks_'[t][i])
        OBVIOUS
      <4>1. CASE t = s
        <5>1. i + 1 \in 1..Len(tasks_[s]) /\ tasks_'[s][i] = tasks_[s][i + 1]
          BY <4>1, <3>1, <2>2 DEF IInv, TypeOK
        <5> QED
          BY <5>1, <4>1 DEF IInv, AllGenuine
      <4>2. CASE t # s
        BY <4>2, <2>2 DEF IInv, TypeOK, AllGenuine
      <4> QED
        BY <4>1, <4>2
    <3>6. \A t \in Services : \A i \in 1..Len(responses'[t]) : Genuine(responses'[t][i])
      BY <1>3 DEF IInv, AllGenuine, Test
    <3> QED
      BY <1>1, <3>2, <3>4, <3>5, <3>6, ServiceFrame
  <2> QED
    BY <1>3, <2>1, <2>2 DEF IInv, TypeOK, Test, Thread
<1>4. ASSUME HandleRequest(s) PROVE IInv'
  <2>1. PICK m : m = Response(s, task[s])
    OBVIOUS
  <2>2. m \in Message /\ Genuine(m)
    BY <1>4, <2>1 DEF IInv, AllGenuine, HandleRequest, Response, Message, Genuine
  <2>3. /\ responses' = responses \/ responses' = [responses EXCEPT ![s] = Append(@, m)]
        /\ task' = [task EXCEPT ![s] = NoRequest]
        /\ threadAt' = [threadAt EXCEPT ![s] = "loop"]
        /\ UNCHANGED <<inited_, tasks_, queue_mutex_, request_receiver_, ownerAt, shutdown, ends>>
    BY <1>4, <2>1 DEF HandleRequest, Thread
  <2>4. TypeOK'
    <3>1. responses' \in [Services -> Seq(Message)]
      <4>1. responses \in [Services -> Seq(Message)]
        BY DEF IInv, TypeOK
      <4>2. [responses EXCEPT ![s] = Append(@, m)] \in [Services -> Seq(Message)]
        BY <4>1, <2>2, AppendType
      <4> QED
        BY <4>1, <4>2, <2>3
    <3> QED
      BY <1>1, <2>3, <3>1 DEF IInv, TypeOK, clientVars
  <2>5. \A t \in Services : \A i \in 1..Len(responses'[t]) : Genuine(responses'[t][i])
    <3> SUFFICES ASSUME NEW t \in Services, NEW i \in 1..Len(responses'[t])
                 PROVE  Genuine(responses'[t][i])
      OBVIOUS
    <3>1. responses[t] \in Seq(Message)
      BY DEF IInv, TypeOK
    <3>2. (i \in 1..Len(responses[t]) /\ responses'[t][i] = responses[t][i]) \/ responses'[t][i] = m
      <4>1. responses'[t] = responses[t] \/ responses'[t] = Append(responses[t], m)
        BY <2>3 DEF IInv, TypeOK
      <4> QED
        BY <4>1, <3>1, <2>2, AppendAt
    <3> QED
      BY <3>2, <2>2 DEF IInv, AllGenuine
  <2>6. \A t \in Services : threadAt'[t] = "task" => task'[t] \in Message /\ Genuine(task'[t])
    BY <2>3 DEF IInv, TypeOK, AllGenuine
  <2>7. \A t \in Services : \A i \in 1..Len(tasks_'[t]) : Genuine(tasks_'[t][i])
    BY <2>3 DEF IInv, AllGenuine
  <2> QED
    BY <1>1, <2>4, <2>5, <2>6, <2>7, ServiceFrame
<1> QED
  BY <1>2, <1>3, <1>4 DEF ThreadStep

\* Init(), destroy(), the destructor and what happens to the process.
LEMMA OwnerSteps ==
  ASSUME IInv, NEW s \in Services, OwnerStep(s) \/ Environment(s) \/ NewService(s)
  PROVE  IInv'
<1> USE EndsAssumption
<1>1. UNCHANGED <<clientVars, responses, task>>
  BY DEF OwnerStep, Environment, NewService, StartThread, DestroyClear, DestroyNotify,
         DestroyJoin, Destruct, CreateReceiver, InitFails, Destroy, Shutdown, Recreate
<1>2. UNCHANGED tasks_ \/ tasks_' = [tasks_ EXCEPT ![s] = <<>>]
  BY DEF OwnerStep, Environment, NewService, StartThread, DestroyClear, DestroyNotify,
         DestroyJoin, Destruct, CreateReceiver, InitFails, Destroy, Shutdown, Recreate
<1>3. /\ threadAt' \in [Services -> {"none", "loop", "lock", "sleep", "waiting", "woken", "task", "finished"}]
      /\ \A t \in Services : threadAt'[t] = "task" => threadAt[t] = "task"
  BY DEF IInv, TypeOK, OwnerStep, Environment, NewService, StartThread, DestroyClear,
         DestroyNotify, DestroyJoin, Destruct, CreateReceiver, InitFails, Destroy, Shutdown,
         Recreate, Notify, Thread
<1>4. ownerAt' \in [Services -> {"new", "receiving", "failed", "running", "clear", "notify",
                                 "join", "destroyed", "members", "done", "crashed"}]
  <2>1. ownerAt' = ownerAt \/ \E l \in {"receiving", "done", "running", "failed", "clear",
                                        "notify", "join", "destroyed", "members", "new"} :
                                ownerAt' = [ownerAt EXCEPT ![s] = l]
    <3>1. CASE OwnerStep(s)
      BY <3>1, Zenon DEF OwnerStep, StartThread, DestroyClear, DestroyNotify, DestroyJoin, Destruct, Owner
    <3>2. CASE Environment(s) \/ NewService(s)
      BY <3>2, Zenon DEF Environment, StartThread, CreateReceiver, InitFails, Destroy, Shutdown,
                  Owner, NewService, Recreate
    <3> QED
      BY <3>1, <3>2
  <2> QED
    BY <2>1 DEF IInv, TypeOK
<1>5. ends' \in 0..MaxEnds
  BY DEF IInv, TypeOK, OwnerStep, Environment, NewService, StartThread, DestroyClear,
         DestroyNotify, DestroyJoin, Destruct, CreateReceiver, InitFails, Destroy, Shutdown,
         Recreate, Ends
<1>6. /\ inited_' \in [Services -> BOOLEAN] /\ request_receiver_' \in [Services -> BOOLEAN]
      /\ shutdown' \in [Services -> BOOLEAN] /\ UNCHANGED queue_mutex_
  BY DEF IInv, TypeOK, OwnerStep, Environment, NewService, StartThread, DestroyClear,
         DestroyNotify, DestroyJoin, Destruct, CreateReceiver, InitFails, Destroy, Shutdown,
         Recreate
<1>7. received' \in [Services -> [Clients -> Nat]] /\ UNCHANGED heard
  BY DEF IInv, TypeOK, OwnerStep, Environment, NewService
<1>8. tasks_' \in [Services -> Seq(Message)]
  <2>1. tasks_ \in [Services -> Seq(Message)] /\ <<>> \in Seq(Message)
    BY DEF IInv, TypeOK
  <2>2. [tasks_ EXCEPT ![s] = <<>>] \in [Services -> Seq(Message)]
    BY <2>1
  <2> QED
    BY <1>2, <2>1, <2>2
<1>9. TypeOK'
  <2>1. TypeOK /\ UNCHANGED <<clientVars, responses, task, queue_mutex_, heard>>
    BY <1>1, <1>6, <1>7 DEF IInv
  <2> QED
    BY <2>1, <1>3, <1>4, <1>5, <1>6, <1>7, <1>8, SMTT(60) DEF TypeOK, clientVars
<1> QED
  BY <1>1, <1>2, <1>3, <1>9, QuietStep

-----------------------------------------------------------------------------
\* The invariant holds in every state, for any clients, calls and services: headers belong
\* to their bodies all the way through service.h and back into client.h.
THEOREM ServiceInvariant == Spec => []IInv
<1>1. ASSUME IInv, [Next]_vars PROVE IInv'
  <2>1. CASE UNCHANGED vars
    <3>1. UNCHANGED <<clientVars, responses, task, tasks_, threadAt>>
      BY <2>1 DEF vars, serviceVars
    <3>2. TypeOK' /\ Numbered' /\ PendingWait' /\ ResponsesMatch'
      BY <1>1, <2>1 DEF vars, clientVars, serviceVars, IInv, TypeOK, Numbered, PendingWait,
                        ResponsesMatch
    <3>3. AllGenuine'
      BY <1>1, <3>1 DEF clientVars, IInv, AllGenuine, Genuine
    <3> QED
      BY <3>2, <3>3 DEF IInv
  <2>2. ASSUME NEW k \in Call, SendRequest(k) \/ EndSend(k) PROVE IInv'
    BY <1>1, <2>2, SendStep, EndSendStep
  <2>3. ASSUME NEW s \in Services,
               ThreadStep(s) \/ OwnerStep(s) \/ Environment(s) \/ NewService(s)
        PROVE  IInv'
    BY <1>1, <2>3, ProcessStep, OwnerSteps
  <2>4. ASSUME NEW s \in Services, NEW c \in Clients,
               DeliverRequest(s, c) \/ DeliverResponse(c, s)
        PROVE  IInv'
    BY <1>1, <2>4, RequestStep, ResponseStep
  <2> QED
    BY <1>1, <2>1, <2>2, <2>3, <2>4 DEF Next
<1> QED
  BY <1>1, InitIInv, PTL DEF Spec

\* A call never gets the answer to another one's request, and its promise is set at most
\* once, however many clients share the channels and however often services are restarted.
THEOREM ResponsesReachTheirCalls == Spec => []ResponsesMatch
<1>1. IInv => ResponsesMatch
  BY DEF IInv
<1> QED
  BY <1>1, ServiceInvariant, PTL
=============================================================================
