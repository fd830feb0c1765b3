------------------------------- MODULE Client -------------------------------
(***************************************************************************)
(* Client (code/cyber/service/client.h): requests over one channel, whose  *)
(* responses come back over another one that all clients of the service    *)
(* listen to.  A call is one SendRequest() by some thread; the function    *)
(* client says whose.                                                      *)
(***************************************************************************)
EXTENDS Naturals, Sequences

CONSTANTS
    Clients,
    Call,
    client,     \* [Call -> Clients]
    NoCall      \* no call; as a response, nullptr

ASSUME CallAssumption == client \in [Call -> Clients] /\ NoCall \notin Call

VARIABLES
    sequence_number_,
    pending_requests_,          \* of each client: sequence numbers and the promise of the call
    pending_requests_mutex_,    \* of each client: the call that holds it
    requests,                   \* what each client has written to the request channel
    callAt,                     \* "new", "transmitted" or "waiting"
    seq_num,                    \* the number of each call
    future                      \* what its promise was set to

clientVars == <<sequence_number_, pending_requests_, pending_requests_mutex_, requests,
                callAt, seq_num, future>>

ClientInit ==
    /\ sequence_number_ = [c \in Clients |-> 0]
    /\ pending_requests_ = [c \in Clients |-> {}]
    /\ pending_requests_mutex_ = [c \in Clients |-> NoCall]
    /\ requests = [c \in Clients |-> <<>>]
    /\ callAt = [k \in Call |-> "new"]
    /\ seq_num = [k \in Call |-> 0]
    /\ future = [k \in Call |-> NoCall]

Unlocked(c) == pending_requests_mutex_[c] = NoCall

\* The request carries the id of its writer twice; the service replaces the first one.
Request(c, n, k) == [sender_id |-> c, spare_id |-> c, seq_num |-> n, body |-> k]

-----------------------------------------------------------------------------
\* Mutant: the request is sent before the mutex is taken.
AsyncSendRequest_Unlocked(k) ==
    LET c == client[k] IN
    /\ callAt[k] = "new" /\ Unlocked(c)
    /\ sequence_number_' = [sequence_number_ EXCEPT ![c] = @ + 1]
    /\ seq_num' = [seq_num EXCEPT ![k] = sequence_number_'[c]]
    /\ requests' = [requests EXCEPT ![c] = Append(@, Request(c, sequence_number_'[c], k))]
    /\ callAt' = [callAt EXCEPT ![k] = "transmitted"]
    /\ UNCHANGED <<pending_requests_, pending_requests_mutex_, future>>

\* AsyncSendRequest(): under the mutex, the request is numbered and transmitted ...
AsyncSendRequest(k) ==
    LET c == client[k] IN
    /\ callAt[k] = "new" /\ Unlocked(c)
    /\ pending_requests_mutex_' = [pending_requests_mutex_ EXCEPT ![c] = k]
    /\ sequence_number_' = [sequence_number_ EXCEPT ![c] = @ + 1]
    /\ seq_num' = [seq_num EXCEPT ![k] = sequence_number_'[c]]
    /\ requests' = [requests EXCEPT ![c] = Append(@, Request(c, sequence_number_'[c], k))]
    /\ callAt' = [callAt EXCEPT ![k] = "transmitted"]
    /\ UNCHANGED <<pending_requests_, future>>

\* ... and then its promise is stored.  SendRequest() waits for the future, and returns
\* nullptr when its time is over; the promise stays among the pending ones either way.
AddPending(k) ==
    LET c == client[k] IN
    /\ callAt[k] = "transmitted"
    /\ pending_requests_' = [pending_requests_ EXCEPT ![c] = @ \cup {<<seq_num[k], k>>}]
    /\ pending_requests_mutex_' = [pending_requests_mutex_ EXCEPT ![c] = NoCall]
    /\ callAt' = [callAt EXCEPT ![k] = "waiting"]
    /\ UNCHANGED <<sequence_number_, requests, seq_num, future>>

\* Mutant: the response of another client is taken for an own one.
HandleResponse_AnyClient(c, msg) ==
    /\ Unlocked(c)
    /\ \E k \in Call : <<msg.seq_num, k>> \in pending_requests_[c]
         /\ pending_requests_' = [pending_requests_ EXCEPT ![c] = @ \ {<<msg.seq_num, k>>}]
         /\ future' = [future EXCEPT ![k] = msg.body]
    /\ UNCHANGED <<sequence_number_, pending_requests_mutex_, requests, callAt, seq_num>>

\* A response is ignored unless it answers a pending request of this client.
HandleResponse(c, msg) ==
    LET found == {k \in Call : msg.spare_id = c /\ <<msg.seq_num, k>> \in pending_requests_[c]} IN
    /\ Unlocked(c)
    /\ pending_requests_' =
           [pending_requests_ EXCEPT ![c] = @ \ {<<msg.seq_num, k>> : k \in found}]
    /\ future' = [k \in Call |-> IF k \in found THEN msg.body ELSE future[k]]
    /\ UNCHANGED <<sequence_number_, pending_requests_mutex_, requests, callAt, seq_num>>
=============================================================================
