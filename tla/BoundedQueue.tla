----------------------------- MODULE BoundedQueue -----------------------------
(***************************************************************************)
(* base::BoundedQueue (code/cyber/base/bounded_queue.h): a lock-free ring  *)
(* shared by any number of producers and consumers.                        *)
(*                                                                         *)
(*   head_    index of the last element handed out                         *)
(*   tail_    next index to reserve                                        *)
(*   commit_  next index to publish; head_+1 .. commit_-1 may be taken     *)
(*   pool_    Size + 2 slots; index i lives in slot GetIndex(i)            *)
(*                                                                         *)
(* A producer reserves an index by moving tail_, stores its element and    *)
(* publishes it by moving commit_, in the order of the indices.  A         *)
(* consumer copies the next slot and then claims it by moving head_.       *)
(* Every atomic access is a step of its own, and storing and copying an    *)
(* element take two steps each, as they do for the std::function and       *)
(* std::shared_ptr the queue is used with: a slot holds Torn while it is   *)
(* being stored, and a copy is Torn when its slot changed under it.        *)
(* The indices are 64 bits wide and do not wrap in any run of the program. *)
(***************************************************************************)
EXTENDS Integers, Sequences

CONSTANTS
    Producer, Consumer,
    Size,          \* the size given to Init()
    MaxCalls,      \* bound: calls of Enqueue() per producer
    Torn,          \* a partly stored or partly copied element
    Blank          \* a default constructed element

Element == Producer \X (1 .. MaxCalls)

ASSUME QueueAssumption ==
    /\ Size \in Nat
    /\ MaxCalls \in Nat
    /\ Producer \cap Consumer = {}
    /\ Torn \notin Element
    /\ Blank \notin Element

\* Init(): head and tail each occupy a slot.
pool_size_ == Size + 2

GetIndex(num) == num - (num \div pool_size_) * pool_size_

VARIABLES
    head_, tail_, commit_, pool_,
    pc,
    calls,         \* calls of Enqueue() made; names the producer's element
    old_tail,      \* local of Enqueue(), 0 outside
    old_head,      \* local of Dequeue(), 0 outside
    element,       \* what Dequeue() has copied
    delivered      \* history: elements handed out, in the order of head_

vars == <<head_, tail_, commit_, pool_, pc, calls, old_tail, old_head,
          element, delivered>>

Slot == 0 .. pool_size_ - 1
Thread == Producer \cup Consumer

\* The element of the call that p is in.
Mine(p) == <<p, calls[p]>>

Init ==
    /\ head_ = 0
    /\ tail_ = 1
    /\ commit_ = 1
    /\ pool_ = [s \in Slot |-> Blank]
    /\ pc = [t \in Thread |-> "idle"]
    /\ calls = [p \in Producer |-> 0]
    /\ old_tail = [p \in Producer |-> 0]
    /\ old_head = [c \in Consumer |-> 0]
    /\ element = [c \in Consumer |-> Blank]
    /\ delivered = <<>>

-----------------------------------------------------------------------------
(* Enqueue().                                                              *)

\* Enqueue() called: load tail_.
EnqueueLoad(p) ==
    /\ pc[p] = "idle"
    /\ calls[p] < MaxCalls
    /\ calls' = [calls EXCEPT ![p] = @ + 1]
    /\ old_tail' = [old_tail EXCEPT ![p] = tail_]
    /\ pc' = [pc EXCEPT ![p] = "e_test"]
    /\ UNCHANGED <<head_, tail_, commit_, pool_, old_head, element, delivered>>

\* The test against head_ that Enqueue() makes with its copy of tail_.
LooksFull(p) == GetIndex(old_tail[p] + 1) = GetIndex(head_)

EnqueueRefuse(p) ==
    /\ pc[p] = "e_test"
    /\ LooksFull(p)
    /\ pc' = [pc EXCEPT ![p] = "idle"]
    /\ old_tail' = [old_tail EXCEPT ![p] = 0]
    /\ UNCHANGED <<head_, tail_, commit_, pool_, calls, old_head, element,
                   delivered>>

EnqueueTest(p) ==
    /\ pc[p] = "e_test"
    /\ ~LooksFull(p)
    /\ pc' = [pc EXCEPT ![p] = "e_cas"]
    /\ UNCHANGED <<head_, tail_, commit_, pool_, calls, old_tail, old_head,
                   element, delivered>>

\* A reservation that takes its copy of tail_ for current.
EnqueueCasOk_Stale(p) ==
    /\ pc[p] = "e_cas"
    /\ tail_' = old_tail[p] + 1
    /\ pc' = [pc EXCEPT ![p] = "e_store"]
    /\ UNCHANGED <<head_, commit_, pool_, calls, old_tail, old_head, element,
                   delivered>>

\* A reservation that moves tail_ two indices.
EnqueueCasOk_LeavesGap(p) ==
    /\ pc[p] = "e_cas"
    /\ tail_ = old_tail[p]
    /\ tail_' = old_tail[p] + 2
    /\ pc' = [pc EXCEPT ![p] = "e_store"]
    /\ UNCHANGED <<head_, commit_, pool_, calls, old_tail, old_head, element,
                   delivered>>

EnqueueCasOk(p) ==
    /\ pc[p] = "e_cas"
    /\ tail_ = old_tail[p]
    /\ tail_' = old_tail[p] + 1
    /\ pc' = [pc EXCEPT ![p] = "e_store"]
    /\ UNCHANGED <<head_, commit_, pool_, calls, old_tail, old_head, element,
                   delivered>>

\* The exchange failed, rightly or spuriously, and loaded tail_ again.
EnqueueCasFail(p) ==
    /\ pc[p] = "e_cas"
    /\ old_tail' = [old_tail EXCEPT ![p] = tail_]
    /\ pc' = [pc EXCEPT ![p] = "e_test"]
    /\ UNCHANGED <<head_, tail_, commit_, pool_, calls, old_head, element,
                   delivered>>

EnqueueStoreBegin(p) ==
    /\ pc[p] = "e_store"
    /\ pool_' = [pool_ EXCEPT ![GetIndex(old_tail[p])] = Torn]
    /\ pc' = [pc EXCEPT ![p] = "e_storing"]
    /\ UNCHANGED <<head_, tail_, commit_, calls, old_tail, old_head, element,
                   delivered>>

EnqueueStoreEnd(p) ==
    /\ pc[p] = "e_storing"
    /\ pool_' = [pool_ EXCEPT ![GetIndex(old_tail[p])] = Mine(p)]
    /\ pc' = [pc EXCEPT ![p] = "e_commit"]
    /\ UNCHANGED <<head_, tail_, commit_, calls, old_tail, old_head, element,
                   delivered>>

\* A producer that publishes whatever has been reserved so far.
EnqueueCommit_OutOfTurn(p) ==
    /\ pc[p] = "e_commit"
    /\ commit_' = tail_
    /\ pc' = [pc EXCEPT ![p] = "idle"]
    /\ old_tail' = [old_tail EXCEPT ![p] = 0]
    /\ UNCHANGED <<head_, tail_, pool_, calls, old_head, element, delivered>>

\* The exchange of commit_ succeeds when it is p's turn; until then p spins.
\* NotifyOne(), which follows, is the business of module WaitQueue.
EnqueueCommit(p) ==
    /\ pc[p] = "e_commit"
    /\ commit_ = old_tail[p]
    /\ commit_' = old_tail[p] + 1
    /\ pc' = [pc EXCEPT ![p] = "idle"]
    /\ old_tail' = [old_tail EXCEPT ![p] = 0]
    /\ UNCHANGED <<head_, tail_, pool_, calls, old_head, element, delivered>>

-----------------------------------------------------------------------------
(* Dequeue().                                                              *)

\* Dequeue() called: load head_.
DequeueLoad(c) ==
    /\ pc[c] = "idle"
    /\ old_head' = [old_head EXCEPT ![c] = head_]
    /\ pc' = [pc EXCEPT ![c] = "d_test"]
    /\ UNCHANGED <<head_, tail_, commit_, pool_, calls, old_tail, element,
                   delivered>>

\* A test that leaves the last element in the queue.
LooksEmpty_KeepsOne(c) == old_head[c] + 2 >= commit_

\* The test against commit_ that Dequeue() makes with its copy of head_.
LooksEmpty(c) == old_head[c] + 1 = commit_

DequeueRefuse(c) ==
    /\ pc[c] = "d_test"
    /\ LooksEmpty(c)
    /\ pc' = [pc EXCEPT ![c] = "idle"]
    /\ old_head' = [old_head EXCEPT ![c] = 0]
    /\ UNCHANGED <<head_, tail_, commit_, pool_, calls, old_tail, element,
                   delivered>>

DequeueCopyBegin(c) ==
    /\ pc[c] = "d_test"
    /\ ~LooksEmpty(c)
    /\ element' = [element EXCEPT ![c] = pool_[GetIndex(old_head[c] + 1)]]
    /\ pc' = [pc EXCEPT ![c] = "d_copying"]
    /\ UNCHANGED <<head_, tail_, commit_, pool_, calls, old_tail, old_head,
                   delivered>>

DequeueCopyEnd(c) ==
    /\ pc[c] = "d_copying"
    /\ element' = [element EXCEPT ![c] =
                     IF @ = pool_[GetIndex(old_head[c] + 1)] THEN @ ELSE Torn]
    /\ pc' = [pc EXCEPT ![c] = "d_cas"]
    /\ UNCHANGED <<head_, tail_, commit_, pool_, calls, old_tail, old_head,
                   delivered>>

\* A consumer that takes its copy of head_ for current.
DequeueCasOk_Stale(c) ==
    /\ pc[c] = "d_cas"
    /\ head_' = head_ + 1
    /\ head_ + 1 < commit_
    /\ delivered' = Append(delivered, element[c])
    /\ pc' = [pc EXCEPT ![c] = "idle"]
    /\ old_head' = [old_head EXCEPT ![c] = 0]
    /\ UNCHANGED <<tail_, commit_, pool_, calls, old_tail, element>>

DequeueCasOk(c) ==
    /\ pc[c] = "d_cas"
    /\ head_ = old_head[c]
    /\ head_' = old_head[c] + 1
    /\ delivered' = Append(delivered, element[c])
    /\ pc' = [pc EXCEPT ![c] = "idle"]
    /\ old_head' = [old_head EXCEPT ![c] = 0]
    /\ UNCHANGED <<tail_, commit_, pool_, calls, old_tail, element>>

DequeueCasFail(c) ==
    /\ pc[c] = "d_cas"
    /\ old_head' = [old_head EXCEPT ![c] = head_]
    /\ pc' = [pc EXCEPT ![c] = "d_test"]
    /\ UNCHANGED <<head_, tail_, commit_, pool_, calls, old_tail, element,
                   delivered>>

-----------------------------------------------------------------------------
ProducerStep(p) ==
    \/ EnqueueLoad(p)
    \/ EnqueueRefuse(p)
    \/ EnqueueTest(p)
    \/ EnqueueCasOk(p)
    \/ EnqueueCasFail(p)
    \/ EnqueueStoreBegin(p)
    \/ EnqueueStoreEnd(p)
    \/ EnqueueCommit(p)

ConsumerStep(c) ==
    \/ DequeueLoad(c)
    \/ DequeueRefuse(c)
    \/ DequeueCopyBegin(c)
    \/ DequeueCopyEnd(c)
    \/ DequeueCasOk(c)
    \/ DequeueCasFail(c)

Next == \/ \E p \in Producer : ProducerStep(p)
        \/ \E c \in Consumer : ConsumerStep(c)

Spec == Init /\ [][Next]_vars

\* The operating system runs every thread that is inside Enqueue().
FairSpec == Spec /\ \A p \in Producer :
                      /\ WF_vars(EnqueueStoreBegin(p))
                      /\ WF_vars(EnqueueStoreEnd(p))
                      /\ WF_vars(EnqueueCommit(p))

-----------------------------------------------------------------------------
(* Properties.                                                             *)

\* The indices are ordered and never further apart than the ring allows.
TypeOK ==
    /\ head_ \in Nat /\ tail_ \in Nat /\ commit_ \in Nat
    /\ head_ < commit_ /\ commit_ <= tail_ /\ tail_ <= head_ + Size + 1
    /\ pool_ \in [Slot -> Element \cup {Torn, Blank}]
    /\ pc \in [Thread -> {"idle", "e_test", "e_cas", "e_store", "e_storing",
                          "e_commit", "d_test", "d_copying", "d_cas"}]
    /\ calls \in [Producer -> 0 .. MaxCalls]
    /\ old_tail \in [Producer -> Nat]
    /\ old_head \in [Consumer -> Nat]
    /\ element \in [Consumer -> Element \cup {Torn, Blank}]

\* The published part of the ring, as a sequence.
Contents == [i \in 1 .. commit_ - head_ - 1 |-> pool_[GetIndex(head_ + i)]]

\* The ring implements the bounded queue: Enqueue() takes effect when it
\* publishes, Dequeue() when it moves head_.  So nothing is lost, handed out
\* twice, out of order or torn, and no more than Size elements are held.
Fifo == INSTANCE BoundedFifo WITH queue <- Contents
ImplementsFifo == Fifo!Spec

\* A producer between its reservation and its publication owns a slot: no
\* second producer has it, and no consumer is entitled to it.
SlotsOwned ==
    \A p \in Producer : pc[p] \in {"e_store", "e_storing", "e_commit"} =>
        /\ \A q \in Producer \ {p} :
             pc[q] \in {"e_store", "e_storing", "e_commit"} =>
               GetIndex(old_tail[p]) # GetIndex(old_tail[q])
        /\ \A i \in head_ + 1 .. commit_ - 1 :
             GetIndex(old_tail[p]) # GetIndex(i)

\* Dequeue() answers "empty" only at a moment when nothing is published,
\* however stale its copy of head_ is.
EmptyIsReal ==
    [][\A c \in Consumer : DequeueRefuse(c) => Contents = <<>>]_vars

\* An element whose index is reserved gets published: the turns taken on
\* commit_ never wait for each other in a circle.
ReservedIsPublished ==
    \A p \in Producer : pc[p] = "e_store" ~> pc[p] = "idle"
=============================================================================
