-------------------------- MODULE BoundedQueueProofs --------------------------
(***************************************************************************)
(* Proofs about BoundedQueue for every number of producers and consumers   *)
(* and every size: the ring implements the bounded first-in first-out      *)
(* queue of module BoundedFifo.                                            *)
(*                                                                         *)
(* The argument rests on one fact about the ring, IndexInjective: indices  *)
(* that are less than pool_size_ apart live in different slots.  IInv      *)
(* keeps everything that matters within head_ .. head_ + pool_size_ - 1:   *)
(* a producer owns an index of commit_ .. tail_-1 (Owners), a test against *)
(* head_ that is still valid leaves room for one more index (RoomLeft),    *)
(* and a consumer whose copy of head_ is current has copied a slot that    *)
(* nobody may store to (CopyCurrent).                                      *)
(***************************************************************************)
EXTENDS BoundedQueue, SequenceTheorems, TLAPS

\* The pool has at least the two slots that Init() adds to its size.
LEMMA PoolSize == pool_size_ \in Nat /\ pool_size_ >= 2
BY QueueAssumption DEF pool_size_

\* GetIndex() is a slot of the pool.
LEMMA IndexRange ==
    ASSUME NEW i \in Nat
    PROVE  /\ GetIndex(i) \in Slot
           /\ GetIndex(i) = i % pool_size_
BY PoolSize, Z3 DEF GetIndex, Slot

\* A positive multiple of the pool size is at least the pool size.
LEMMA Multiple ==
    ASSUME NEW d \in Int, NEW P \in Nat, P > 0, d * P > 0
    PROVE  d * P >= P
<1>1. CASE d <= 0
  <2>1. d * P <= 0 BY <1>1
  <2> QED BY <2>1
<1>2. CASE d >= 1
  BY <1>2
<1> QED BY <1>1, <1>2

\* Two positions less than a pool size apart have different slots.
LEMMA IndexInjective ==
    ASSUME NEW i \in Nat, NEW j \in Nat, i < j, j < i + pool_size_
    PROVE  GetIndex(i) # GetIndex(j)
<1> DEFINE qi == i \div pool_size_
           qj == j \div pool_size_
<1>0. qi \in Int /\ qj \in Int
  BY PoolSize
<1>1. SUFFICES ASSUME GetIndex(i) = GetIndex(j) PROVE FALSE
  OBVIOUS
<1>2. i - qi * pool_size_ = j - qj * pool_size_
  BY <1>1 DEF GetIndex
<1> HIDE DEF qi, qj
<1>3. j - i = (qj - qi) * pool_size_
  BY <1>0, <1>2, PoolSize
<1>4. (qj - qi) * pool_size_ >= pool_size_
  BY <1>0, <1>3, PoolSize, Multiple
<1> QED BY <1>3, <1>4, PoolSize

\* Positions one pool size apart share a slot.
LEMMA IndexPeriodic ==
    ASSUME NEW i \in Nat
    PROVE  GetIndex(i + pool_size_) = GetIndex(i)
<1>1. (i + pool_size_) \div pool_size_ = (i \div pool_size_) + 1
  BY PoolSize
<1> DEFINE q == i \div pool_size_
<1>2. q \in Int
  BY PoolSize
<1> HIDE DEF q
<1>3. (q + 1) * pool_size_ = q * pool_size_ + pool_size_
  BY <1>2, PoolSize
<1> QED BY <1>1, <1>2, <1>3, PoolSize DEF GetIndex, q

-----------------------------------------------------------------------------
(* The inductive invariant.                                                *)

Owning == {p \in Producer : pc[p] \in {"e_store", "e_storing", "e_commit"}}

\* Producers and consumers run their own methods.
Places ==
    /\ \A p \in Producer :
         /\ pc[p] \in {"idle", "e_test", "e_cas", "e_store", "e_storing",
                       "e_commit"}
         /\ pc[p] # "idle" => calls[p] >= 1
    /\ \A c \in Consumer : pc[c] \in {"idle", "d_test", "d_copying", "d_cas"}

Owners ==
    /\ \A p \in Owning : commit_ <= old_tail[p] /\ old_tail[p] < tail_
    /\ \A p, q \in Owning : p # q => old_tail[p] # old_tail[q]

\* A stored element is in place until it is published.
Stored ==
    \A p \in Producer :
      pc[p] = "e_commit" => pool_[GetIndex(old_tail[p])] = Mine(p)

RoomLeft ==
    \A p \in Producer :
      /\ pc[p] \in {"e_test", "e_cas"} => old_tail[p] <= tail_
      /\ pc[p] = "e_cas" /\ old_tail[p] = tail_ => tail_ <= head_ + Size

CopyCurrent ==
    \A c \in Consumer :
      /\ pc[c] # "idle" => old_head[c] <= head_
      /\ pc[c] \in {"d_copying", "d_cas"} /\ old_head[c] = head_ =>
           /\ head_ + 1 < commit_
           /\ element[c] = pool_[GetIndex(head_ + 1)]

IInv == TypeOK /\ Places /\ Owners /\ Stored /\ RoomLeft /\ CopyCurrent

\* Init() builds an empty queue.
LEMMA InitIInv == Init => IInv
<1> SUFFICES ASSUME Init PROVE IInv
  OBVIOUS
<1>1. TypeOK
  BY QueueAssumption DEF Init, TypeOK, Thread
<1>2. Places /\ Owners /\ Stored /\ RoomLeft /\ CopyCurrent
  BY DEF Init, Places, Owners, Owning, Stored, RoomLeft, CopyCurrent, Thread
<1> QED BY <1>1, <1>2 DEF IInv

\* What the steps that touch neither the ring nor its indices need.
LEMMA OwnedSlot ==
    ASSUME IInv, NEW p \in Owning, NEW i \in head_ + 1 .. commit_ - 1
    PROVE  GetIndex(i) # GetIndex(old_tail[p])
<1>1. /\ p \in Producer /\ old_tail[p] \in Nat /\ i \in Nat
      /\ i < old_tail[p] /\ old_tail[p] < i + pool_size_
  BY QueueAssumption DEF IInv, TypeOK, Owners, Owning, pool_size_
<1> QED BY <1>1, IndexInjective

\* Two producers that own an index own different slots.
LEMMA OwnedSlots ==
    ASSUME IInv, NEW p \in Owning, NEW q \in Owning, p # q
    PROVE  GetIndex(old_tail[q]) # GetIndex(old_tail[p])
<1>1. /\ p \in Producer /\ q \in Producer
      /\ old_tail[p] \in Nat /\ old_tail[q] \in Nat
      /\ old_tail[p] # old_tail[q]
      /\ old_tail[p] < old_tail[q] + pool_size_
      /\ old_tail[q] < old_tail[p] + pool_size_
  BY QueueAssumption DEF IInv, TypeOK, Owners, Owning, pool_size_
<1>2. CASE old_tail[p] < old_tail[q]
  BY <1>1, <1>2, IndexInjective
<1>3. CASE old_tail[q] < old_tail[p]
  BY <1>1, <1>3, IndexInjective
<1> QED BY <1>1, <1>2, <1>3

\* Every step of Enqueue() keeps the invariant.
LEMMA ProducerKeepsIInv ==
    ASSUME IInv, NEW p \in Producer, ProducerStep(p)
    PROVE  IInv'
<1> USE DEF IInv
<1>p. p \in Thread /\ \A c \in Consumer : c # p /\ c \in Thread
  BY QueueAssumption DEF Thread
<1>s. Size \in Nat /\ MaxCalls \in Nat
  BY QueueAssumption
<1>1. CASE EnqueueLoad(p)
  <2>1. TypeOK'
    BY <1>1, <1>p, <1>s DEF EnqueueLoad, TypeOK
  <2>2. Places'
    BY <1>1, <1>p, <1>s DEF EnqueueLoad, TypeOK, Places
  <2>3. Owning' = Owning /\ p \notin Owning
    BY <1>1, <1>p DEF EnqueueLoad, TypeOK, Owning, Thread
  <2>4. Owners'
    BY <1>1, <2>3 DEF EnqueueLoad, TypeOK, Owners, Owning
  <2>5. Stored'
    BY <1>1, <1>p DEF EnqueueLoad, TypeOK, Stored, Mine, Thread
  <2>6. RoomLeft' /\ CopyCurrent'
    BY <1>1, <1>p, <1>s DEF EnqueueLoad, TypeOK, RoomLeft, CopyCurrent, Thread
  <2> QED BY <2>1, <2>2, <2>4, <2>5, <2>6
<1>2. CASE EnqueueRefuse(p)
  <2>1. Owning' = Owning /\ p \notin Owning
    BY <1>2, <1>p DEF EnqueueRefuse, TypeOK, Owning, Thread
  <2>2. Owners'
    BY <1>2, <2>1 DEF EnqueueRefuse, TypeOK, Owners, Owning
  <2>3. TypeOK' /\ Places' /\ Stored'
    BY <1>2, <1>p DEF EnqueueRefuse, TypeOK, Places, Stored, Mine, Thread
  <2>4. RoomLeft' /\ CopyCurrent'
    BY <1>2, <1>p DEF EnqueueRefuse, TypeOK, RoomLeft, CopyCurrent, Thread
  <2> QED BY <2>2, <2>3, <2>4
<1>3. CASE EnqueueTest(p)
  <2>1. Owning' = Owning
    BY <1>3, <1>p DEF EnqueueTest, TypeOK, Owning, Thread
  <2>2. ASSUME old_tail[p] = tail_ PROVE tail_ <= head_ + Size
    <3>1. GetIndex(head_ + pool_size_) = GetIndex(head_)
      BY IndexPeriodic DEF TypeOK
    <3>2. tail_ + 1 # head_ + pool_size_
      BY <1>3, <2>2, <3>1 DEF EnqueueTest, LooksFull
    <3> QED BY <3>2, <1>s DEF TypeOK, pool_size_
  <2>3. RoomLeft'
    BY <1>3, <1>p, <2>2 DEF EnqueueTest, TypeOK, RoomLeft, Thread
  <2> QED
    BY <1>3, <1>p, <2>1, <2>3 DEF EnqueueTest, TypeOK, Places, Owners, Stored,
                   CopyCurrent, Mine, Thread
<1>4. CASE EnqueueCasOk(p)
  <2>1. Owning' = Owning \cup {p} /\ p \notin Owning
    BY <1>4, <1>p DEF EnqueueCasOk, TypeOK, Owning, Thread
  <2>2. tail_ <= head_ + Size /\ tail_' = tail_ + 1 /\ old_tail[p] = tail_
    BY <1>4 DEF EnqueueCasOk, RoomLeft
  <2>3. TypeOK'
    BY <1>4, <1>p, <1>s, <2>2 DEF EnqueueCasOk, TypeOK
  <2>4. Places' /\ Stored'
    BY <1>4, <1>p DEF EnqueueCasOk, TypeOK, Places, Stored, Mine, Thread
  <2>5. Owners'
    BY <1>4, <2>1, <2>2 DEF EnqueueCasOk, TypeOK, Owners, Owning
  <2>6. RoomLeft' /\ CopyCurrent'
    BY <1>4, <1>p, <1>s, <2>2 DEF EnqueueCasOk, TypeOK, RoomLeft, CopyCurrent, Thread
  <2> QED BY <2>3, <2>4, <2>5, <2>6
<1>5. CASE EnqueueCasFail(p)
  <2>1. Owning' = Owning /\ p \notin Owning
    BY <1>5, <1>p DEF EnqueueCasFail, TypeOK, Owning, Thread
  <2>2. Owners'
    BY <1>5, <2>1 DEF EnqueueCasFail, TypeOK, Owners, Owning
  <2>3. TypeOK' /\ Places' /\ Stored'
    BY <1>5, <1>p DEF EnqueueCasFail, TypeOK, Places, Stored, Mine, Thread
  <2>4. RoomLeft' /\ CopyCurrent'
    BY <1>5, <1>p DEF EnqueueCasFail, TypeOK, RoomLeft, CopyCurrent, Thread
  <2> QED BY <2>2, <2>3, <2>4
<1>6. CASE EnqueueStoreBegin(p) \/ EnqueueStoreEnd(p)
  <2>1. Owning' = Owning /\ p \in Owning
    BY <1>6, <1>p DEF EnqueueStoreBegin, EnqueueStoreEnd, TypeOK, Owning, Thread
  <2>2. /\ UNCHANGED <<head_, tail_, commit_, calls, old_tail, old_head, element>>
        /\ \A s \in Slot : s # GetIndex(old_tail[p]) => pool_'[s] = pool_[s]
    BY <1>6 DEF EnqueueStoreBegin, EnqueueStoreEnd, TypeOK
  <2>3. GetIndex(old_tail[p]) \in Slot
    BY IndexRange DEF TypeOK
  <2>4. TypeOK' /\ Places'
    <3>1. Mine(p) \in Element
      BY <1>6, <1>s DEF TypeOK, Places, Mine, Element, EnqueueStoreBegin, EnqueueStoreEnd
    <3>2. pool_' \in [Slot -> Element \cup {Torn, Blank}]
      BY <1>6, <3>1, <2>3 DEF EnqueueStoreBegin, EnqueueStoreEnd, TypeOK
    <3> QED
      BY <1>6, <1>p, <2>2, <3>2 DEF EnqueueStoreBegin, EnqueueStoreEnd, TypeOK, Places, Thread
  <2>5. Owners'
    BY <2>1, <2>2 DEF Owners, Owning
  <2>6. Stored'
    <3> SUFFICES ASSUME NEW q \in Producer, pc'[q] = "e_commit"
                 PROVE  pool_'[GetIndex(old_tail[q])] = Mine(q)
      BY <2>2 DEF Stored, Mine
    <3>1. CASE q = p
      BY <3>1, <1>6, <1>p, <2>3 DEF EnqueueStoreBegin, EnqueueStoreEnd, TypeOK
    <3>2. CASE q # p
      <4>1. pc[q] = "e_commit" /\ q \in Owning
        BY <3>2, <1>6 DEF EnqueueStoreBegin, EnqueueStoreEnd, TypeOK, Owning, Thread
      <4>2. GetIndex(old_tail[q]) # GetIndex(old_tail[p])
        BY <3>2, <4>1, <2>1, OwnedSlots
      <4>3. GetIndex(old_tail[q]) \in Slot
        BY IndexRange DEF TypeOK
      <4> QED BY <4>1, <4>2, <4>3, <2>2 DEF Stored
    <3> QED BY <3>1, <3>2
  <2>7. RoomLeft'
    BY <1>6, <1>p, <2>2 DEF EnqueueStoreBegin, EnqueueStoreEnd, RoomLeft, TypeOK, Thread
  <2>8. CopyCurrent'
    <3> SUFFICES ASSUME NEW c \in Consumer
                 PROVE /\ pc'[c] # "idle" => old_head[c] <= head_
                       /\ pc'[c] \in {"d_copying", "d_cas"} /\ old_head[c] = head_ =>
                            /\ head_ + 1 < commit_
                            /\ element[c] = pool_'[GetIndex(head_ + 1)]
      BY <2>2 DEF CopyCurrent
    <3>1. pc'[c] = pc[c]
      BY <1>6, <1>p DEF EnqueueStoreBegin, EnqueueStoreEnd, TypeOK
    <3>2. ASSUME head_ + 1 < commit_
          PROVE  pool_'[GetIndex(head_ + 1)] = pool_[GetIndex(head_ + 1)]
      <4>1. head_ + 1 \in head_ + 1 .. commit_ - 1
        BY <3>2 DEF TypeOK
      <4>2. GetIndex(head_ + 1) # GetIndex(old_tail[p])
        BY <4>1, <2>1, OwnedSlot
      <4>3. GetIndex(head_ + 1) \in Slot
        BY IndexRange DEF TypeOK
      <4> QED BY <4>2, <4>3, <2>2
    <3> QED BY <3>1, <3>2 DEF CopyCurrent
  <2> QED BY <2>4, <2>5, <2>6, <2>7, <2>8
<1>7. CASE EnqueueCommit(p)
  <2>1. Owning' = Owning \ {p} /\ p \in Owning
    BY <1>7, <1>p DEF EnqueueCommit, TypeOK, Owning, Thread
  <2>2. commit_ = old_tail[p] /\ commit_' = commit_ + 1 /\ commit_ < tail_
    BY <1>7, <2>1 DEF EnqueueCommit, Owners
  <2>3. TypeOK' /\ Places' /\ Stored'
    BY <1>7, <1>p, <2>2 DEF EnqueueCommit, TypeOK, Places, Stored, Mine, Thread
  <2>4. Owners'
    BY <1>7, <2>1, <2>2 DEF EnqueueCommit, TypeOK, Owners, Owning
  <2>5. RoomLeft' /\ CopyCurrent'
    BY <1>7, <1>p, <2>2 DEF EnqueueCommit, TypeOK, RoomLeft, CopyCurrent, Thread
  <2> QED BY <2>3, <2>4, <2>5
<1> QED
  BY <1>1, <1>2, <1>3, <1>4, <1>5, <1>6, <1>7 DEF ProducerStep

\* Every step of Dequeue() keeps the invariant.
LEMMA ConsumerKeepsIInv ==
    ASSUME IInv, NEW c \in Consumer, ConsumerStep(c)
    PROVE  IInv'
<1> USE DEF IInv
<1>c. c \in Thread /\ \A p \in Producer : c # p /\ p \in Thread
  BY QueueAssumption DEF Thread
<1>s. Size \in Nat
  BY QueueAssumption
<1>1. UNCHANGED <<tail_, commit_, pool_, calls, old_tail>>
  BY DEF ConsumerStep, DequeueLoad, DequeueRefuse, DequeueCopyBegin,
         DequeueCopyEnd, DequeueCasOk, DequeueCasFail
<1>2. \A p \in Producer : pc'[p] = pc[p]
  BY <1>c DEF TypeOK, ConsumerStep, DequeueLoad, DequeueRefuse,
         DequeueCopyBegin, DequeueCopyEnd, DequeueCasOk, DequeueCasFail
<1>3. Owners' /\ Stored'
  BY <1>1, <1>2 DEF Owners, Owning, Stored, Mine
<1>4. head_' \in Nat /\ head_ <= head_' /\ head_' < commit_
  BY DEF TypeOK, CopyCurrent, ConsumerStep, DequeueLoad, DequeueRefuse,
         DequeueCopyBegin, DequeueCopyEnd, DequeueCasOk, DequeueCasFail
<1>5. RoomLeft'
  <2>1. /\ head_ \in Nat /\ tail_ \in Nat /\ tail_' = tail_
        /\ \A p \in Producer : old_tail'[p] = old_tail[p] /\ pc'[p] = pc[p]
    BY <1>1, <1>2 DEF TypeOK
  <2>2. tail_ <= head_ + Size => tail_ <= head_' + Size
    BY <2>1, <1>4, <1>s
  <2> QED BY <2>1, <2>2 DEF RoomLeft
<1>6. GetIndex(old_head[c] + 1) \in Slot
  BY IndexRange DEF TypeOK
<1>7. CASE DequeueLoad(c)
  BY <1>7, <1>c, <1>s, <1>3, <1>5 DEF DequeueLoad, TypeOK, Places, CopyCurrent, Thread
<1>8. CASE DequeueRefuse(c)
  BY <1>8, <1>c, <1>s, <1>3, <1>5 DEF DequeueRefuse, TypeOK, Places, CopyCurrent, Thread
<1>9. CASE DequeueCopyBegin(c)
  BY <1>9, <1>c, <1>s, <1>3, <1>5, <1>6 DEF DequeueCopyBegin, LooksEmpty, TypeOK, Places, CopyCurrent, Thread
<1>10. CASE DequeueCopyEnd(c)
  BY <1>10, <1>c, <1>s, <1>3, <1>5, <1>6 DEF DequeueCopyEnd, TypeOK, Places, CopyCurrent, Thread
<1>11. CASE DequeueCasOk(c)
  BY <1>11, <1>c, <1>s, <1>3, <1>4, <1>5 DEF DequeueCasOk, TypeOK, Places, CopyCurrent, Thread
<1>12. CASE DequeueCasFail(c)
  BY <1>12, <1>c, <1>s, <1>3, <1>5 DEF DequeueCasFail, TypeOK, Places, CopyCurrent, Thread
<1> QED
  BY <1>7, <1>8, <1>9, <1>10, <1>11, <1>12 DEF ConsumerStep

\* Every step keeps the invariant.
LEMMA NextIInv == IInv /\ [Next]_vars => IInv'
<1> SUFFICES ASSUME IInv, [Next]_vars PROVE IInv'
  OBVIOUS
<1>1. CASE UNCHANGED vars
  BY <1>1 DEF vars, IInv, TypeOK, Places, Owners, Owning, Stored, RoomLeft,
              CopyCurrent, Mine
<1> QED
  BY <1>1, ProducerKeepsIInv, ConsumerKeepsIInv DEF Next

-----------------------------------------------------------------------------
(* The published part of the ring.                                         *)

Storable == Element \cup {Torn, Blank}

ContentsShape ==
    /\ commit_ - head_ - 1 \in 0 .. Size
    /\ Contents \in Seq(Storable)
    /\ Len(Contents) = commit_ - head_ - 1
    /\ \A i \in 1 .. commit_ - head_ - 1 :
         Contents[i] = pool_[GetIndex(head_ + i)]

\* The committed slots, in order, are a queue's contents.
LEMMA ContentsSeq == IInv => ContentsShape
<1> SUFFICES ASSUME IInv PROVE ContentsShape
  OBVIOUS
<1> DEFINE n == commit_ - head_ - 1
<1>1. n \in Nat /\ n \in 0 .. Size /\ head_ \in Nat
  BY QueueAssumption DEF IInv, TypeOK
<1> HIDE DEF n
<1>2. \A i \in 1 .. n : pool_[GetIndex(head_ + i)] \in Storable
  <2> SUFFICES ASSUME NEW i \in 1 .. n
               PROVE  pool_[GetIndex(head_ + i)] \in Storable
    OBVIOUS
  <2>1. head_ + i \in Nat
    BY <1>1
  <2>2. GetIndex(head_ + i) \in Slot
    BY <2>1, IndexRange
  <2> QED BY <2>2 DEF IInv, TypeOK, Storable
<1>3. Contents = [i \in 1 .. n |-> pool_[GetIndex(head_ + i)]]
  BY DEF Contents, n
<1>4. Contents \in [1 .. n -> Storable]
  BY <1>2, <1>3
<1>5. Contents \in Seq(Storable)
  BY <1>1, <1>4, SeqDef
<1>6. DOMAIN Contents = 1 .. n /\ Len(Contents) \in Nat
      /\ DOMAIN Contents = 1 .. Len(Contents)
  BY <1>4, <1>5, LenProperties
<1>7. Len(Contents) = n
  BY <1>1, <1>6
<1> QED BY <1>1, <1>3, <1>5, <1>7 DEF n, ContentsShape

\* Publication appends the producer's element.
LEMMA CommitAppends ==
    ASSUME IInv, IInv', NEW p \in Producer, EnqueueCommit(p)
    PROVE  Fifo!Enqueue(Mine(p)) /\ Mine(p) \in Element
<1>1. p \in Owning /\ commit_ = old_tail[p] /\ commit_' = commit_ + 1
      /\ commit_ < tail_ /\ head_' = head_ /\ pool_' = pool_
      /\ delivered' = delivered
  BY DEF EnqueueCommit, IInv, Owners, Owning
<1>2. pool_[GetIndex(commit_)] = Mine(p)
  BY <1>1 DEF EnqueueCommit, IInv, Stored
<1>3. Mine(p) \in Element
  BY DEF EnqueueCommit, IInv, TypeOK, Places, Mine, Element
<1>s. ContentsShape /\ ContentsShape'
  <2>1. IInv' => ContentsShape'
    BY ContentsSeq, PTL
  <2> QED BY <2>1, ContentsSeq
<1>4. Len(Contents) < Size
  <2>1. Len(Contents) = commit_ - head_ - 1
    BY <1>s DEF ContentsShape
  <2>2. /\ commit_ \in Nat /\ head_ \in Nat /\ tail_ \in Nat
        /\ tail_ <= head_ + Size + 1
    BY DEF IInv, TypeOK
  <2> QED BY <2>1, <2>2, <1>1, QueueAssumption
<1> DEFINE e == Mine(p)
<1>5. /\ Contents' \in Seq(Storable)
      /\ Len(Contents') = commit_' - head_' - 1
      /\ \A i \in 1 .. commit_' - head_' - 1 :
           Contents'[i] = pool_'[GetIndex(head_' + i)]
  BY <1>s DEF ContentsShape
<1>6. e \in Storable
  BY <1>3 DEF Storable
<1> HIDE DEF e
<1>7. /\ Append(Contents, e) \in Seq(Storable)
      /\ Len(Append(Contents, e)) = Len(Contents) + 1
      /\ \A i \in 1 .. Len(Contents) : Append(Contents, e)[i] = Contents[i]
      /\ Append(Contents, e)[Len(Contents) + 1] = e
  BY <1>6, <1>s, AppendProperties DEF ContentsShape
<1>8. head_ \in Nat /\ commit_ \in Nat /\ head_ < commit_
  BY DEF IInv, TypeOK
<1>9. Len(Contents') = Len(Append(Contents, e))
  <2>1. Len(Contents') = (commit_ + 1) - head_ - 1
    BY <1>1, <1>5
  <2>2. Len(Append(Contents, e)) = (commit_ - head_ - 1) + 1
    BY <1>7, <1>s DEF ContentsShape
  <2> QED BY <2>1, <2>2, <1>8
<1>10. \A i \in 1 .. Len(Contents') : Contents'[i] = Append(Contents, e)[i]
  <2> SUFFICES ASSUME NEW i \in 1 .. Len(Contents')
               PROVE  Contents'[i] = Append(Contents, e)[i]
    OBVIOUS
  <2>1. Contents'[i] = pool_[GetIndex(head_ + i)]
    BY <1>1, <1>5
  <2>2. CASE i = Len(Contents) + 1
    <3>1. head_ + i = commit_
      BY <2>2, <1>8, <1>s DEF ContentsShape
    <3> QED BY <2>1, <2>2, <3>1, <1>2, <1>7 DEF e
  <2>3. CASE i \in 1 .. Len(Contents)
    BY <2>1, <2>3, <1>7, <1>s DEF ContentsShape
  <2> QED BY <2>2, <2>3, <1>9, <1>7, <1>8, <1>s DEF ContentsShape
<1>11. Contents' = Append(Contents, e)
  BY <1>5, <1>7, <1>9, <1>10, SeqEqual
<1> QED BY <1>1, <1>3, <1>4, <1>11 DEF Fifo!Enqueue, e

\* Moving head_ hands out the first element.
LEMMA ClaimTakesFirst ==
    ASSUME IInv, IInv', NEW c \in Consumer, DequeueCasOk(c)
    PROVE  Fifo!Dequeue
<1>1. /\ head_ = old_head[c] /\ head_' = head_ + 1
      /\ commit_' = commit_ /\ pool_' = pool_
      /\ delivered' = Append(delivered, element[c])
      /\ pc[c] = "d_cas"
  BY DEF DequeueCasOk
<1>2. /\ head_ + 1 < commit_ /\ element[c] = pool_[GetIndex(head_ + 1)]
      /\ head_ \in Nat /\ commit_ \in Nat
  BY <1>1 DEF IInv, TypeOK, CopyCurrent
<1>s. ContentsShape /\ ContentsShape'
  <2>1. IInv' => ContentsShape'
    BY ContentsSeq, PTL
  <2> QED BY <2>1, ContentsSeq
<1>3. Len(Contents) >= 1 /\ Len(Contents) = commit_ - head_ - 1
  BY <1>2, <1>s DEF ContentsShape
<1>4. Contents # <<>>
  BY <1>3
<1>5. Head(Contents) = element[c]
  <2>1. Head(Contents) = Contents[1]
    BY <1>s, <1>4 DEF ContentsShape
  <2>2. Contents[1] = pool_[GetIndex(head_ + 1)]
    BY <1>2, <1>3, <1>s DEF ContentsShape
  <2> QED BY <2>1, <2>2, <1>2
<1>6. /\ Tail(Contents) \in Seq(Storable)
      /\ Len(Tail(Contents)) = Len(Contents) - 1
      /\ \A i \in 1 .. Len(Tail(Contents)) : Tail(Contents)[i] = Contents[i + 1]
  BY <1>4, <1>s, HeadTailProperties DEF ContentsShape
<1>7. /\ Contents' \in Seq(Storable)
      /\ Len(Contents') = commit_ - (head_ + 1) - 1
      /\ \A i \in 1 .. commit_ - (head_ + 1) - 1 :
           Contents'[i] = pool_[GetIndex(head_ + 1 + i)]
  BY <1>1, <1>s DEF ContentsShape
<1>8. Len(Contents') = Len(Tail(Contents))
  BY <1>2, <1>3, <1>6, <1>7
<1>9. \A i \in 1 .. Len(Contents') : Contents'[i] = Tail(Contents)[i]
  <2> SUFFICES ASSUME NEW i \in 1 .. Len(Contents')
               PROVE  Contents'[i] = Tail(Contents)[i]
    OBVIOUS
  <2>1. i \in Nat /\ i + 1 \in 1 .. commit_ - head_ - 1
        /\ head_ + (i + 1) = head_ + 1 + i
    BY <1>2, <1>7
  <2>2. Contents[i + 1] = pool_[GetIndex(head_ + 1 + i)]
    BY <2>1, <1>s DEF ContentsShape
  <2> QED BY <2>2, <1>6, <1>7, <1>8
<1>10. Contents' = Tail(Contents)
  BY <1>6, <1>7, <1>8, <1>9, SeqEqual
<1> QED BY <1>1, <1>4, <1>5, <1>10 DEF Fifo!Dequeue

\* A step that stores touches no published slot.
LEMMA StoreKeepsContents ==
    ASSUME IInv, NEW p \in Producer,
           EnqueueStoreBegin(p) \/ EnqueueStoreEnd(p)
    PROVE  Contents' = Contents
<1>1. /\ head_' = head_ /\ commit_' = commit_ /\ p \in Owning
      /\ head_ \in Nat /\ commit_ \in Nat
  BY DEF EnqueueStoreBegin, EnqueueStoreEnd, Owning, IInv, TypeOK
<1>2. \A i \in 1 .. commit_ - head_ - 1 :
        pool_'[GetIndex(head_ + i)] = pool_[GetIndex(head_ + i)]
  <2> SUFFICES ASSUME NEW i \in 1 .. commit_ - head_ - 1
               PROVE  pool_'[GetIndex(head_ + i)] = pool_[GetIndex(head_ + i)]
    OBVIOUS
  <2>1. head_ + i \in head_ + 1 .. commit_ - 1 /\ head_ + i \in Nat
    BY <1>1
  <2>2. GetIndex(head_ + i) # GetIndex(old_tail[p])
    BY <1>1, <2>1, OwnedSlot
  <2>3. GetIndex(head_ + i) \in Slot
    BY <2>1, IndexRange
  <2> QED BY <2>2, <2>3 DEF EnqueueStoreBegin, EnqueueStoreEnd, IInv, TypeOK
<1> QED BY <1>1, <1>2 DEF Contents

-----------------------------------------------------------------------------
(* Theorems.                                                               *)

(* head_ < commit_ <= tail_ <= head_ + Size + 1 in every state, so the ring *)
(* never holds more than Size elements and the indices never cross.        *)
THEOREM RingTypeOK == Spec => []TypeOK
<1>1. IInv => TypeOK
  BY DEF IInv
<1> QED
  BY InitIInv, NextIInv, <1>1, PTL DEF Spec

(* Producers never share a slot with each other or with a published        *)
(* element, for any number of producers and consumers.                     *)
THEOREM RingSlotsOwned == Spec => []SlotsOwned
<1>1. IInv => SlotsOwned
  <2> SUFFICES ASSUME IInv, NEW p \in Owning
               PROVE  /\ \A q \in Owning : q # p =>
                           GetIndex(old_tail[p]) # GetIndex(old_tail[q])
                      /\ \A i \in head_ + 1 .. commit_ - 1 :
                           GetIndex(old_tail[p]) # GetIndex(i)
    BY DEF SlotsOwned, Owning
  <2> QED BY OwnedSlot, OwnedSlots
<1> QED
  BY InitIInv, NextIInv, <1>1, PTL DEF Spec

(* Dequeue() reports an empty queue only when nothing is published.        *)
THEOREM RingEmptyIsReal == Spec => EmptyIsReal
<1>1. IInv => \A c \in Consumer : DequeueRefuse(c) => Contents = <<>>
  <2> SUFFICES ASSUME IInv, NEW c \in Consumer, DequeueRefuse(c)
               PROVE  Contents = <<>>
    OBVIOUS
  <2>1. commit_ = head_ + 1
    BY DEF DequeueRefuse, LooksEmpty, IInv, TypeOK, CopyCurrent
  <2>2. Len(Contents) = 0 /\ Contents \in Seq(Storable)
    BY <2>1, ContentsSeq DEF ContentsShape, IInv, TypeOK
  <2> QED BY <2>2, EmptySeq
<1> QED
  BY InitIInv, NextIInv, <1>1, PTL DEF Spec, EmptyIsReal

(* The lock-free ring implements the bounded first-in first-out queue.     *)
THEOREM RingImplementsFifo == Spec => ImplementsFifo
<1>1. Init => Fifo!Init
  <2> SUFFICES ASSUME Init PROVE Contents = <<>> /\ delivered = <<>>
    BY DEF Fifo!Init
  <2>1. IInv
    BY InitIInv
  <2>2. Len(Contents) = 0 /\ Contents \in Seq(Storable)
    BY <2>1, ContentsSeq DEF ContentsShape, Init
  <2> QED BY <2>2, EmptySeq DEF Init
<1>2. IInv /\ IInv' /\ [Next]_vars => [Fifo!Next]_Fifo!vars
  <2> SUFFICES ASSUME IInv, IInv', [Next]_vars
               PROVE  Fifo!Next \/ (Contents' = Contents /\ delivered' = delivered)
    BY DEF Fifo!vars
  <2>1. CASE UNCHANGED vars
    BY <2>1 DEF vars, Contents
  <2>2. ASSUME NEW p \in Producer, ProducerStep(p)
        PROVE  Fifo!Next \/ (Contents' = Contents /\ delivered' = delivered)
    <3>1. CASE EnqueueCommit(p)
      BY <3>1, CommitAppends DEF Fifo!Next
    <3>2. CASE EnqueueStoreBegin(p) \/ EnqueueStoreEnd(p)
      BY <3>2, StoreKeepsContents DEF EnqueueStoreBegin, EnqueueStoreEnd
    <3>3. CASE \/ EnqueueLoad(p) \/ EnqueueRefuse(p) \/ EnqueueTest(p)
               \/ EnqueueCasOk(p) \/ EnqueueCasFail(p)
      BY <3>3 DEF EnqueueLoad, EnqueueRefuse, EnqueueTest, EnqueueCasOk,
                  EnqueueCasFail, Contents
    <3> QED BY <2>2, <3>1, <3>2, <3>3 DEF ProducerStep
  <2>3. ASSUME NEW c \in Consumer, ConsumerStep(c)
        PROVE  Fifo!Next \/ (Contents' = Contents /\ delivered' = delivered)
    <3>1. CASE DequeueCasOk(c)
      BY <3>1, ClaimTakesFirst DEF Fifo!Next
    <3>2. CASE \/ DequeueLoad(c) \/ DequeueRefuse(c) \/ DequeueCopyBegin(c)
               \/ DequeueCopyEnd(c) \/ DequeueCasFail(c)
      BY <3>2 DEF DequeueLoad, DequeueRefuse, DequeueCopyBegin,
                  DequeueCopyEnd, DequeueCasFail, Contents
    <3> QED BY <2>3, <3>1, <3>2 DEF ConsumerStep
  <2> QED BY <2>1, <2>2, <2>3 DEF Next
<1> QED
  BY InitIInv, NextIInv, <1>1, <1>2, PTL DEF Spec, ImplementsFifo, Fifo!Spec
=============================================================================
