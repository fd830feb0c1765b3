-------------------------- MODULE DataVisitorProofs --------------------------
(***************************************************************************)
(* Proofs about DataVisitor for every number of channels, every number of  *)
(* feeding threads and every queue size, 0 included.                       *)
(*                                                                         *)
(* FillKeeps is the fact about the ring: a fill stores under the next      *)
(* number and leaves alone every message that is still offered afterwards. *)
(* IInv adds to the ring what the callback and the reader rely on: the     *)
(* feeder that holds the mutex is the only one inside the callback and     *)
(* carries the newest message (Callback), what it has read is at least as  *)
(* new as the last tuple and as what was there when it began (Reads), and  *)
(* the reader's index follows the last tuple it fetched (Reader).          *)
(***************************************************************************)
EXTENDS DataVisitor, Integers, TLAPS

\* A positive multiple of the capacity is at least the capacity.
LEMMA Multiple ==
    ASSUME NEW d \in Int, NEW n \in Nat, n > 0, d * n > 0
    PROVE  d * n >= n
<1>1. CASE d <= 0
  <2>1. d * n <= 0 BY <1>1
  <2> QED BY <2>1
<1>2. CASE d >= 1
  BY <1>2
<1> QED BY <1>1, <1>2

\* GetIndex() is a slot of the ring.
LEMMA ModRange ==
    ASSUME NEW i \in Nat, NEW n \in Nat, n > 0
    PROVE  /\ i % n \in 0 .. n - 1
           /\ i \div n \in Int
           /\ i - (i \div n) * n = i % n
BY Z3

\* Two positions less than a capacity apart have different slots.
LEMMA ModInjective ==
    ASSUME NEW i \in Nat, NEW j \in Nat, NEW n \in Nat, i < j, j < i + n
    PROVE  i % n # j % n
<1> DEFINE qi == i \div n
           qj == j \div n
<1>0. n > 0
  OBVIOUS
<1>1. qi \in Int /\ qj \in Int
  BY <1>0, ModRange
<1>2. SUFFICES ASSUME i % n = j % n PROVE FALSE
  OBVIOUS
<1>3. i - qi * n = j - qj * n
  BY <1>0, <1>2, ModRange
<1> HIDE DEF qi, qj
<1>4. j - i = (qj - qi) * n
  BY <1>1, <1>3
<1>5. (qj - qi) * n >= n
  BY <1>0, <1>1, <1>4, Multiple
<1> QED BY <1>4, <1>5

\* Positions one capacity apart share a slot.
LEMMA ModPeriodic ==
    ASSUME NEW i \in Nat, NEW n \in Nat, n > 0
    PROVE  (i + n) % n = i % n
<1>1. (i + n) \div n = (i \div n) + 1
  OBVIOUS
<1> DEFINE q == i \div n
<1>2. q \in Int
  BY ModRange
<1>3. /\ i - q * n = i % n
      /\ (i + n) - (q + 1) * n = (i + n) % n
  BY <1>1, ModRange
<1> HIDE DEF q
<1>4. (q + 1) * n = q * n + n
  BY <1>2
<1>5. (i + n) - (q * n + n) = i - q * n
  BY <1>2
<1> QED BY <1>3, <1>4, <1>5

-----------------------------------------------------------------------------
(* The ring.                                                               *)

RingOK(b, size) ==
    /\ b.head_ <= b.tail_
    /\ b.tail_ - b.head_ <= size
    /\ b.head_ = 0 \/ b.tail_ - b.head_ = size

\* Numbers under which a message can still be fetched.
Offers(b) == {i \in 1 .. b.tail_ : i = b.tail_ \/ i > b.head_}

\* d is b with v added under the next number.
Adds(size, V, b, v, d) ==
    /\ d \in BufferOf(size, V)
    /\ RingOK(d, size)
    /\ d.tail_ = b.tail_ + 1
    /\ At(d, b.tail_ + 1) = v
    /\ \A i \in Offers(d) \ {b.tail_ + 1} : i \in Offers(b) /\ At(d, i) = At(b, i)

\* Fill() keeps the ring: it drops the oldest message at most.
LEMMA FillKeeps ==
    ASSUME NEW size \in Nat, NEW V, NEW v \in V, NEW b \in BufferOf(size, V),
           RingOK(b, size)
    PROVE  Adds(size, V, b, v, Fill(b, v))
<1> DEFINE n == size + 1
           w == (b.tail_ + 1) % n
<1>n. n \in Nat /\ n > 0 /\ n - 1 = size
  OBVIOUS
<1>0. /\ b.head_ \in Nat /\ b.tail_ \in Nat /\ b.capacity_ = n
      /\ b.buffer_ \in [0 .. size -> V \cup {Null}]
      /\ b = [head_ |-> b.head_, tail_ |-> b.tail_, capacity_ |-> b.capacity_,
              buffer_ |-> b.buffer_]
      /\ n \in Nat /\ n > 0
  BY DEF BufferOf
<1> HIDE DEF n
<1>1. w \in 0 .. size
  <2>1. b.tail_ + 1 \in Nat
    BY <1>0
  <2>2. (b.tail_ + 1) % n \in 0 .. n - 1
    BY <2>1, <1>n, ModRange
  <2> QED BY <2>2, <1>n
<1>2. BufFull(b) => b.head_ % n = w
  <2>1. BufFull(b) => b.tail_ + 1 = b.head_ + n
    BY <1>0, <1>n DEF BufFull
  <2> QED BY <2>1, <1>0, ModPeriodic
<1> DEFINE h == IF BufFull(b) THEN b.head_ + 1 ELSE b.head_
<1>3. Fill(b, v) = [head_ |-> h, tail_ |-> b.tail_ + 1, capacity_ |-> n,
                    buffer_ |-> [b.buffer_ EXCEPT ![w] = v]]
  BY <1>0, <1>1, <1>2 DEF Fill
<1>4. h \in Nat /\ h <= b.tail_ + 1 /\ b.tail_ + 1 - h <= size
      /\ (h = 0 \/ b.tail_ + 1 - h = size) /\ h >= b.head_
  BY <1>0, <1>n DEF BufFull, RingOK
<1> HIDE DEF h
<1>5. Fill(b, v) \in BufferOf(size, V)
  BY <1>0, <1>1, <1>3, <1>4, n = size + 1 DEF BufferOf, n
<1>6. RingOK(Fill(b, v), size)
  <2>1. Fill(b, v).head_ = h /\ Fill(b, v).tail_ = b.tail_ + 1
    BY <1>3
  <2> QED BY <1>0, <1>4, <2>1 DEF RingOK
<1>7. At(Fill(b, v), b.tail_ + 1) = v
  BY <1>0, <1>1, <1>3 DEF At
<1>8. ASSUME NEW i \in Offers(Fill(b, v)) \ {b.tail_ + 1}
      PROVE  i \in Offers(b) /\ At(Fill(b, v), i) = At(b, i)
  <2>1. i \in 1 .. b.tail_ /\ i > h
    BY <1>0, <1>3 DEF Offers
  <2>2. i < b.tail_ + 1 /\ b.tail_ + 1 < i + n
    BY <1>0, <1>n, <1>4, <2>1
  <2>3. i % n # w
    <3>1. i \in Nat /\ b.tail_ + 1 \in Nat
      BY <1>0, <2>1
    <3> QED BY <1>n, <2>2, <3>1, ModInjective
  <2>4. i % n \in 0 .. size
    BY <1>n, <2>1, ModRange
  <2> QED BY <1>0, <1>1, <1>3, <1>4, <2>1, <2>3, <2>4 DEF Offers, At
<1> QED BY <1>3, <1>5, <1>6, <1>7, <1>8 DEF Adds

\* What Fetch() reads is a message that is still offered.
LEMMA FetchOffered ==
    ASSUME NEW size \in Nat, NEW V, NEW b \in BufferOf(size, V),
           RingOK(b, size), NEW index \in Nat, index <= b.tail_ + 1,
           CanFetch(b, index)
    PROVE  /\ FetchIndex(b, index) \in Offers(b)
           /\ FetchIndex(b, index) >= index
           /\ \/ index = 0
              \/ FetchIndex(b, index) = index
              \/ index <= b.tail_ - size
BY DEF BufferOf, RingOK, CanFetch, FetchIndex, BufEmpty, BufTail, BufHead, Offers

\* What a fused tuple holds.
LEMMA TupleFacts ==
    ASSUME NEW k \in Nat, NEW l \in Seq(Nat)
    PROVE  /\ <<k>> \o l \in Seq(Nat)
           /\ Len(<<k>> \o l) = Len(l) + 1
           /\ (<<k>> \o l)[1] = k
           /\ \A c \in 1 .. Len(l) : (<<k>> \o l)[c + 1] = l[c]
OBVIOUS

\* Appending leaves the earlier entries.
LEMMA AppendFacts ==
    ASSUME NEW S, NEW s \in Seq(S), NEW e \in S
    PROVE  /\ Append(s, e) \in Seq(S)
           /\ Len(s) \in Nat /\ Len(Append(s, e)) = Len(s) + 1
           /\ Append(s, e)[Len(s) + 1] = e
           /\ \A i \in 1 .. Len(s) : Append(s, e)[i] = s[i]
           /\ Append(s, e) # <<>>
OBVIOUS

-----------------------------------------------------------------------------
(* The inductive invariant.                                                *)

Types ==
    /\ other \in [Channel -> BufferOf(OtherSize, Nat)]
    /\ buffer_fusion_ \in BufferOf(QueueSize, Seq(Nat))
    /\ mutex \in Feeder \cup {None}
    /\ arrived \in Nat /\ next_msg_index_ \in Nat
    /\ msg \in [Feeder -> Nat]
    /\ latest \in [Feeder -> Seq(Nat)]
    /\ since \in [Feeder -> [Channel -> Nat]]
    /\ fused \in Seq(Seq(Nat))
    /\ fetched \in Seq([index : Nat, data : Seq(Nat)])

OtherRings ==
    \A c \in Channel :
      /\ RingOK(other[c], OtherSize)
      /\ \A i \in Offers(other[c]) : At(other[c], i) = i

FusionRing ==
    /\ RingOK(buffer_fusion_, QueueSize)
    /\ buffer_fusion_.tail_ = Len(fused)
    /\ \A i \in Offers(buffer_fusion_) : At(buffer_fusion_, i) = fused[i]

\* One feeder at a time is inside the callback, with the newest message.
Callback ==
    \A f \in Feeder :
      /\ msg[f] # 0 <=> mutex = f
      /\ msg[f] # 0 => msg[f] = arrived /\ Len(latest[f]) <= Others

\* What a callback has read is no older than what was there when it began.
Reads ==
    \A f \in Feeder : msg[f] # 0 =>
      /\ \A c \in Channel : since[f][c] <= other[c].tail_
      /\ \A c \in 1 .. Len(latest[f]) :
           since[f][c] <= latest[f][c] /\ latest[f][c] <= other[c].tail_

\* The last tuple is older than anything that can be fused next.
LastTuple ==
    fused # <<>> =>
      /\ fused[Len(fused)][1] <= arrived
      /\ \A c \in Channel : fused[Len(fused)][c + 1] <= other[c].tail_
      /\ \A f \in Feeder : msg[f] # 0 =>
           /\ fused[Len(fused)][1] < msg[f]
           /\ \A c \in 1 .. Len(latest[f]) :
                fused[Len(fused)][c + 1] <= latest[f][c]

Tuples ==
    /\ \A i \in 1 .. Len(fused) : Len(fused[i]) = Others + 1
    /\ TuplesInOrder

Reader ==
    /\ next_msg_index_ <= Len(fused) + 1
    /\ next_msg_index_ = 0 <=> fetched = <<>>
    /\ next_msg_index_ # 0 =>
         fetched[Len(fetched)].index = next_msg_index_ - 1
    /\ FetchedInOrder

IInv == /\ Types /\ OtherRings /\ FusionRing /\ Callback /\ Reads /\ LastTuple
        /\ Tuples /\ Reader

\* The rings start empty.
LEMMA InitIInv == Init => IInv
<1> SUFFICES ASSUME Init PROVE IInv
  OBVIOUS
<1> USE VisitorAssumption DEF Init
<1>0. \A size \in Nat : /\ \A V : NewBuffer(size) \in BufferOf(size, V)
                        /\ RingOK(NewBuffer(size), size)
                        /\ NewBuffer(size).tail_ = 0
                        /\ Offers(NewBuffer(size)) = {}
  BY DEF NewBuffer, BufferOf, RingOK, Offers
<1>1. Types
  BY <1>0 DEF Types
<1>2. OtherRings
  BY <1>0 DEF OtherRings
<1>3. FusionRing
  BY <1>0 DEF FusionRing
<1>4. Callback /\ Reads /\ LastTuple /\ Tuples /\ Reader
  BY DEF Callback, Reads, LastTuple, Tuples, TuplesInOrder, Reader,
         FetchedInOrder
<1> QED BY <1>1, <1>2, <1>3, <1>4 DEF IInv

\* A dispatch on another channel keeps the invariant.
LEMMA DispatchOtherIInv ==
    ASSUME IInv, NEW c \in Channel, DispatchOther(c)
    PROVE  IInv'
<1> USE VisitorAssumption
<1> DEFINE b == other[c]
           n == b.tail_ + 1
<1>1. b \in BufferOf(OtherSize, Nat) /\ RingOK(b, OtherSize) /\ b.tail_ \in Nat
  BY DEF IInv, Types, OtherRings, BufferOf
<1>2. /\ other' = [other EXCEPT ![c] = Fill(b, n)]
      /\ UNCHANGED <<buffer_fusion_, mutex, arrived, msg, latest,
                     next_msg_index_, fused, since, fetched>>
  BY DEF DispatchOther, BufTail
<1>3. n \in Nat
  BY <1>1
<1> HIDE DEF b
<1>4a. Adds(OtherSize, Nat, b, n, Fill(b, n))
  BY <1>1, <1>3, FillKeeps
<1>4. /\ Fill(b, n) \in BufferOf(OtherSize, Nat)
      /\ RingOK(Fill(b, n), OtherSize)
      /\ Fill(b, n).tail_ = n
      /\ At(Fill(b, n), n) = n
      /\ \A i \in Offers(Fill(b, n)) \ {n} :
           i \in Offers(b) /\ At(Fill(b, n), i) = At(b, i)
  BY <1>4a DEF Adds
<1>5. Types'
  BY <1>2, <1>4 DEF IInv, Types
<1>6. OtherRings'
  <2> SUFFICES ASSUME NEW d \in Channel
               PROVE  /\ RingOK(other'[d], OtherSize)
                      /\ \A i \in Offers(other'[d]) : At(other'[d], i) = i
    BY DEF OtherRings
  <2>1. CASE d # c
    BY <2>1, <1>2 DEF IInv, Types, OtherRings
  <2>2. CASE d = c
    <3>1. other'[d] = Fill(b, n)
      BY <2>2, <1>2 DEF IInv, Types
    <3>2. \A i \in Offers(b) : At(b, i) = i
      BY DEF IInv, OtherRings, b
    <3> QED BY <3>1, <3>2, <1>4
  <2> QED BY <2>1, <2>2
<1>7. \A d \in Channel : other'[d].tail_ \in Nat /\ other[d].tail_ \in Nat
                         /\ other[d].tail_ <= other'[d].tail_
  <2> TAKE d \in Channel
  <2>1. other[d].tail_ \in Nat
    BY DEF IInv, Types, BufferOf
  <2>2. CASE d # c
    BY <1>2, <2>1, <2>2 DEF IInv, Types
  <2>3. CASE d = c
    <3>1. other'[d] = Fill(b, n) /\ other[d] = b
      BY <1>2, <2>3 DEF IInv, Types, b
    <3> QED BY <1>1, <1>4, <3>1
  <2> QED BY <2>2, <2>3
<1>8. FusionRing' /\ Callback' /\ Tuples' /\ Reader'
  BY <1>2 DEF IInv, FusionRing, Callback, Tuples, TuplesInOrder, Reader,
              FetchedInOrder
<1>9. Reads'
  <2> SUFFICES ASSUME NEW f \in Feeder, msg[f] # 0
               PROVE  /\ \A d \in Channel : since[f][d] <= other'[d].tail_
                      /\ \A d \in 1 .. Len(latest[f]) :
                           /\ since[f][d] <= latest[f][d]
                           /\ latest[f][d] <= other'[d].tail_
    BY <1>2 DEF Reads
  <2>1. since[f] \in [Channel -> Nat] /\ latest[f] \in Seq(Nat)
        /\ Len(latest[f]) <= Others
    BY DEF IInv, Types, Callback
  <2>2. \A d \in 1 .. Len(latest[f]) : d \in Channel /\ latest[f][d] \in Nat
    BY <2>1 DEF Channel
  <2>3. ASSUME NEW d \in Channel PROVE since[f][d] <= other'[d].tail_
    <3>1. since[f][d] <= other[d].tail_ /\ since[f][d] \in Nat
      BY <2>1 DEF IInv, Reads
    <3> QED BY <1>7, <3>1
  <2>4. ASSUME NEW d \in 1 .. Len(latest[f])
        PROVE  since[f][d] <= latest[f][d] /\ latest[f][d] <= other'[d].tail_
    <3>1. since[f][d] <= latest[f][d] /\ latest[f][d] <= other[d].tail_
      BY DEF IInv, Reads
    <3> QED BY <1>7, <2>2, <3>1
  <2> QED BY <2>3, <2>4
<1>10. LastTuple'
  <2> SUFFICES ASSUME fused # <<>>, NEW d \in Channel
               PROVE  fused[Len(fused)][d + 1] <= other'[d].tail_
    BY <1>2 DEF IInv, LastTuple
  <2>1. fused[Len(fused)][d + 1] <= other[d].tail_
    BY DEF IInv, LastTuple
  <2>2. fused[Len(fused)] \in Seq(Nat) /\ Len(fused[Len(fused)]) = Others + 1
    BY DEF IInv, Types, Tuples
  <2>3. fused[Len(fused)][d + 1] \in Nat
    BY <2>2 DEF Channel
  <2> QED BY <1>7, <2>1, <2>3
<1> QED BY <1>5, <1>6, <1>8, <1>9, <1>10 DEF IInv

\* The start of a dispatch on the main channel keeps it.
LEMMA DispatchMainIInv ==
    ASSUME IInv, NEW f \in Feeder, DispatchMain(f)
    PROVE  IInv'
<1> USE VisitorAssumption
<1>1. /\ mutex = None /\ mutex' = f /\ msg[f] = 0
      /\ arrived' = arrived + 1
      /\ msg' = [msg EXCEPT ![f] = arrived + 1]
      /\ latest' = [latest EXCEPT ![f] = <<>>]
      /\ since' = [since EXCEPT ![f] = Newest]
      /\ UNCHANGED <<other, buffer_fusion_, next_msg_index_, fused, fetched>>
  BY DEF DispatchMain, Arrive
<1>2. \A c \in Channel : other[c].tail_ \in Nat
  BY DEF IInv, Types, BufferOf
<1>3. Newest \in [Channel -> Nat] /\ \A c \in Channel : Newest[c] = other[c].tail_
  BY <1>2 DEF Newest, BufTail
<1>4. Types'
  BY <1>1, <1>3 DEF IInv, Types
<1>5. OtherRings' /\ FusionRing' /\ Tuples' /\ Reader'
  BY <1>1 DEF IInv, OtherRings, FusionRing, Tuples, TuplesInOrder, Reader,
              FetchedInOrder
<1>6. \A g \in Feeder : msg[g] = 0
  BY <1>1 DEF IInv, Callback
<1>7. \A g \in Feeder : msg'[g] # 0 => g = f
  BY <1>1, <1>6 DEF IInv, Types
<1>8. msg'[f] = arrived + 1 /\ latest'[f] = <<>> /\ since'[f] = Newest
      /\ arrived \in Nat
  BY <1>1 DEF IInv, Types
<1>9. Callback'
  BY <1>1, <1>7, <1>8 DEF IInv, Callback
<1>10. Reads'
  BY <1>1, <1>2, <1>3, <1>7, <1>8 DEF Reads
<1>11. LastTuple'
  <2> SUFFICES ASSUME fused # <<>>
               PROVE  /\ fused[Len(fused)][1] <= arrived + 1
                      /\ fused[Len(fused)][1] < arrived + 1
    BY <1>1, <1>7, <1>8 DEF IInv, LastTuple
  <2>1. fused[Len(fused)][1] <= arrived
    BY DEF IInv, LastTuple
  <2>2. fused[Len(fused)] \in Seq(Nat) /\ Len(fused[Len(fused)]) = Others + 1
    BY DEF IInv, Types, Tuples
  <2>3. fused[Len(fused)][1] \in Nat
    BY <2>2
  <2> QED BY <1>8, <2>1, <2>3
<1> QED BY <1>4, <1>5, <1>9, <1>10, <1>11 DEF IInv

\* Reading the newest message of another channel keeps it.
LEMMA ReadLatestIInv ==
    ASSUME IInv, NEW f \in Feeder, ReadLatest(f)
    PROVE  IInv'
<1> USE VisitorAssumption
<1> DEFINE c == Len(latest[f]) + 1
           b == other[c]
<1>1. /\ msg[f] # 0 /\ latest[f] \in Seq(Nat) /\ Len(latest[f]) < Others
      /\ UNCHANGED <<other, buffer_fusion_, arrived, next_msg_index_, fused,
                     since, fetched>>
  BY DEF IInv, Types, ReadLatest
<1>2. c \in Channel
  BY <1>1 DEF Channel
<1>3. \A g \in Feeder : msg[g] # 0 => g = f
  BY <1>1 DEF IInv, Callback
<1>4. OtherRings' /\ FusionRing' /\ Tuples' /\ Reader'
  BY <1>1 DEF IInv, OtherRings, FusionRing, Tuples, TuplesInOrder, Reader,
              FetchedInOrder
<1>5. CASE BufEmpty(b)
  <2>1. mutex' = None /\ msg' = [msg EXCEPT ![f] = 0] /\ UNCHANGED latest
    BY <1>5 DEF ReadLatest, Leave
  <2>2. \A g \in Feeder : msg'[g] = 0
    BY <1>3, <2>1 DEF IInv, Types
  <2>3. Types'
    BY <1>1, <2>1 DEF IInv, Types
  <2>4. Callback' /\ Reads' /\ LastTuple'
    BY <1>1, <2>1, <2>2 DEF IInv, Callback, Reads, LastTuple
  <2> QED BY <1>4, <2>3, <2>4 DEF IInv
<1>6. CASE ~BufEmpty(b)
  <2> DEFINE x == Back(b)
  <2>1. latest' = [latest EXCEPT ![f] = Append(@, x)] /\ UNCHANGED <<mutex, msg>>
    BY <1>6 DEF ReadLatest
  <2>2. b.tail_ \in Nat /\ b.tail_ # 0
    BY <1>2, <1>6 DEF IInv, Types, BufferOf, BufEmpty
  <2>3. x = b.tail_
    <3>1. b.tail_ \in Offers(b)
      BY <2>2 DEF Offers
    <3> QED BY <1>2, <3>1 DEF IInv, OtherRings, Back
  <2>4. x \in Nat
    BY <2>2, <2>3
  <2> HIDE DEF x
  <2>5. /\ latest'[f] \in Seq(Nat) /\ Len(latest'[f]) = c /\ latest'[f][c] = x
        /\ \A d \in 1 .. Len(latest[f]) : latest'[f][d] = latest[f][d]
        /\ \A g \in Feeder : g # f => latest'[g] = latest[g]
    BY <1>1, <2>1, <2>4 DEF IInv, Types
  <2>6. Types'
    BY <1>1, <2>1, <2>4 DEF IInv, Types
  <2>7. Callback'
    BY <1>1, <2>1, <2>5 DEF IInv, Callback
  <2>8. \A d \in 1 .. c : d = c \/ d \in 1 .. Len(latest[f])
    BY <1>1
  <2>9. Reads'
    <3> SUFFICES ASSUME NEW g \in Feeder, msg[g] # 0
                 PROVE  /\ \A d \in Channel : since[g][d] <= other[d].tail_
                        /\ \A d \in 1 .. Len(latest'[g]) :
                             /\ since[g][d] <= latest'[g][d]
                             /\ latest'[g][d] <= other[d].tail_
      BY <1>1, <2>1 DEF Reads
    <3>1. g = f
      BY <1>3
    <3>2. since[f][c] <= x /\ x <= other[c].tail_
      BY <1>1, <1>2, <2>2, <2>3 DEF IInv, Reads
    <3> QED BY <1>1, <2>5, <2>8, <3>1, <3>2 DEF IInv, Reads
  <2>10. LastTuple'
    <3> SUFFICES ASSUME fused # <<>>, NEW d \in 1 .. Len(latest'[f])
                 PROVE  fused[Len(fused)][d + 1] <= latest'[f][d]
      BY <1>1, <1>3, <2>1 DEF IInv, LastTuple
    <3>1. fused[Len(fused)][c + 1] <= x
      BY <1>2, <2>3 DEF IInv, LastTuple
    <3> QED BY <1>1, <2>5, <2>8, <3>1 DEF IInv, LastTuple
  <2> QED BY <1>4, <2>6, <2>7, <2>9, <2>10 DEF IInv
<1> QED BY <1>5, <1>6

\* Filling the fusion ring keeps it.
LEMMA FillFusionIInv ==
    ASSUME IInv, NEW f \in Feeder, FillFusion(f)
    PROVE  IInv'
<1> USE VisitorAssumption
<1> DEFINE t == <<msg[f]>> \o latest[f]
           b == buffer_fusion_
           n == Len(fused) + 1
<1>1. /\ msg[f] # 0 /\ latest[f] \in Seq(Nat) /\ Len(latest[f]) = Others
      /\ buffer_fusion_' = Fill(b, t)
      /\ fused' = Append(fused, t)
      /\ mutex' = None /\ msg' = [msg EXCEPT ![f] = 0]
      /\ UNCHANGED <<other, arrived, latest, next_msg_index_, since, fetched>>
  BY DEF IInv, Types, FillFusion, Leave
<1>2. msg[f] \in Nat /\ msg[f] = arrived /\ \A g \in Feeder : msg[g] # 0 => g = f
  BY <1>1 DEF IInv, Types, Callback
<1>3. t \in Seq(Nat) /\ Len(t) = Others + 1 /\ t[1] = msg[f]
      /\ \A c \in Channel : t[c + 1] = latest[f][c]
  BY <1>1, <1>2, TupleFacts DEF Channel
<1> HIDE DEF t
<1>4. b \in BufferOf(QueueSize, Seq(Nat)) /\ RingOK(b, QueueSize)
      /\ b.tail_ = Len(fused) /\ fused \in Seq(Seq(Nat))
  BY DEF IInv, Types, FusionRing
<1> HIDE DEF b
<1>5. Adds(QueueSize, Seq(Nat), b, t, Fill(b, t))
  BY <1>3, <1>4, FillKeeps
<1>6. /\ fused' \in Seq(Seq(Nat)) /\ Len(fused') = n /\ fused'[n] = t
      /\ \A i \in 1 .. Len(fused) : fused'[i] = fused[i]
      /\ fused' # <<>> /\ Len(fused) \in Nat
  <2> DEFINE R == Seq(Nat)
  <2>1. fused \in Seq(R) /\ t \in R
    BY <1>3, <1>4
  <2> HIDE DEF R
  <2>2. /\ Append(fused, t) \in Seq(R) /\ Append(fused, t) # <<>>
        /\ Len(fused) \in Nat /\ Len(Append(fused, t)) = n
        /\ Append(fused, t)[n] = t
        /\ \A i \in 1 .. Len(fused) : Append(fused, t)[i] = fused[i]
    BY <2>1, AppendFacts
  <2> QED BY <1>1, <2>2 DEF R
<1>7. \A g \in Feeder : msg'[g] = 0
  BY <1>1, <1>2 DEF IInv, Types
<1>8. Types'
  BY <1>1, <1>5, <1>6 DEF IInv, Types, Adds
<1>9. OtherRings' /\ Callback' /\ Reads'
  BY <1>1, <1>7 DEF IInv, OtherRings, Callback, Reads
<1>10. FusionRing'
  <2>1. RingOK(Fill(b, t), QueueSize) /\ Fill(b, t).tail_ = n
    BY <1>4, <1>5 DEF Adds
  <2>2. ASSUME NEW i \in Offers(Fill(b, t)) PROVE At(Fill(b, t), i) = fused'[i]
    <3>1. CASE i = n
      BY <1>4, <1>5, <1>6, <3>1 DEF Adds
    <3>2. CASE i # n
      <4>1. i \in Offers(b) /\ At(Fill(b, t), i) = At(b, i)
        BY <1>4, <1>5, <3>2 DEF Adds
      <4>2. At(b, i) = fused[i] /\ i \in 1 .. Len(fused)
        BY <1>4, <4>1 DEF IInv, FusionRing, Offers, b
      <4> QED BY <1>6, <4>1, <4>2
    <3> QED BY <3>1, <3>2
  <2> QED BY <1>1, <1>6, <2>1, <2>2 DEF FusionRing
<1>11. LastTuple'
  <2>1. t[1] <= arrived
    BY <1>2, <1>3
  <2>2. \A c \in Channel : t[c + 1] <= other[c].tail_
    BY <1>1, <1>3 DEF IInv, Reads, Channel
  <2> QED BY <1>1, <1>6, <1>7, <2>1, <2>2 DEF LastTuple
<1>12. Tuples'
  <2>1. \A i \in 1 .. n : i = n \/ i \in 1 .. Len(fused)
    BY <1>6
  <2>2. \A i \in 1 .. n : Len(fused'[i]) = Others + 1
    BY <1>3, <1>6, <2>1 DEF IInv, Tuples
  <2>3. ASSUME NEW i \in 2 .. n
        PROVE  /\ fused'[i - 1][1] < fused'[i][1]
               /\ \A c \in Channel : fused'[i - 1][c + 1] <= fused'[i][c + 1]
    <3>1. CASE i = n
      <4>0. i - 1 = Len(fused) /\ Len(fused) \in 1 .. Len(fused) /\ fused # <<>>
        BY <1>4, <1>6, <3>1
      <4>1. fused'[i - 1] = fused[Len(fused)] /\ fused'[i] = t
        BY <1>6, <3>1, <4>0
      <4>2. fused[Len(fused)][1] < msg[f]
            /\ \A c \in Channel : fused[Len(fused)][c + 1] <= latest[f][c]
        BY <1>1, <4>0 DEF IInv, LastTuple, Channel
      <4> QED BY <1>3, <4>1, <4>2
    <3>2. CASE i # n
      <4>1. i \in 2 .. Len(fused) /\ i - 1 \in 1 .. Len(fused)
            /\ i \in 1 .. Len(fused)
        BY <1>6, <3>2
      <4> QED BY <1>6, <4>1 DEF IInv, Tuples, TuplesInOrder
    <3> QED BY <3>1, <3>2
  <2> QED BY <1>6, <2>2, <2>3 DEF Tuples, TuplesInOrder
<1>13. Reader'
  <2>1. next_msg_index_ <= Len(fused) + 1 /\ next_msg_index_ \in Nat
    BY DEF IInv, Reader, Types
  <2>2. FetchedInOrder'
    <3> SUFFICES ASSUME NEW k \in 1 .. Len(fetched)
                 PROVE  /\ fetched[k].index \in 1 .. Len(fused')
                        /\ fetched[k].data = fused'[fetched[k].index]
                        /\ k > 1 => fetched[k - 1].index < fetched[k].index
      BY <1>1 DEF FetchedInOrder
    <3>1. /\ fetched[k].index \in 1 .. Len(fused)
          /\ fetched[k].data = fused[fetched[k].index]
          /\ k > 1 => fetched[k - 1].index < fetched[k].index
      BY DEF IInv, Reader, FetchedInOrder
    <3> QED BY <1>6, <3>1
  <2> QED BY <1>1, <1>6, <2>1, <2>2 DEF IInv, Reader
<1> QED BY <1>8, <1>9, <1>10, <1>11, <1>12, <1>13 DEF IInv

\* TryFetch() keeps it.
LEMMA TryFetchIInv ==
    ASSUME IInv, TryFetch
    PROVE  IInv'
<1> USE VisitorAssumption
<1> DEFINE b == buffer_fusion_
           x == FetchIndex(b, next_msg_index_)
           r == [index |-> x, data |-> At(b, x)]
           k == Len(fetched) + 1
<1>1. /\ CanFetch(b, next_msg_index_)
      /\ next_msg_index_' = x + 1
      /\ fetched' = Append(fetched, r)
      /\ UNCHANGED <<other, buffer_fusion_, mutex, arrived, msg, latest, fused,
                     since>>
  BY DEF TryFetch
<1>2. /\ b \in BufferOf(QueueSize, Seq(Nat)) /\ RingOK(b, QueueSize)
      /\ b.tail_ = Len(fused) /\ fused \in Seq(Seq(Nat))
      /\ next_msg_index_ \in Nat /\ next_msg_index_ <= Len(fused) + 1
      /\ fetched \in Seq([index : Nat, data : Seq(Nat)])
  BY DEF IInv, Types, FusionRing, Reader
<1>3. x \in Offers(b) /\ x >= next_msg_index_
  BY <1>1, <1>2, FetchOffered
<1>4. x \in 1 .. Len(fused)
  BY <1>2, <1>3 DEF Offers
<1>5. At(b, x) = fused[x]
  BY <1>3 DEF IInv, FusionRing
<1> HIDE DEF b, x
<1>6. r \in [index : Nat, data : Seq(Nat)] /\ r.index = x /\ r.data = fused[x]
  BY <1>2, <1>4, <1>5
<1> HIDE DEF r
<1>7. /\ fetched' \in Seq([index : Nat, data : Seq(Nat)]) /\ fetched' # <<>>
      /\ Len(fetched) \in Nat /\ Len(fetched') = k /\ fetched'[k] = r
      /\ \A i \in 1 .. Len(fetched) : fetched'[i] = fetched[i]
  <2> DEFINE R == [index : Nat, data : Seq(Nat)]
  <2>1. fetched \in Seq(R) /\ r \in R
    BY <1>2, <1>6
  <2> HIDE DEF R
  <2>2. /\ Append(fetched, r) \in Seq(R) /\ Append(fetched, r) # <<>>
        /\ Len(fetched) \in Nat /\ Len(Append(fetched, r)) = k
        /\ Append(fetched, r)[k] = r
        /\ \A i \in 1 .. Len(fetched) : Append(fetched, r)[i] = fetched[i]
    BY <2>1, AppendFacts
  <2> QED BY <1>1, <2>2 DEF R
<1>8. Types'
  BY <1>1, <1>4, <1>7 DEF IInv, Types
<1>9. OtherRings' /\ FusionRing' /\ Callback' /\ Reads' /\ LastTuple' /\ Tuples'
  BY <1>1 DEF IInv, OtherRings, FusionRing, Callback, Reads, LastTuple, Tuples,
              TuplesInOrder
<1>10. FetchedInOrder'
  <2> SUFFICES ASSUME NEW i \in 1 .. k
               PROVE  /\ fetched'[i].index \in 1 .. Len(fused)
                      /\ fetched'[i].data = fused[fetched'[i].index]
                      /\ i > 1 => fetched'[i - 1].index < fetched'[i].index
    BY <1>1, <1>7 DEF FetchedInOrder
  <2>1. CASE i = k
    <3>1. ASSUME i > 1 PROVE fetched'[i - 1].index < fetched'[i].index
      <4>1. i - 1 = Len(fetched) /\ Len(fetched) \in 1 .. Len(fetched)
            /\ fetched # <<>>
        BY <1>2, <1>7, <2>1, <3>1
      <4>2. next_msg_index_ # 0
            /\ fetched[Len(fetched)].index = next_msg_index_ - 1
        BY <4>1 DEF IInv, Reader
      <4>3. fetched'[i - 1] = fetched[Len(fetched)] /\ fetched'[i].index = x
        BY <1>6, <1>7, <2>1, <4>1
      <4> QED BY <1>2, <1>3, <1>4, <4>2, <4>3
    <3> QED BY <1>4, <1>6, <1>7, <2>1, <3>1
  <2>2. CASE i # k
    <3>1. i \in 1 .. Len(fetched) /\ (i > 1 => i - 1 \in 1 .. Len(fetched))
      BY <1>7, <2>2
    <3> QED BY <1>7, <3>1 DEF IInv, Reader, FetchedInOrder
  <2> QED BY <2>1, <2>2
<1>11. Reader'
  <2>1. x + 1 # 0 /\ x + 1 <= Len(fused) + 1 /\ (x + 1) - 1 = x
    BY <1>2, <1>4
  <2> QED BY <1>1, <1>6, <1>7, <1>10, <2>1 DEF Reader
<1> QED BY <1>8, <1>9, <1>11 DEF IInv

\* Every step keeps the invariant.
LEMMA NextIInv == IInv /\ [Next]_vars => IInv'
<1> SUFFICES ASSUME IInv, [Next]_vars PROVE IInv'
  OBVIOUS
<1>1. CASE UNCHANGED vars
  BY <1>1 DEF IInv, Types, OtherRings, FusionRing, Callback, Reads, LastTuple,
              Tuples, TuplesInOrder, Reader, FetchedInOrder, vars
<1>2. CASE \E c \in Channel : DispatchOther(c)
  BY <1>2, DispatchOtherIInv
<1>3. CASE \E f \in Feeder : DispatchMain(f) \/ ReadLatest(f) \/ FillFusion(f)
  BY <1>3, DispatchMainIInv, ReadLatestIInv, FillFusionIInv
<1>4. CASE TryFetch
  BY <1>4, TryFetchIInv
<1> QED BY <1>1, <1>2, <1>3, <1>4 DEF Next, TryFetchFails

\* The invariant holds in every reachable state.
LEMMA AlwaysIInv == Spec => []IInv
BY InitIInv, NextIInv, PTL DEF Spec

-----------------------------------------------------------------------------
(* The theorems.                                                           *)

\* The rings, the callback's state and the reader's index keep their types
\* and the fusion ring never spans more than queue_size messages.
THEOREM VisitorTypeOK == Spec => []TypeOK
<1>1. IInv => TypeOK
  BY DEF IInv, Types, FusionRing, RingOK, Reader, TypeOK
<1> QED BY <1>1, AlwaysIInv, PTL

\* What Fetch() can still reach in the ring is what Fill() stored under that
\* number, for every queue size.
THEOREM VisitorRingKeepsNewest == Spec => []RingKeepsNewest
<1>1. ASSUME IInv PROVE RingKeepsNewest
  <2>1. buffer_fusion_.tail_ = Len(fused) /\ buffer_fusion_.head_ \in Nat
        /\ buffer_fusion_.tail_ \in Nat
    BY <1>1 DEF IInv, Types, FusionRing, BufferOf
  <2>2. \A i \in 1 .. Len(fused) :
          i = buffer_fusion_.tail_ \/ i >= buffer_fusion_.head_ + 1
            => i \in Offers(buffer_fusion_)
    BY <2>1 DEF Offers
  <2> QED BY <1>1, <2>1, <2>2
          DEF IInv, FusionRing, RingKeepsNewest, BufTail, BufHead
<1> QED BY <1>1, AlwaysIInv, PTL

\* TryFetch() returns tuples that were filled in, in their order and each at
\* most once.
THEOREM VisitorFetchedInOrder == Spec => []FetchedInOrder
<1>1. IInv => FetchedInOrder
  BY DEF IInv, Reader
<1> QED BY <1>1, AlwaysIInv, PTL

\* When TryFetch() finds nothing to fetch, the last tuple it returned is the
\* newest one that was filled in: an overrun never costs the reader the newest.
THEOREM VisitorNewestNotLost == Spec => []NewestNotLost
<1>1. ASSUME IInv PROVE NewestNotLost
  <2>1. ASSUME ~CanFetch(buffer_fusion_, next_msg_index_), fused # <<>>
        PROVE  fetched # <<>> /\ fetched[Len(fetched)].index = Len(fused)
    <3>1. buffer_fusion_.tail_ = Len(fused) /\ Len(fused) \in Nat
          /\ Len(fused) # 0
      BY <1>1, <2>1 DEF IInv, FusionRing, Types
    <3>2. next_msg_index_ # 0 /\ next_msg_index_ = Len(fused) + 1
      BY <2>1, <3>1 DEF CanFetch, BufEmpty, BufTail
    <3> QED BY <1>1, <3>1, <3>2 DEF IInv, Reader
  <2> QED BY <2>1 DEF NewestNotLost
<1> QED BY <1>1, AlwaysIInv, PTL

\* Tuples are in the order of the main channel's dispatches and what they
\* are fused with never gets older, whatever threads feed the channel.
THEOREM VisitorTuplesInOrder == Spec => []TuplesInOrder
<1>1. IInv => TuplesInOrder
  BY DEF IInv, Tuples
<1> QED BY <1>1, AlwaysIInv, PTL

\* The reader loses a tuple only when it is more than queue_size behind.
THEOREM VisitorSkipsOnlyOverrun == Spec => SkipsOnlyOverrun
<1> DEFINE Act == fetched' # fetched /\ next_msg_index_ # 0 =>
                    \/ next_msg_index_' = next_msg_index_ + 1
                    \/ next_msg_index_ <= Len(fused) - QueueSize
<1>1. ASSUME IInv, [Next]_vars PROVE [Act]_vars
  <2>1. CASE TryFetch
    <3>1. /\ buffer_fusion_ \in BufferOf(QueueSize, Seq(Nat))
          /\ RingOK(buffer_fusion_, QueueSize)
          /\ buffer_fusion_.tail_ = Len(fused)
          /\ next_msg_index_ \in Nat /\ next_msg_index_ <= Len(fused) + 1
      BY <1>1 DEF IInv, Types, FusionRing, Reader
    <3>2. CanFetch(buffer_fusion_, next_msg_index_)
          /\ next_msg_index_' = FetchIndex(buffer_fusion_, next_msg_index_) + 1
      BY <2>1 DEF TryFetch
    <3>3. \/ next_msg_index_ = 0
          \/ FetchIndex(buffer_fusion_, next_msg_index_) = next_msg_index_
          \/ next_msg_index_ <= Len(fused) - QueueSize
      BY <3>1, <3>2, FetchOffered, VisitorAssumption
    <3> QED BY <3>2, <3>3
  <2>2. CASE ~TryFetch
    <3>1. fetched' = fetched
      BY <1>1, <2>2 DEF Next, DispatchOther, DispatchMain, Arrive, ReadLatest,
                        FillFusion, TryFetchFails, vars
    <3> QED BY <3>1
  <2> QED BY <2>1, <2>2
<1>2. Spec => [][Act]_vars
  BY <1>1, AlwaysIInv, PTL DEF Spec
<1> QED BY <1>2 DEF SkipsOnlyOverrun

\* A message is fused with messages no older than the newest ones that were
\* there when it was dispatched.
THEOREM VisitorFusedIsFresh == Spec => FusedIsFresh
<1> DEFINE Act == \A f \in Feeder : FillFusion(f) =>
                    \A c \in Channel : since[f][c] <= latest[f][c]
<1>1. ASSUME IInv PROVE Act
  BY <1>1 DEF IInv, Reads, FillFusion, Channel
<1>2. IInv /\ [Next]_vars => [Act]_vars
  BY <1>1
<1>3. Spec => [][Act]_vars
  BY <1>2, AlwaysIInv, PTL DEF Spec
<1> QED BY <1>3 DEF FusedIsFresh
=============================================================================
