------------------------- MODULE ShmTransportProofs -------------------------
(***************************************************************************)
(* Proofs about ShmTransport: for every set of processes, block numbers    *)
(* and ring length.                                                        *)
(*                                                                         *)
(* The invariants are proved in layers, each from those before it:         *)
(*   BaseInv    types, and what the place of a process says of its segment;*)
(*   RingInv    the numbers of the notifications and what is stored;       *)
(*   BuiltInv   segments under construction, and sizes that are known;     *)
(*   FitInv     the room a writer has;                                     *)
(*   LockInv    the holders of every block of every segment;               *)
(*   WholeInv   what is in a block, and who was told of it.                *)
(***************************************************************************)
EXTENDS ShmTransport, FiniteSetTheorems, TLAPS

WLabel == {"idle", "create", "construct", "open", "remap", "mark", "remove",
           "next", "lock", "write", "finish", "reserve", "info", "seq",
           "destroy", "unlink", "dead"}
RLabel == {"off", "listen", "take", "open", "check", "lock", "read", "release",
           "destroy", "unlink", "dead"}
Label == WLabel \cup RLabel \cup {"size"}

SegRec == [ceiling_msg_size : {0} \cup Size, need_remap : BOOLEAN, seq : Nat,
           reference_count : Nat, lock_num : [Blocks -> Int],
           data : [Blocks -> Int]]
InfoRec == [index : Blocks, by : Nat, stamp : Nat, home : Nat]
Slots == 0 .. BufLength - 1

-----------------------------------------------------------------------------
(* The invariant, in layers.                                               *)

SegTypes ==
    /\ key \in Nat /\ key <= Len(shm)
    /\ shm \in Seq(SegRec)
    /\ init_ \in [Proc -> BOOLEAN] /\ conf_ \in [Proc -> Size]
    /\ state_ \in [Proc -> Nat] /\ \A p \in Proc : state_[p] <= Len(shm)

RingTypes ==
    /\ next_seq \in Nat
    /\ infos \in [Slots -> InfoRec \cup {NoInfo}]
    /\ seqs \in [Slots -> Nat] /\ seq \in [Writer -> Nat]
    /\ next_seq_ \in [Reader -> Nat] /\ actual_seq \in [Reader -> Nat]
    /\ lapped \in BOOLEAN

LocalTypes ==
    /\ pc \in [Proc -> Label] /\ then \in [Proc -> Label]
    /\ size \in [Writer -> MsgSize] /\ index \in [Proc -> Blocks]
    /\ stamp \in [Proc -> Nat] /\ home \in [Reader -> Nat]
    /\ got \in [Reader -> Int] /\ writes \in Nat

\* A process has a segment wherever it uses one, and has none wherever it is
\* about to open one; where an open or create continues.
Attached == {"remap", "mark", "next", "lock", "write", "finish", "reserve",
             "info", "seq", "check", "read", "release"}
Detached == {"remove", "create", "open", "construct", "destroy", "unlink"}

Placed(p) ==
    /\ p \in Writer => pc[p] \in WLabel
    /\ p \in Reader => pc[p] \in RLabel
    /\ init_[p] => state_[p] # 0
    /\ pc[p] \in {"construct", "destroy", "unlink"} => state_[p] # 0
    /\ pc[p] \in Attached => init_[p]
    /\ pc[p] \in Detached => ~init_[p]
    /\ pc[p] \in {"create", "construct"} => then[p] \in {"remap", "next"}
    /\ pc[p] = "open" /\ p \in Writer => then[p] \in {"remap", "next", "size"}
    /\ pc[p] = "open" /\ p \in Reader => then[p] \in {"check", "lock"}

BaseInv == SegTypes /\ RingTypes /\ LocalTypes /\ \A p \in Proc : Placed(p)

-----------------------------------------------------------------------------
(* Steps of one process.                                                   *)

WriterStep(w) ==
    \/ Transmit(w) \/ CreateSegment(w) \/ ConstructSegment(w)
    \/ CheckRemap(w) \/ MarkSegment(w) \/ RemoveSegment(w)
    \/ NextBlock(w) \/ LockBlock(w) \/ WriteBlock(w)
    \/ SerializeFails(w) \/ FinishBlock(w)
    \/ Reserve(w) \/ StoreInfo(w) \/ StoreSeq(w)

ReaderStep(r) ==
    \/ Start(r) \/ Listen(r) \/ Take(r)
    \/ CheckIndex(r) \/ LockToRead(r) \/ LockBeyond(r) \/ ReadBlock(r)
    \/ ReleaseBlock(r)

AnyStep(p) ==
    \/ OpenSegment(p) \/ OpenFails(p) \/ Disable(p) \/ DestroyTest(p)
    \/ Unlink(p) \/ Crash(p)

Step(p) == \/ p \in Writer /\ WriterStep(p)
           \/ p \in Reader /\ ReaderStep(p)
           \/ AnyStep(p)

\* Every process writes or reads, never both.
LEMMA Kinds ==
    /\ Writer \subseteq Proc /\ Reader \subseteq Proc
    /\ \A p \in Proc : p \in Writer \/ p \in Reader
    /\ \A p \in Proc : ~(p \in Writer /\ p \in Reader)
  BY TransportAssumption, NotifierAssumption

\* A step is a step of some process.
LEMMA Actors ==
    ASSUME [Next]_vars
    PROVE  (\E p \in Proc : Step(p)) \/ UNCHANGED vars
  <1>1. CASE \E w \in Writer : WriterStep(w)
    BY <1>1, Kinds DEF Step
  <1>2. CASE \E r \in Reader : ReaderStep(r)
    BY <1>2, Kinds DEF Step
  <1>3. CASE \E p \in Proc : AnyStep(p)
    BY <1>3 DEF Step
  <1>4. Next => \/ \E w \in Writer : WriterStep(w)
                \/ \E r \in Reader : ReaderStep(r)
                \/ \E p \in Proc : AnyStep(p)
    BY DEF Next, WriterStep, ReaderStep, AnyStep
  <1>5. QED
    BY <1>1, <1>2, <1>3, <1>4

-----------------------------------------------------------------------------
(* Operators.                                                              *)

\* The number of blocks and what a block may hold.
LEMMA BlockFacts ==
    /\ BlockNum16K \in Nat /\ BlockNum16K > 0
    /\ \A s \in {0} \cup MsgSize : CeilingMessageSize(s) \in Size
    /\ \A s \in Size : /\ block_num(s) \in Nat /\ block_num(s) > 0
                       /\ block_num(s) <= BlockNum16K
                       /\ 0 .. block_num(s) - 1 \subseteq Blocks
    /\ 0 \in Blocks /\ Blocks \subseteq Nat
    /\ Small \in Size /\ Size = {1, 2} /\ MsgSize = {1, 2, 3}
  BY SegmentAssumption
  DEF block_num, Size, MsgSize, Small, Large, Huge, Blocks, CeilingMessageSize

\* Remainders.
LEMMA ModRange ==
    ASSUME NEW i \in Nat, NEW n \in Nat, n > 0
    PROVE  i % n \in 0 .. n - 1
  OBVIOUS

\* One entry of a sequence is replaced.
LEMMA PutSeg ==
    ASSUME NEW S, NEW s \in Seq(S), NEW g \in 1 .. Len(s), NEW e \in S
    PROVE  /\ [s EXCEPT ![g] = e] \in Seq(S)
           /\ Len([s EXCEPT ![g] = e]) = Len(s)
           /\ \A h \in 1 .. Len(s) :
                [s EXCEPT ![g] = e][h] = IF h = g THEN e ELSE s[h]
  OBVIOUS

\* A segment as shmget() or the constructor leaves it.
LEMMA ZeroedType ==
    ASSUME NEW s \in {0} \cup Size
    PROVE  /\ Zeroed(s) \in SegRec
           /\ [Zeroed(s) EXCEPT !.reference_count = 1] \in SegRec
           /\ \A z \in {Zeroed(s), [Zeroed(s) EXCEPT !.reference_count = 1]} :
                /\ z.ceiling_msg_size = s
                /\ \A b \in Blocks : z.lock_num[b] = 0 /\ z.data[b] = 0
  <1> DEFINE z0 == [b \in Blocks |-> 0]
  <1>0. z0 \in [Blocks -> Int]
    OBVIOUS
  <1>1. Zeroed(s) \in SegRec
    <2>1. Zeroed(s) = [ceiling_msg_size |-> s, need_remap |-> FALSE, seq |-> 0,
                       reference_count |-> 0, lock_num |-> z0, data |-> z0]
      BY DEF Zeroed, kRWLockFree, Blank
    <2> HIDE DEF z0
    <2>2. QED
      BY <1>0, <2>1 DEF SegRec
  <1>2. [Zeroed(s) EXCEPT !.reference_count = 1] \in SegRec
    BY <1>1 DEF SegRec
  <1>3. \A b \in Blocks : Zeroed(s).lock_num[b] = 0 /\ Zeroed(s).data[b] = 0
    BY DEF Zeroed, kRWLockFree, Blank
  <1>4. Zeroed(s).ceiling_msg_size = s
    BY DEF Zeroed
  <1>5. /\ [Zeroed(s) EXCEPT !.reference_count = 1].ceiling_msg_size
             = Zeroed(s).ceiling_msg_size
        /\ [Zeroed(s) EXCEPT !.reference_count = 1].lock_num = Zeroed(s).lock_num
        /\ [Zeroed(s) EXCEPT !.reference_count = 1].data = Zeroed(s).data
    BY DEF Zeroed
  <1>6. QED
    BY <1>1, <1>2, <1>3, <1>4, <1>5

-----------------------------------------------------------------------------
(* What the operations of a segment do to it.                              *)

\* Only the counters and flags in the headers of segments have changed.
SameBlocks ==
    /\ Len(shm') = Len(shm)
    /\ \A g \in 1 .. Len(shm) :
         /\ shm'[g].ceiling_msg_size = shm[g].ceiling_msg_size
         /\ shm'[g].lock_num = shm[g].lock_num
         /\ shm'[g].data = shm[g].data

\* Segment g has become e, the others are as they were.
Replaced(g, e) ==
    /\ Len(shm') = Len(shm)
    /\ \A h \in 1 .. Len(shm) : shm'[h] = IF h = g THEN e ELSE shm[h]

\* An attached segment is one of those that were created.
LEMMA SegOf ==
    ASSUME SegTypes, NEW p \in Proc, state_[p] # 0
    PROVE  state_[p] \in 1 .. Len(shm) /\ Seg(p) \in SegRec
  <1>1. state_[p] \in Nat /\ state_[p] <= Len(shm) /\ Len(shm) \in Nat
    BY DEF SegTypes
  <1>2. state_[p] \in 1 .. Len(shm)
    BY <1>1
  <1>3. shm \in Seq(SegRec)
    BY DEF SegTypes
  <1>4. QED
    BY <1>2, <1>3 DEF Seg

\* Types are kept when a segment is replaced by another one and a process
\* changes what it has attached.
LEMMA KeepSegTypes ==
    ASSUME SegTypes, NEW g \in 1 .. Len(shm), NEW e \in SegRec,
           shm' = [shm EXCEPT ![g] = e],
           key' \in {0, key},
           init_' \in [Proc -> BOOLEAN], conf_' \in [Proc -> Size],
           state_' \in [Proc -> Nat],
           \A p \in Proc : state_'[p] <= Len(shm)
    PROVE  SegTypes' /\ Replaced(g, e)
  <1>1. shm \in Seq(SegRec) /\ Len(shm) \in Nat /\ key \in Nat /\ key <= Len(shm)
    BY DEF SegTypes
  <1>2. /\ shm' \in Seq(SegRec) /\ Len(shm') = Len(shm)
        /\ \A h \in 1 .. Len(shm) : shm'[h] = IF h = g THEN e ELSE shm[h]
    BY <1>1, PutSeg
  <1>3. key' \in Nat /\ key' <= Len(shm')
    BY <1>1, <1>2
  <1>4. Replaced(g, e)
    BY <1>2 DEF Replaced
  <1>5. QED
    BY <1>2, <1>3, <1>4 DEF SegTypes

\* Only headers change.
LEMMA HeaderChange ==
    ASSUME SegTypes, NEW g \in 1 .. Len(shm), NEW e \in SegRec, Replaced(g, e),
           e.ceiling_msg_size = shm[g].ceiling_msg_size,
           e.lock_num = shm[g].lock_num, e.data = shm[g].data
    PROVE  SameBlocks
  BY DEF Replaced, SameBlocks

\* A step that leaves shared memory alone leaves every block as it was.
LEMMA UnchangedShm ==
    ASSUME SegTypes, UNCHANGED shm
    PROVE  SameBlocks
  BY DEF SameBlocks

\* A field of a segment's header is set.
LEMMA HeaderFields ==
    ASSUME NEW e \in SegRec, NEW n \in Nat
    PROVE  \A f \in {[e EXCEPT !.need_remap = TRUE], [e EXCEPT !.seq = n],
                     [e EXCEPT !.reference_count = n]} :
             /\ f \in SegRec
             /\ f.ceiling_msg_size = e.ceiling_msg_size
             /\ f.lock_num = e.lock_num /\ f.data = e.data
  BY DEF SegRec

\* The lock and the contents of a block are set.
LEMMA BlockFields ==
    ASSUME NEW e \in SegRec, NEW b \in Blocks, NEW l \in Int, NEW d \in Int
    PROVE  LET f == [e EXCEPT !.lock_num[b] = l, !.data[b] = d]
           IN  /\ f \in SegRec
               /\ f.ceiling_msg_size = e.ceiling_msg_size
               /\ f.lock_num = [e.lock_num EXCEPT ![b] = l]
               /\ f.data = [e.data EXCEPT ![b] = d]
  BY DEF SegRec

\* A new segment is added to the others.
LEMMA CreateFacts ==
    ASSUME SegTypes, NEW p \in Proc, Create(p)
    PROVE  /\ SegTypes'
           /\ Len(shm') = Len(shm) + 1
           /\ \A g \in 1 .. Len(shm) : shm'[g] = shm[g]
           /\ shm'[Len(shm) + 1] = Zeroed(0)
           /\ state_' = [state_ EXCEPT ![p] = Len(shm) + 1]
  <1>1. shm \in Seq(SegRec) /\ Len(shm) \in Nat
    BY DEF SegTypes
  <1>2. Zeroed(0) \in SegRec
    BY ZeroedType
  <1>3. /\ shm' \in Seq(SegRec) /\ Len(shm') = Len(shm) + 1
        /\ \A g \in 1 .. Len(shm) : shm'[g] = shm[g]
        /\ shm'[Len(shm) + 1] = Zeroed(0)
    <2>1. shm' = Append(shm, Zeroed(0))
      BY DEF Create
    <2>2. QED
      BY <1>1, <1>2, <2>1
  <1>4. state_' = [state_ EXCEPT ![p] = Len(shm) + 1]
        /\ key' = Len(shm) + 1
    BY <1>3 DEF Create
  <1>5. state_' \in [Proc -> Nat] /\ \A q \in Proc : state_'[q] <= Len(shm')
    BY <1>1, <1>3, <1>4 DEF SegTypes
  <1>6. UNCHANGED <<init_, conf_>>
    BY DEF Create
  <1>7. SegTypes'
    BY <1>1, <1>3, <1>4, <1>5, <1>6 DEF SegTypes
  <1>8. QED
    BY <1>3, <1>4, <1>7

\* The constructor starts from an empty segment, whatever was there.
LEMMA ConstructFacts ==
    ASSUME SegTypes, NEW p \in Proc, state_[p] # 0, Construct(p)
    PROVE  /\ SegTypes'
           /\ Replaced(state_[p], [Zeroed(conf_[p]) EXCEPT !.reference_count = 1])
  <1>1. conf_[p] \in Size /\ state_[p] \in 1 .. Len(shm)
    BY SegOf DEF SegTypes
  <1>2. [Zeroed(conf_[p]) EXCEPT !.reference_count = 1] \in SegRec
    BY <1>1, ZeroedType
  <1>3. /\ key' = key /\ conf_' = conf_ /\ state_' = state_
        /\ init_' \in [Proc -> BOOLEAN]
    BY DEF Construct, SegTypes
  <1>4. shm' = [shm EXCEPT ![state_[p]] =
                  [Zeroed(conf_[p]) EXCEPT !.reference_count = 1]]
    BY DEF Construct
  <1>5. /\ conf_' \in [Proc -> Size] /\ state_' \in [Proc -> Nat]
        /\ \A q \in Proc : state_'[q] <= Len(shm)
    BY <1>3 DEF SegTypes
  <1>6. QED
    BY <1>1, <1>2, <1>3, <1>4, <1>5, KeepSegTypes

\* What processes attach, open, mark, count and leave, without touching a
\* block.
LEMMA QuietFacts ==
    ASSUME SegTypes, NEW p \in Proc,
           \/ OpenOnly(p) \/ Remap(p) \/ DestroyNothing(p) \/ DestroyRemove(p)
           \/ \E s \in MsgSize : RecreateRemove(p, s)
           \/ state_[p] # 0 /\ RecreateMark(p)
           \/ state_[p] # 0 /\ DestroyDecrease(p)
           \/ state_[p] # 0 /\ FetchAddSeq(p)
    PROVE  SegTypes' /\ SameBlocks
  <1>t. /\ key \in Nat /\ key <= Len(shm) /\ Len(shm) \in Nat
        /\ shm \in Seq(SegRec)
        /\ init_ \in [Proc -> BOOLEAN] /\ conf_ \in [Proc -> Size]
        /\ state_ \in [Proc -> Nat] /\ \A q \in Proc : state_[q] <= Len(shm)
    BY DEF SegTypes
  <1>b. Small \in Size /\ \A s \in MsgSize : CeilingMessageSize(s) \in Size
    BY BlockFacts
  <1>1. CASE UNCHANGED shm /\ (Remap(p) \/ DestroyNothing(p) \/ DestroyRemove(p)
                                \/ \E s \in MsgSize : RecreateRemove(p, s))
    <2>1. key' \in Nat /\ key' <= Len(shm)
      BY <1>t, <1>1 DEF Remap, DestroyNothing, DestroyRemove, RecreateRemove
    <2>2. init_' \in [Proc -> BOOLEAN] /\ conf_' \in [Proc -> Size]
      BY <1>t, <1>b, <1>1 DEF Remap, Reset, DestroyNothing, DestroyRemove, NewObject,
                        RecreateRemove
    <2>3. state_' \in [Proc -> Nat] /\ \A q \in Proc : state_'[q] <= Len(shm)
      BY <1>t, <1>1 DEF Remap, Reset, DestroyNothing, DestroyRemove, NewObject,
                        RecreateRemove
    <2>4. QED
      BY <1>t, <1>1, <2>1, <2>2, <2>3, UnchangedShm DEF SegTypes
  <1>2. CASE OpenOnly(p)
    <2>1. key \in 1 .. Len(shm) /\ shm[key] \in SegRec
      BY <1>t, <1>2 DEF OpenOnly
    <2>2. shm[key].reference_count + 1 \in Nat
          /\ shm[key].ceiling_msg_size \in {0} \cup Size
      BY <2>1 DEF SegRec
    <2> DEFINE e == [shm[key] EXCEPT !.reference_count = @ + 1]
    <2>3. /\ e \in SegRec /\ e.ceiling_msg_size = shm[key].ceiling_msg_size
          /\ e.lock_num = shm[key].lock_num /\ e.data = shm[key].data
      BY <2>1, <2>2, HeaderFields
    <2>4. shm' = [shm EXCEPT ![key] = e] /\ key' = key
      BY <1>2 DEF OpenOnly
    <2>5. init_' \in [Proc -> BOOLEAN] /\ conf_' \in [Proc -> Size]
      BY <1>t, <1>2, <2>2, BlockFacts DEF OpenOnly
    <2>6. state_' \in [Proc -> Nat] /\ \A q \in Proc : state_'[q] <= Len(shm)
      BY <1>t, <1>2 DEF OpenOnly
    <2> HIDE DEF e
    <2>7. QED
      BY <2>1, <2>3, <2>4, <2>5, <2>6, KeepSegTypes, HeaderChange
  <1>3. CASE state_[p] # 0 /\ (RecreateMark(p) \/ DestroyDecrease(p) \/ FetchAddSeq(p))
    <2> DEFINE g == state_[p]
    <2>1. g \in 1 .. Len(shm) /\ shm[g] \in SegRec
      BY <1>3, SegOf DEF Seg
    <2>2. /\ shm[g].reference_count \in Nat
          /\ (IF shm[g].reference_count = 0 THEN 0 ELSE shm[g].reference_count - 1) \in Nat
      BY <2>1 DEF SegRec
    <2>3. (shm[g].seq + 1) % block_num(conf_[p]) \in Nat
      <3>1. shm[g].seq + 1 \in Nat
        BY <2>1 DEF SegRec
      <3>2. block_num(conf_[p]) \in Nat /\ block_num(conf_[p]) > 0
        BY <1>t, BlockFacts
      <3>3. QED
        BY <3>1, <3>2, ModRange
    <2>4. \E e \in SegRec :
            /\ shm' = [shm EXCEPT ![g] = e]
            /\ e.ceiling_msg_size = shm[g].ceiling_msg_size
            /\ e.lock_num = shm[g].lock_num /\ e.data = shm[g].data
      <3>1. CASE RecreateMark(p)
        <4>1. shm' = [shm EXCEPT ![g] = [shm[g] EXCEPT !.need_remap = TRUE]]
          BY <3>1 DEF RecreateMark
        <4>2. QED
          BY <2>1, <4>1, HeaderFields
      <3>2. CASE DestroyDecrease(p)
        <4> DEFINE n == IF shm[g].reference_count = 0 THEN 0
                        ELSE shm[g].reference_count - 1
        <4>1. shm' = [shm EXCEPT ![g] = [shm[g] EXCEPT !.reference_count = n]]
          BY <3>2 DEF DestroyDecrease
        <4>2. n \in Nat
          BY <2>2
        <4> HIDE DEF n
        <4>3. QED
          BY <2>1, <4>1, <4>2, HeaderFields
      <3>3. CASE FetchAddSeq(p)
        <4> DEFINE n == (shm[g].seq + 1) % block_num(conf_[p])
        <4>1. shm' = [shm EXCEPT ![g] = [shm[g] EXCEPT !.seq = n]]
          BY <3>3 DEF FetchAddSeq
        <4>2. n \in Nat
          BY <2>3
        <4> HIDE DEF n
        <4>3. QED
          BY <2>1, <4>1, <4>2, HeaderFields
      <3>4. QED
        BY <1>3, <3>1, <3>2, <3>3
    <2>5. PICK e \in SegRec :
            /\ shm' = [shm EXCEPT ![g] = e]
            /\ e.ceiling_msg_size = shm[g].ceiling_msg_size
            /\ e.lock_num = shm[g].lock_num /\ e.data = shm[g].data
      BY <2>4
    <2>6. /\ key' = key /\ init_' \in [Proc -> BOOLEAN] /\ conf_' \in [Proc -> Size]
          /\ state_' \in [Proc -> Nat] /\ \A q \in Proc : state_'[q] <= Len(shm)
      <3>1. /\ key' = key /\ conf_' = conf_
            /\ init_' \in {init_, [init_ EXCEPT ![p] = FALSE]}
            /\ state_' \in {state_, [state_ EXCEPT ![p] = 0]}
        BY <1>3 DEF RecreateMark, Reset, DestroyDecrease, FetchAddSeq
      <3>2. init_' \in [Proc -> BOOLEAN] /\ conf_' \in [Proc -> Size]
        BY <1>t, <3>1
      <3>3. ASSUME state_' = state_
            PROVE  state_' \in [Proc -> Nat] /\ \A q \in Proc : state_'[q] <= Len(shm)
        BY <1>t, <3>3
      <3>4. ASSUME state_' = [state_ EXCEPT ![p] = 0]
            PROVE  state_' \in [Proc -> Nat] /\ \A q \in Proc : state_'[q] <= Len(shm)
        BY <1>t, <3>4
      <3>5. QED
        BY <3>1, <3>2, <3>3, <3>4
    <2> HIDE DEF g
    <2>7. SegTypes' /\ Replaced(g, e)
      BY <2>1, <2>5, <2>6, KeepSegTypes
    <2>8. QED
      BY <2>1, <2>5, <2>7, HeaderChange
  <1>4. QED
    BY <1>1, <1>2, <1>3 DEF Remap, DestroyNothing, DestroyRemove, RecreateRemove

\* The lock and the contents of one block of the attached segment are set.
LEMMA SetBlockFacts ==
    ASSUME SegTypes, NEW p \in Proc, state_[p] # 0, NEW b \in Blocks,
           NEW l \in Int, NEW d \in Int, SetBlock(p, b, l, d)
    PROVE  /\ SegTypes'
           /\ Replaced(state_[p], [Seg(p) EXCEPT !.lock_num[b] = l, !.data[b] = d])
           /\ Seg(p)' = [Seg(p) EXCEPT !.lock_num[b] = l, !.data[b] = d]
           /\ UNCHANGED <<key, init_, conf_, state_, mishap>>
  <1>1. state_[p] \in 1 .. Len(shm) /\ Seg(p) \in SegRec
    BY SegOf
  <1> DEFINE e == [Seg(p) EXCEPT !.lock_num[b] = l, !.data[b] = d]
  <1>2. e \in SegRec
    BY <1>1, BlockFields
  <1>3. shm' = [shm EXCEPT ![state_[p]] = e]
    BY <1>1 DEF SetBlock, Seg, SegTypes
  <1>4. UNCHANGED <<key, init_, conf_, state_, mishap>>
    BY DEF SetBlock
  <1>5. /\ init_' \in [Proc -> BOOLEAN] /\ conf_' \in [Proc -> Size]
        /\ state_' \in [Proc -> Nat] /\ \A q \in Proc : state_'[q] <= Len(shm)
    BY <1>4 DEF SegTypes
  <1> HIDE DEF e
  <1>6. SegTypes' /\ Replaced(state_[p], e)
    BY <1>1, <1>2, <1>3, <1>4, <1>5, KeepSegTypes
  <1>7. Seg(p)' = e
    BY <1>1, <1>4, <1>6 DEF Seg, Replaced
  <1>8. QED
    BY <1>4, <1>6, <1>7 DEF e

\* Blocks have been overwritten, their locks are as they were.
SameLocks ==
    /\ Len(shm') = Len(shm)
    /\ \A g \in 1 .. Len(shm) :
         /\ shm'[g].ceiling_msg_size = shm[g].ceiling_msg_size
         /\ shm'[g].lock_num = shm[g].lock_num

\* The contents of two blocks of a segment are garbled.
LEMMA DataFields ==
    ASSUME NEW e \in SegRec, NEW b \in Blocks, NEW c \in Blocks
    PROVE  LET f == [e EXCEPT !.data[b] = Partial, !.data[c] = Partial]
           IN  /\ f \in SegRec
               /\ f.ceiling_msg_size = e.ceiling_msg_size
               /\ f.lock_num = e.lock_num
               /\ f.data = [e.data EXCEPT ![b] = Partial, ![c] = Partial]
  <1>1. Partial \in Int
    BY DEF Partial
  <1>2. [e EXCEPT !.data[b] = Partial] \in SegRec
    BY <1>1 DEF SegRec
  <1> DEFINE d == [e EXCEPT !.data[b] = Partial]
  <1>3. d.data \in [Blocks -> Int]
    BY <1>2 DEF SegRec
  <1>4. [d EXCEPT !.data[c] = Partial] \in SegRec
    BY <1>1, <1>2 DEF SegRec
  <1>5. QED
    BY <1>4 DEF SegRec

\* SerializeToArray(): the block is overwritten, and if the message does not
\* fit then some other block of the segment too.
LEMMA WriteFacts ==
    ASSUME SegTypes, LocalTypes, NEW w \in Writer, state_[w] # 0, WriteBlock(w)
    PROVE  /\ SegTypes' /\ SameLocks
           /\ UNCHANGED <<key, init_, conf_, state_>>
           /\ \E b \in Blocks :
                /\ Fits(w) => b = index[w]
                /\ Replaced(state_[w], [Seg(w) EXCEPT !.data[index[w]] = Partial,
                                                      !.data[b] = Partial])
  <1>0. w \in Proc
    BY Kinds
  <1>1. state_[w] \in 1 .. Len(shm) /\ Seg(w) \in SegRec
    BY <1>0, SegOf
  <1>2. index[w] \in Blocks
    BY <1>0 DEF LocalTypes
  <1>3. PICK b \in Blocks :
          /\ Fits(w) => b = index[w]
          /\ shm' = [shm EXCEPT ![state_[w]].data[index[w]] = Partial,
                                ![state_[w]].data[b] = Partial]
    BY DEF WriteBlock
  <1> DEFINE e == [Seg(w) EXCEPT !.data[index[w]] = Partial, !.data[b] = Partial]
  <1>4. /\ e \in SegRec /\ e.ceiling_msg_size = Seg(w).ceiling_msg_size
        /\ e.lock_num = Seg(w).lock_num
    BY <1>1, <1>2, DataFields
  <1>5. shm' = [shm EXCEPT ![state_[w]] = e]
    BY <1>1, <1>3 DEF Seg, SegTypes
  <1>6. UNCHANGED <<key, init_, conf_, state_>>
    BY DEF WriteBlock
  <1>7. /\ init_' \in [Proc -> BOOLEAN] /\ conf_' \in [Proc -> Size]
        /\ state_' \in [Proc -> Nat] /\ \A q \in Proc : state_'[q] <= Len(shm)
    BY <1>6 DEF SegTypes
  <1> HIDE DEF e
  <1>8. SegTypes' /\ Replaced(state_[w], e)
    BY <1>1, <1>4, <1>5, <1>6, <1>7, KeepSegTypes
  <1>9. SameLocks
    BY <1>1, <1>4, <1>8 DEF Replaced, SameLocks, Seg
  <1>10. QED
    BY <1>3, <1>6, <1>8, <1>9 DEF e

\* A lock taken beyond the blocks garbles at most the contents of one.
LEMMA BeyondFacts ==
    ASSUME SegTypes, NEW r \in Reader, state_[r] # 0, LockBeyond(r)
    PROVE  SegTypes' /\ SameLocks /\ "beyond" \in mishap'
  <1>0. r \in Proc /\ mishap' = mishap \cup {"beyond"}
    BY Kinds DEF LockBeyond
  <1>1. state_[r] \in 1 .. Len(shm) /\ Seg(r) \in SegRec
    BY <1>0, SegOf
  <1>2. UNCHANGED <<key, init_, conf_, state_>>
    BY DEF LockBeyond
  <1>3. CASE UNCHANGED shm
    BY <1>0, <1>2, <1>3 DEF SegTypes, SameLocks
  <1>4. CASE \E b \in 0 .. block_num(conf_[r]) - 1 :
               shm' = [shm EXCEPT ![state_[r]].data[b] = Partial]
    <2>1. conf_[r] \in Size
      BY <1>0 DEF SegTypes
    <2>2. PICK b \in Blocks : shm' = [shm EXCEPT ![state_[r]].data[b] = Partial]
      BY <1>4, <2>1, BlockFacts
    <2> DEFINE e == [Seg(r) EXCEPT !.data[b] = Partial]
    <2>3. /\ e \in SegRec /\ e.ceiling_msg_size = Seg(r).ceiling_msg_size
          /\ e.lock_num = Seg(r).lock_num
      <3>1. Partial \in Int
        BY DEF Partial
      <3>2. QED
        BY <1>1, <3>1 DEF SegRec
    <2>4. shm' = [shm EXCEPT ![state_[r]] = e]
      BY <1>1, <2>2 DEF Seg, SegTypes
    <2>5. /\ init_' \in [Proc -> BOOLEAN] /\ conf_' \in [Proc -> Size]
          /\ state_' \in [Proc -> Nat] /\ \A q \in Proc : state_'[q] <= Len(shm)
      BY <1>2 DEF SegTypes
    <2> HIDE DEF e
    <2>6. SegTypes' /\ Replaced(state_[r], e)
      BY <1>1, <1>2, <2>3, <2>4, <2>5, KeepSegTypes
    <2>7. SameLocks
      BY <1>1, <2>3, <2>6 DEF Replaced, SameLocks, Seg
    <2>8. QED
      BY <1>0, <2>6, <2>7
  <1>5. QED
    BY <1>3, <1>4 DEF LockBeyond

\* Segments that a step may change other than by counters in their headers.
Touches(p) ==
    \/ /\ p \in Writer
       /\ \/ CreateSegment(p) \/ ConstructSegment(p) \/ LockBlock(p)
          \/ WriteBlock(p) \/ SerializeFails(p) \/ FinishBlock(p)
    \/ /\ p \in Reader
       /\ LockToRead(p) \/ LockBeyond(p) \/ ReleaseBlock(p)

\* Segments keep their types, and only some operations touch the blocks.
LEMMA SegStep ==
    ASSUME BaseInv, NEW p \in Proc, Step(p)
    PROVE  SegTypes' /\ (SameBlocks \/ Touches(p))
  <1>t. /\ SegTypes /\ LocalTypes
        /\ conf_[p] \in Size /\ index[p] \in Blocks /\ stamp[p] \in Nat
        /\ p \in Writer => size[p] \in MsgSize
    BY DEF BaseInv, SegTypes, LocalTypes
  <1>a. /\ pc[p] \in Attached => init_[p] /\ state_[p] # 0
        /\ pc[p] \in {"construct", "destroy", "unlink"} => state_[p] # 0
        /\ init_[p] => state_[p] # 0
    BY DEF BaseInv, Placed
  <1>q. ASSUME \/ OpenOnly(p) \/ Remap(p) \/ DestroyNothing(p) \/ DestroyRemove(p)
               \/ (\E s \in MsgSize : RecreateRemove(p, s))
               \/ state_[p] # 0 /\ RecreateMark(p)
               \/ state_[p] # 0 /\ DestroyDecrease(p)
               \/ state_[p] # 0 /\ FetchAddSeq(p)
        PROVE  SegTypes' /\ (SameBlocks \/ Touches(p))
    BY <1>t, <1>q, QuietFacts
  <1>u. ASSUME UNCHANGED segmentVars
        PROVE  SegTypes' /\ (SameBlocks \/ Touches(p))
    BY <1>t, <1>u, UnchangedShm DEF segmentVars, SegTypes
  <1>s. ASSUME state_[p] # 0, NEW l \in Int, NEW d \in Int,
               SetBlock(p, index[p], l, d)
        PROVE  SegTypes'
    BY <1>t, <1>s, SetBlockFacts
  <1>n. ASSUME state_[p] # 0
        PROVE  /\ Seg(p).lock_num[index[p]] \in Int
               /\ Seg(p).lock_num[index[p]] + 1 \in Int
               /\ Seg(p).lock_num[index[p]] - 1 \in Int
               /\ Seg(p).data[index[p]] \in Int
    <2>1. Seg(p) \in SegRec
      BY <1>t, <1>n, SegOf
    <2>2. /\ Seg(p).lock_num \in [Blocks -> Int]
          /\ Seg(p).data \in [Blocks -> Int]
      BY <2>1 DEF SegRec
    <2>3. QED
      BY <1>t, <2>2
  <1>1. CASE p \in Writer /\ WriterStep(p)
    <2>1. CASE Transmit(p) \/ Reserve(p) \/ StoreInfo(p) \/ StoreSeq(p)
      BY <1>u, <2>1 DEF Transmit, Reserve, StoreInfo, StoreSeq
    <2>2. CASE CreateSegment(p)
      <3>1. Create(p) => SegTypes'
        BY <1>t, CreateFacts
      <3>2. QED
        BY <1>1, <1>u, <2>2, <3>1 DEF CreateSegment, Touches
    <2>3. CASE ConstructSegment(p)
      BY <1>1, <1>t, <1>a, <2>3, ConstructFacts DEF ConstructSegment, Touches
    <2>4. CASE CheckRemap(p) \/ MarkSegment(p) \/ RemoveSegment(p) \/ NextBlock(p)
      <3>1. CASE CheckRemap(p)
        <4>1. Remap(p) \/ UNCHANGED segmentVars
          BY <3>1 DEF CheckRemap
        <4>2. QED
          BY <1>q, <1>u, <4>1
      <3>2. CASE MarkSegment(p) \/ NextBlock(p)
        <4>1. state_[p] # 0 /\ (RecreateMark(p) \/ FetchAddSeq(p))
          BY <1>a, <3>2 DEF MarkSegment, NextBlock, Attached
        <4>2. QED
          BY <1>q, <4>1
      <3>3. CASE RemoveSegment(p)
        <4>1. \E s \in MsgSize : RecreateRemove(p, s)
          BY <1>t, <1>1, <3>3 DEF RemoveSegment
        <4>2. QED
          BY <1>q, <4>1
      <3>4. QED
        BY <2>4, <3>1, <3>2, <3>3
    <2>5. CASE LockBlock(p)
      <3>1. state_[p] # 0
        BY <1>a, <2>5 DEF LockBlock, Attached
      <3>2. TryLockForWrite(p, index[p]) => SegTypes'
        BY <1>s, <1>n, <3>1 DEF TryLockForWrite, kWriteExclusive
      <3>3. QED
        BY <1>1, <1>u, <2>5, <3>2 DEF LockBlock, Touches
    <2>6. CASE WriteBlock(p)
      BY <1>t, <1>1, <1>a, <2>6, WriteFacts DEF WriteBlock, Attached, Touches
    <2>7. CASE SerializeFails(p) \/ FinishBlock(p)
      <3>1. state_[p] # 0
        BY <1>a, <2>7 DEF SerializeFails, FinishBlock, Attached
      <3>2. PICK d \in Int :
              SetBlock(p, index[p], Seg(p).lock_num[index[p]] + 1, d)
        BY <1>t, <1>n, <2>7, <3>1
        DEF SerializeFails, FinishBlock, ReleaseWriteLock, Partial
      <3>4. SegTypes'
        BY <1>s, <1>n, <3>1, <3>2
      <3>3. QED
        BY <1>1, <2>7, <3>4 DEF Touches
    <2>8. QED
      BY <1>1, <2>1, <2>2, <2>3, <2>4, <2>5, <2>6, <2>7 DEF WriterStep
  <1>2. CASE p \in Reader /\ ReaderStep(p)
    <2>1. CASE Start(p) \/ Listen(p) \/ Take(p) \/ ReadBlock(p)
      BY <1>u, <2>1 DEF Start, Listen, Take, ReadBlock
    <2>2. CASE CheckIndex(p)
      <3>1. Remap(p) \/ UNCHANGED segmentVars
        BY <2>2 DEF CheckIndex
      <3>2. QED
        BY <1>q, <1>u, <3>1
    <2>3. CASE LockToRead(p)
      <3>1. state_[p] # 0
        BY <1>a, <2>3 DEF LockToRead, Attached
      <3>2. TryLockForRead(p, index[p]) => SegTypes'
        BY <1>s, <1>n, <3>1 DEF TryLockForRead
      <3>3. QED
        BY <1>2, <1>u, <2>3, <3>2 DEF LockToRead, Touches
    <2>4. CASE LockBeyond(p)
      BY <1>t, <1>2, <1>a, <2>4, BeyondFacts DEF LockBeyond, Attached, Touches
    <2>5. CASE ReleaseBlock(p)
      <3>1. state_[p] # 0
        BY <1>a, <2>5 DEF ReleaseBlock, Attached
      <3>2. SegTypes'
        BY <1>s, <1>n, <2>5, <3>1 DEF ReleaseBlock, ReleaseReadLock
      <3>3. QED
        BY <1>2, <2>5, <3>2 DEF Touches
    <2>6. QED
      BY <1>2, <2>1, <2>2, <2>3, <2>4, <2>5 DEF ReaderStep
  <1>3. CASE AnyStep(p)
    <2>1. CASE OpenSegment(p) \/ Unlink(p)
      <3>1. OpenOnly(p) \/ DestroyRemove(p)
        BY <2>1 DEF OpenSegment, Unlink
      <3>2. QED
        BY <1>q, <3>1
    <2>2. CASE OpenFails(p) \/ Crash(p)
      BY <1>u, <2>2 DEF OpenFails, Crash
    <2>3. CASE Disable(p)
      <3>1. (state_[p] # 0 /\ DestroyDecrease(p)) \/ DestroyNothing(p)
        BY <1>a, <2>3 DEF Disable
      <3>2. QED
        BY <1>q, <3>1
    <2>4. CASE DestroyTest(p)
      <3>1. DestroyNothing(p) \/ UNCHANGED segmentVars
        BY <2>4 DEF DestroyTest, DestroyKeep
      <3>2. QED
        BY <1>q, <1>u, <3>1
    <2>5. QED
      BY <1>3, <2>1, <2>2, <2>3, <2>4 DEF AnyStep
  <1>4. QED
    BY <1>1, <1>2, <1>3 DEF Step

-----------------------------------------------------------------------------
(* A step of one process leaves the locals of the others alone.            *)

SegOthers(p) ==
    \A q \in Proc : q # p =>
      init_'[q] = init_[q] /\ conf_'[q] = conf_[q] /\ state_'[q] = state_[q]

RingOthers(p) ==
    /\ \A w \in Writer : w # p => seq'[w] = seq[w]
    /\ \A r \in Reader : r # p =>
         next_seq_'[r] = next_seq_[r] /\ actual_seq'[r] = actual_seq[r]

LocalOthers(p) ==
    /\ \A q \in Proc : q # p => /\ pc'[q] = pc[q] /\ then'[q] = then[q]
                                /\ index'[q] = index[q] /\ stamp'[q] = stamp[q]
    /\ \A w \in Writer : w # p => size'[w] = size[w]
    /\ \A r \in Reader : r # p => home'[r] = home[r] /\ got'[r] = got[r]

\* Every operation changes the Segment object of its own process only.
LEMMA SegAside ==
    ASSUME BaseInv, NEW p \in Proc, Step(p)
    PROVE  SegOthers(p)
  <1>t. init_ \in [Proc -> BOOLEAN] /\ conf_ \in [Proc -> Size]
        /\ state_ \in [Proc -> Nat]
    BY DEF BaseInv, SegTypes
  <1> DEFINE Own == /\ init_' = init_ \/ \E v \in BOOLEAN : init_' = [init_ EXCEPT ![p] = v]
                    /\ conf_' = conf_ \/ \E v : conf_' = [conf_ EXCEPT ![p] = v]
                    /\ state_' = state_ \/ \E v : state_' = [state_ EXCEPT ![p] = v]
  <1>1. Own => SegOthers(p)
    BY <1>t DEF SegOthers
  <1> HIDE DEF Own
  <1>2. UNCHANGED segmentVars => Own
    BY DEF Own, segmentVars
  <1>3. Create(p) \/ Construct(p) \/ OpenOnly(p) => Own
    BY DEF Own, Create, Construct, OpenOnly
  <1>4. Remap(p) \/ RecreateMark(p) \/ (\E s \in MsgSize : RecreateRemove(p, s)) => Own
    BY DEF Own, Remap, RecreateMark, RecreateRemove, Reset
  <1>5. DestroyDecrease(p) \/ DestroyNothing(p) \/ DestroyRemove(p) => Own
    BY DEF Own, DestroyDecrease, DestroyNothing, DestroyRemove, NewObject
  <1>6. UNCHANGED <<init_, conf_, state_>> => Own
    BY DEF Own
  <1>7. CASE p \in Writer /\ WriterStep(p)
    <2>1. CASE Transmit(p) \/ Reserve(p) \/ StoreInfo(p) \/ StoreSeq(p)
      BY <1>1, <1>2, <2>1 DEF Transmit, Reserve, StoreInfo, StoreSeq
    <2>2. CASE CreateSegment(p)
      BY <1>1, <1>2, <1>3, <2>2 DEF CreateSegment
    <2>3. CASE ConstructSegment(p)
      BY <1>1, <1>3, <2>3 DEF ConstructSegment
    <2>4. CASE CheckRemap(p)
      BY <1>1, <1>2, <1>4, <2>4 DEF CheckRemap
    <2>5. CASE MarkSegment(p)
      BY <1>1, <1>4, <2>5 DEF MarkSegment
    <2>6. CASE RemoveSegment(p)
      <3>1. size[p] \in MsgSize
        BY <1>7 DEF BaseInv, LocalTypes
      <3>2. QED
        BY <1>1, <1>4, <2>6, <3>1 DEF RemoveSegment
    <2>7. CASE NextBlock(p)
      BY <1>1, <1>6, <2>7 DEF NextBlock, FetchAddSeq
    <2>8. CASE LockBlock(p)
      BY <1>1, <1>2, <1>6, <2>8 DEF LockBlock, TryLockForWrite, SetBlock
    <2>9. CASE WriteBlock(p) \/ SerializeFails(p) \/ FinishBlock(p)
      BY <1>1, <1>6, <2>9
      DEF WriteBlock, SerializeFails, FinishBlock, ReleaseWriteLock, SetBlock
    <2>10. QED
      BY <1>7, <2>1, <2>2, <2>3, <2>4, <2>5, <2>6, <2>7, <2>8, <2>9 DEF WriterStep
  <1>8. CASE p \in Reader /\ ReaderStep(p)
    <2>1. CASE Start(p) \/ Listen(p) \/ Take(p) \/ ReadBlock(p)
      BY <1>1, <1>2, <2>1 DEF Start, Listen, Take, ReadBlock
    <2>2. CASE CheckIndex(p)
      BY <1>1, <1>2, <1>4, <2>2 DEF CheckIndex
    <2>3. CASE LockToRead(p)
      BY <1>1, <1>2, <1>6, <2>3 DEF LockToRead, TryLockForRead, SetBlock
    <2>4. CASE LockBeyond(p) \/ ReleaseBlock(p)
      BY <1>1, <1>6, <2>4 DEF LockBeyond, ReleaseBlock, ReleaseReadLock, SetBlock
    <2>5. QED
      BY <1>8, <2>1, <2>2, <2>3, <2>4 DEF ReaderStep
  <1>9. CASE AnyStep(p)
    <2>1. CASE OpenSegment(p)
      BY <1>1, <1>3, <2>1 DEF OpenSegment
    <2>2. CASE OpenFails(p) \/ Crash(p)
      BY <1>1, <1>2, <2>2 DEF OpenFails, Crash
    <2>3. CASE Disable(p)
      BY <1>1, <1>5, <2>3 DEF Disable
    <2>4. CASE DestroyTest(p)
      BY <1>1, <1>2, <1>5, <2>4 DEF DestroyTest, DestroyKeep
    <2>5. CASE Unlink(p)
      BY <1>1, <1>5, <2>5 DEF Unlink
    <2>6. QED
      BY <1>9, <2>1, <2>2, <2>3, <2>4, <2>5 DEF AnyStep
  <1>10. QED
    BY <1>7, <1>8, <1>9 DEF Step

\* A process that gives up a message forgets it.
LEMMA GiveUpFacts ==
    ASSUME LocalTypes, NEW p \in Proc, GiveUp(p), writes' = writes
    PROVE  /\ LocalTypes' /\ LocalOthers(p)
           /\ pc'[p] = Rest(p) /\ then'[p] = "idle"
  <1>t. /\ pc \in [Proc -> Label] /\ then \in [Proc -> Label]
        /\ size \in [Writer -> MsgSize] /\ index \in [Proc -> Blocks]
        /\ stamp \in [Proc -> Nat] /\ home \in [Reader -> Nat]
        /\ got \in [Reader -> Int] /\ writes \in Nat
    BY DEF LocalTypes
  <1>1. /\ pc' = [pc EXCEPT ![p] = Rest(p)] /\ then' = [then EXCEPT ![p] = "idle"]
        /\ index' = [index EXCEPT ![p] = 0] /\ stamp' = [stamp EXCEPT ![p] = 0]
        /\ size' = [q \in Writer |-> IF q = p THEN Small ELSE size[q]]
        /\ home' = [r \in Reader |-> IF r = p THEN 0 ELSE home[r]]
        /\ got' = [r \in Reader |-> IF r = p THEN 0 ELSE got[r]]
    BY DEF GiveUp, GoOpen, Go, Blank
  <1>2. Rest(p) \in Label /\ "idle" \in Label /\ 0 \in Blocks /\ Small \in MsgSize
    BY BlockFacts DEF Rest, Label, WLabel, RLabel
  <1>3. /\ pc' \in [Proc -> Label] /\ then' \in [Proc -> Label]
        /\ pc'[p] = Rest(p) /\ then'[p] = "idle"
        /\ index' \in [Proc -> Blocks] /\ stamp' \in [Proc -> Nat]
    BY <1>t, <1>1, <1>2
  <1>4. /\ size' \in [Writer -> MsgSize] /\ home' \in [Reader -> Nat]
        /\ got' \in [Reader -> Int]
    BY <1>t, <1>1, <1>2
  <1>5. LocalOthers(p)
    BY <1>t, <1>1 DEF LocalOthers
  <1>6. QED
    BY <1>t, <1>3, <1>4, <1>5 DEF LocalTypes

\* A process goes on, with what it knows of its message.
Moves(p) ==
    /\ \E l \in Label : pc' = [pc EXCEPT ![p] = l]
    /\ then' = then \/ \E l \in Label : then' = [then EXCEPT ![p] = l]

\* A process that changes its label leaves the labels of the others.
LEMMA MovesFacts ==
    ASSUME LocalTypes, NEW p \in Proc, Moves(p)
    PROVE  /\ pc' \in [Proc -> Label] /\ then' \in [Proc -> Label]
           /\ \A q \in Proc : q # p => pc'[q] = pc[q] /\ then'[q] = then[q]
  BY DEF LocalTypes, Moves

\* A step that only moves one process keeps the types of the local state.
LEMMA MovesOnly ==
    ASSUME LocalTypes, NEW p \in Proc, Moves(p),
           UNCHANGED <<size, index, stamp, home, got, writes>>
    PROVE  LocalTypes' /\ LocalOthers(p)
  <1>1. /\ pc' \in [Proc -> Label] /\ then' \in [Proc -> Label]
        /\ \A q \in Proc : q # p => pc'[q] = pc[q] /\ then'[q] = then[q]
    BY MovesFacts
  <1>2. LocalTypes'
    BY <1>1 DEF LocalTypes
  <1>3. LocalOthers(p)
    BY <1>1 DEF LocalOthers
  <1>4. QED
    BY <1>2, <1>3

\* The steps of Notify() and Listen(); all others leave the ring alone.
Notifies(p) ==
    \/ p \in Writer /\ (Reserve(p) \/ StoreInfo(p) \/ StoreSeq(p))
    \/ p \in Reader /\ (Start(p) \/ Listen(p) \/ Take(p))

\* Nothing but Notify() writes the notifier's shared ring.
LEMMA RingQuiet ==
    ASSUME NEW p \in Proc, Step(p)
    PROVE  Notifies(p) \/ UNCHANGED notifierVars
  <1>1. CASE p \in Writer /\ WriterStep(p)
    BY <1>1
    DEF WriterStep, Notifies, Transmit, CreateSegment, ConstructSegment,
        CheckRemap, MarkSegment, RemoveSegment, NextBlock, LockBlock, WriteBlock,
        SerializeFails, FinishBlock
  <1>2. CASE p \in Reader /\ ReaderStep(p)
    BY <1>2
    DEF ReaderStep, Notifies, CheckIndex, LockToRead, LockBeyond, ReadBlock,
        ReleaseBlock
  <1>3. CASE AnyStep(p)
    BY <1>3
    DEF AnyStep, OpenSegment, OpenFails, Disable, DestroyTest, Unlink, Crash
  <1>4. QED
    BY <1>1, <1>2, <1>3 DEF Step

\* Slots of the ring.
LEMMA SlotOf ==
    ASSUME NEW n \in Nat
    PROVE  n % BufLength \in Slots
  BY NotifierAssumption, ModRange DEF Slots

\* The ring keeps its types; writers and readers keep theirs to themselves.
LEMMA RingStep ==
    ASSUME BaseInv, NEW p \in Proc, Step(p)
    PROVE  RingTypes' /\ RingOthers(p)
  <1>t. /\ next_seq \in Nat
        /\ infos \in [Slots -> InfoRec \cup {NoInfo}]
        /\ seqs \in [Slots -> Nat] /\ seq \in [Writer -> Nat]
        /\ next_seq_ \in [Reader -> Nat] /\ actual_seq \in [Reader -> Nat]
        /\ lapped \in BOOLEAN
    BY DEF BaseInv, RingTypes
  <1>u. ASSUME UNCHANGED notifierVars
        PROVE  RingTypes' /\ RingOthers(p)
    BY <1>t, <1>u DEF notifierVars, RingTypes, RingOthers
  <1>1. CASE p \in Writer /\ Reserve(p)
    <2>1. seq' = [seq EXCEPT ![p] = next_seq] /\ next_seq' = next_seq + 1
          /\ UNCHANGED <<infos, seqs, next_seq_, actual_seq, lapped>>
      BY <1>1 DEF Reserve, NotifyReserve
    <2>2. RingTypes'
      <3>0. seq \in [Writer -> Nat] /\ next_seq \in Nat
        BY <1>t
      <3>1. seq' \in [Writer -> Nat] /\ next_seq' \in Nat
        <4>1. next_seq' \in Nat
          BY <2>1, <3>0
        <4>2. seq' = [seq EXCEPT ![p] = next_seq]
          BY <2>1
        <4>3. seq' \in [Writer -> Nat]
          BY <3>0, <4>2
        <4>4. QED
          BY <4>1, <4>3
      <3>2. QED
        BY <1>t, <2>1, <3>1 DEF RingTypes
    <2>3. QED
      BY <1>t, <2>1, <2>2 DEF RingOthers
  <1>2. CASE p \in Writer /\ StoreInfo(p)
    <2>1. infos' = [infos EXCEPT ![seq[p] % BufLength] = Info(p)]
          /\ lapped' = Lapped(p)
          /\ UNCHANGED <<next_seq, seqs, seq, next_seq_, actual_seq>>
      BY <1>2 DEF StoreInfo, NotifyStoreInfo
    <2>2. Info(p) \in InfoRec
      <3>1. index[p] \in Blocks /\ seq[p] \in Nat /\ stamp[p] \in Nat
            /\ state_[p] \in Nat
        BY <1>t, <1>2 DEF BaseInv, LocalTypes, SegTypes
      <3>2. QED
        BY <3>1 DEF Info, InfoRec
    <2>3. seq[p] % BufLength \in Slots
      BY <1>t, <1>2, SlotOf
    <2>4. infos' \in [Slots -> InfoRec \cup {NoInfo}]
      BY <1>t, <2>1, <2>2
    <2>5. lapped' \in BOOLEAN
      BY <2>1 DEF Lapped
    <2>6. RingTypes'
      BY <1>t, <2>1, <2>4, <2>5 DEF RingTypes
    <2>7. QED
      BY <2>1, <2>6 DEF RingOthers
  <1>3. CASE p \in Writer /\ StoreSeq(p)
    <2>1. seqs' = [seqs EXCEPT ![seq[p] % BufLength] = seq[p]]
          /\ seq' = [seq EXCEPT ![p] = 0] /\ lapped' = Lapped(p)
          /\ UNCHANGED <<next_seq, infos, next_seq_, actual_seq>>
      BY <1>3 DEF StoreSeq, NotifyStoreSeq
    <2>2. seqs' \in [Slots -> Nat] /\ seq' \in [Writer -> Nat]
      BY <1>t, <1>3, <2>1
    <2>3. lapped' \in BOOLEAN
      BY <2>1 DEF Lapped
    <2>4. RingTypes'
      BY <1>t, <2>1, <2>2, <2>3 DEF RingTypes
    <2>5. QED
      BY <1>t, <2>1, <2>4 DEF RingOthers
  <1>4. CASE p \in Reader /\ Start(p)
    <2>1. next_seq_' = [next_seq_ EXCEPT ![p] = next_seq]
          /\ UNCHANGED <<next_seq, infos, seqs, seq, actual_seq, lapped>>
      BY <1>4 DEF Start, Attach
    <2>2. QED
      BY <1>t, <2>1 DEF RingTypes, RingOthers
  <1>5. CASE p \in Reader /\ Listen(p)
    <2>1. actual_seq' = [actual_seq EXCEPT ![p] = seqs[next_seq_[p] % BufLength]]
          /\ UNCHANGED <<next_seq, infos, seqs, seq, next_seq_, lapped>>
      BY <1>5 DEF Listen, ListenTest
    <2>2. seqs[next_seq_[p] % BufLength] \in Nat
      BY <1>t, <1>5, SlotOf
    <2>3. QED
      BY <1>t, <2>1, <2>2 DEF RingTypes, RingOthers
  <1>6. CASE p \in Reader /\ Take(p)
    <2>1. next_seq_' = [next_seq_ EXCEPT ![p] = actual_seq[p] + 1]
          /\ actual_seq' = [actual_seq EXCEPT ![p] = 0]
          /\ UNCHANGED <<next_seq, infos, seqs, seq, lapped>>
      BY <1>6 DEF Take, ListenTake
    <2>2. next_seq_' \in [Reader -> Nat] /\ actual_seq' \in [Reader -> Nat]
      BY <1>t, <1>6, <2>1
    <2>3. RingTypes'
      BY <1>t, <2>1, <2>2 DEF RingTypes
    <2>4. QED
      BY <1>t, <2>1, <2>3 DEF RingOthers
  <1>7. QED
    BY <1>u, <1>1, <1>2, <1>3, <1>4, <1>5, <1>6, RingQuiet DEF Notifies

\* What a step of the process changes of its own locals.
LEMMA LocalStep ==
    ASSUME BaseInv, NEW p \in Proc, Step(p)
    PROVE  LocalTypes' /\ LocalOthers(p)
  <1>t. /\ pc \in [Proc -> Label] /\ then \in [Proc -> Label]
        /\ size \in [Writer -> MsgSize] /\ index \in [Proc -> Blocks]
        /\ stamp \in [Proc -> Nat] /\ home \in [Reader -> Nat]
        /\ got \in [Reader -> Int] /\ writes \in Nat
    BY DEF BaseInv, LocalTypes
  <1>l. LocalTypes /\ SegTypes /\ RingTypes
    BY DEF BaseInv
  <1>a. pc[p] \in Attached => state_[p] # 0
    BY DEF BaseInv, Placed
  <1>c. conf_[p] \in Size
    BY DEF BaseInv, SegTypes
  <1>g. /\ \A m \in Label : Go(p, m) /\ UNCHANGED then => Moves(p)
        /\ \A m, n \in Label : GoOpen(p, m, n) => Moves(p)
    BY DEF Go, GoOpen, Moves
  <1>s. \A s \in MsgSize : Sized(s, conf_[p]) \in Label /\ Sized(s, conf_'[p]) \in Label
    BY DEF Sized, Label, WLabel
  <1>w. Label = {"idle", "create", "construct", "open", "remap", "mark", "remove",
                 "next", "lock", "write", "finish", "reserve", "info", "seq",
                 "destroy", "unlink", "dead", "off", "listen", "take", "check",
                 "read", "release", "size"}
    BY DEF Label, WLabel, RLabel
  <1>1. CASE p \in Writer /\ WriterStep(p)
    <2>s. size[p] \in MsgSize
      BY <1>t, <1>1
    <2>1. CASE Transmit(p)
      <3>1. Moves(p)
        BY <1>g, <1>w, <2>1 DEF Transmit
      <3>2. PICK s \in MsgSize : size' = [size EXCEPT ![p] = s]
        BY <2>1 DEF Transmit
      <3>3. UNCHANGED <<index, stamp, home, got, writes>>
        BY <2>1 DEF Transmit
      <3>4. size' \in [Writer -> MsgSize] /\ \A w \in Writer : w # p => size'[w] = size[w]
        BY <1>t, <3>2
      <3>5. QED
        BY <1>l, <3>1, <3>3, <3>4, MovesFacts DEF LocalTypes, LocalOthers
    <2>2. CASE CreateSegment(p)
      <3>1. Moves(p)
        BY <1>g, <1>w, <2>2 DEF CreateSegment
      <3>2. QED
        BY <1>l, <2>2, <3>1, MovesOnly DEF CreateSegment
    <2>3. CASE ConstructSegment(p)
      <3>1. Moves(p)
        BY <1>g, <1>t, <1>w, <2>3 DEF ConstructSegment
      <3>2. QED
        BY <1>l, <2>3, <3>1, MovesOnly DEF ConstructSegment
    <2>4. CASE CheckRemap(p)
      <3>1. Moves(p)
        BY <1>g, <1>w, <1>s, <2>s, <2>4 DEF CheckRemap
      <3>2. QED
        BY <1>l, <2>4, <3>1, MovesOnly DEF CheckRemap
    <2>5. CASE MarkSegment(p) \/ RemoveSegment(p)
      <3>1. Moves(p)
        BY <1>g, <1>w, <2>5 DEF MarkSegment, RemoveSegment
      <3>2. QED
        BY <1>l, <2>5, <3>1, MovesOnly DEF MarkSegment, RemoveSegment
    <2>6. CASE NextBlock(p)
      <3>1. Moves(p)
        BY <1>g, <1>w, <2>6 DEF NextBlock
      <3>2. /\ index' = [index EXCEPT ![p] = Seg(p).seq % block_num(conf_[p])]
            /\ UNCHANGED <<size, stamp, home, got, writes>>
        BY <2>6 DEF NextBlock
      <3>3. Seg(p).seq % block_num(conf_[p]) \in Blocks
        <4>1. state_[p] # 0
          BY <1>a, <2>6 DEF NextBlock, Attached
        <4>2. Seg(p).seq \in Nat
          BY <1>l, <4>1, SegOf DEF SegRec
        <4>3. /\ block_num(conf_[p]) \in Nat /\ block_num(conf_[p]) > 0
              /\ 0 .. block_num(conf_[p]) - 1 \subseteq Blocks
          BY <1>c, BlockFacts
        <4>4. QED
          BY <4>2, <4>3, ModRange
      <3>4. index' \in [Proc -> Blocks] /\ \A q \in Proc : q # p => index'[q] = index[q]
        BY <1>t, <3>2, <3>3
      <3>5. QED
        BY <1>l, <3>1, <3>2, <3>4, MovesFacts DEF LocalTypes, LocalOthers
    <2>7. CASE LockBlock(p)
      <3>1. Moves(p)
        BY <1>g, <1>w, <2>7 DEF LockBlock
      <3>2. /\ \/ stamp' = [stamp EXCEPT ![p] = writes + 1] /\ writes' = writes + 1
               \/ stamp' = stamp /\ writes' = writes
            /\ UNCHANGED <<size, index, home, got>>
        BY <2>7 DEF LockBlock
      <3>3. /\ stamp' \in [Proc -> Nat] /\ writes' \in Nat
            /\ \A q \in Proc : q # p => stamp'[q] = stamp[q]
        BY <1>t, <3>2
      <3>4. QED
        BY <1>l, <3>1, <3>2, <3>3, MovesFacts DEF LocalTypes, LocalOthers
    <2>8. CASE WriteBlock(p) \/ Reserve(p) \/ StoreInfo(p)
      <3>1. Moves(p)
        BY <1>g, <1>w, <2>8 DEF WriteBlock, Reserve, StoreInfo
      <3>2. QED
        BY <1>l, <2>8, <3>1, MovesOnly DEF WriteBlock, Reserve, StoreInfo
    <2>9. CASE FinishBlock(p)
      <3>1. Moves(p)
        BY <1>g, <1>w, <2>9 DEF FinishBlock
      <3>2. /\ size' = [size EXCEPT ![p] = Small]
            /\ UNCHANGED <<index, stamp, home, got, writes>>
        BY <2>9 DEF FinishBlock
      <3>3. size' \in [Writer -> MsgSize] /\ \A w \in Writer : w # p => size'[w] = size[w]
        BY <1>t, <3>2 DEF MsgSize, Small
      <3>4. QED
        BY <1>l, <3>1, <3>2, <3>3, MovesFacts DEF LocalTypes, LocalOthers
    <2>10. CASE SerializeFails(p) \/ StoreSeq(p)
      BY <1>l, <2>10, GiveUpFacts DEF SerializeFails, StoreSeq
    <2>11. QED
      BY <1>1, <2>1, <2>2, <2>3, <2>4, <2>5, <2>6, <2>7, <2>8, <2>9, <2>10 DEF WriterStep
  <1>2. CASE p \in Reader /\ ReaderStep(p)
    <2>1. CASE Start(p) \/ Listen(p)
      <3>1. Moves(p)
        BY <1>g, <1>w, <2>1 DEF Start, Listen
      <3>2. QED
        BY <1>l, <2>1, <3>1, MovesOnly DEF Start, Listen
    <2>2. CASE Take(p)
      <3>1. CASE Heard(p) = NoInfo
        BY <1>l, <2>2, <3>1, GiveUpFacts DEF Take
      <3>2. CASE Heard(p) # NoInfo
        <4>1. Heard(p) \in InfoRec
          <5>1. next_seq_[p] % BufLength \in Slots
            BY <1>2, <1>l, SlotOf DEF RingTypes
          <5>2. QED
            BY <1>l, <3>2, <5>1 DEF Heard, RingTypes
        <4>2. Heard(p).index \in Blocks /\ Heard(p).stamp \in Nat /\ Heard(p).home \in Nat
          BY <4>1 DEF InfoRec
        <4>3. /\ index' = [index EXCEPT ![p] = Heard(p).index]
              /\ stamp' = [stamp EXCEPT ![p] = Heard(p).stamp]
              /\ home' = [home EXCEPT ![p] = Heard(p).home]
              /\ UNCHANGED <<size, got, writes>>
          BY <2>2, <3>2 DEF Take
        <4>4. Moves(p)
          BY <1>g, <1>w, <2>2, <3>2 DEF Take
        <4>5. /\ index' \in [Proc -> Blocks] /\ stamp' \in [Proc -> Nat]
              /\ home' \in [Reader -> Nat]
          BY <1>t, <4>2, <4>3
        <4>6. /\ \A q \in Proc : q # p => index'[q] = index[q] /\ stamp'[q] = stamp[q]
              /\ \A r \in Reader : r # p => home'[r] = home[r]
          BY <1>t, <4>3
        <4>7. QED
          BY <1>l, <4>3, <4>4, <4>5, <4>6, MovesFacts DEF LocalTypes, LocalOthers
      <3>3. QED
        BY <3>1, <3>2
    <2>3. CASE CheckIndex(p)
      <3>1. CASE GiveUp(p)
        BY <1>l, <2>3, <3>1, GiveUpFacts DEF CheckIndex
      <3>2. CASE ~GiveUp(p)
        <4>1. Moves(p)
          BY <1>g, <1>w, <2>3, <3>2 DEF CheckIndex
        <4>2. UNCHANGED <<size, index, stamp, home, got, writes>>
          BY <2>3, <3>2 DEF CheckIndex
        <4>3. QED
          BY <1>l, <4>1, <4>2, MovesOnly
      <3>3. QED
        BY <3>1, <3>2
    <2>4. CASE LockToRead(p)
      <3>1. CASE GiveUp(p)
        BY <1>l, <2>4, <3>1, GiveUpFacts DEF LockToRead
      <3>2. CASE ~GiveUp(p)
        <4>1. Moves(p)
          BY <1>g, <1>w, <2>4, <3>2 DEF LockToRead, locals
        <4>2. UNCHANGED <<size, index, stamp, home, got, writes>>
          BY <2>4, <3>2 DEF LockToRead, locals
        <4>3. QED
          BY <1>l, <4>1, <4>2, MovesOnly
      <3>3. QED
        BY <3>1, <3>2
    <2>5. CASE LockBeyond(p) \/ ReleaseBlock(p)
      BY <1>l, <2>5, GiveUpFacts DEF LockBeyond, ReleaseBlock
    <2>6. CASE ReadBlock(p)
      <3>1. Moves(p)
        BY <1>g, <1>w, <2>6 DEF ReadBlock
      <3>2. /\ got' = [got EXCEPT ![p] = Seg(p).data[index[p]]]
            /\ UNCHANGED <<size, index, stamp, home, writes>>
        BY <2>6 DEF ReadBlock
      <3>3. Seg(p).data[index[p]] \in Int
        <4>1. state_[p] # 0
          BY <1>a, <2>6 DEF ReadBlock, Attached
        <4>2. Seg(p).data \in [Blocks -> Int]
          BY <1>l, <4>1, SegOf DEF SegRec
        <4>3. QED
          BY <1>t, <4>2
      <3>4. got' \in [Reader -> Int] /\ \A r \in Reader : r # p => got'[r] = got[r]
        BY <1>t, <3>2, <3>3
      <3>5. QED
        BY <1>l, <3>1, <3>2, <3>4, MovesFacts DEF LocalTypes, LocalOthers
    <2>7. QED
      BY <1>2, <2>1, <2>2, <2>3, <2>4, <2>5, <2>6 DEF ReaderStep
  <1>3. CASE AnyStep(p)
    <2>1. CASE OpenSegment(p)
      <3>1. pc' = [pc EXCEPT ![p] = IF then[p] = "size" THEN Sized(size[p], conf_'[p])
                                                        ELSE then[p]]
            /\ then' = [then EXCEPT ![p] = "idle"]
            /\ UNCHANGED <<size, index, stamp, home, got, writes>>
        BY <2>1 DEF OpenSegment, GoOpen, Go
      <3>2. (IF then[p] = "size" THEN Sized(size[p], conf_'[p]) ELSE then[p]) \in Label
        BY <1>t, <1>w DEF Sized
      <3>3. Moves(p)
        BY <1>w, <3>1, <3>2 DEF Moves
      <3>4. QED
        BY <1>l, <3>1, <3>3, MovesOnly
    <2>2. CASE OpenFails(p)
      <3>1. CASE GiveUp(p)
        BY <1>l, <2>2, <3>1, GiveUpFacts DEF OpenFails
      <3>2. CASE ~GiveUp(p)
        <4>1. Moves(p)
          BY <1>g, <1>w, <2>2, <3>2 DEF OpenFails, locals
        <4>2. UNCHANGED <<size, index, stamp, home, got, writes>>
          BY <2>2, <3>2 DEF OpenFails, locals
        <4>3. QED
          BY <1>l, <4>1, <4>2, MovesOnly
      <3>3. QED
        BY <3>1, <3>2
    <2>3. CASE Disable(p) \/ DestroyTest(p) \/ Unlink(p)
      <3>1. Moves(p)
        BY <1>g, <1>w, <2>3 DEF Disable, DestroyTest, Unlink, Off
      <3>2. QED
        BY <1>l, <2>3, <3>1, MovesOnly DEF Disable, DestroyTest, Unlink
    <2>4. CASE Crash(p)
      <3>1. Moves(p)
        BY <1>g, <1>t, <1>w, <2>4 DEF Crash
      <3>2. QED
        BY <1>l, <2>4, <3>1, MovesOnly DEF Crash
    <2>5. QED
      BY <1>3, <2>1, <2>2, <2>3, <2>4 DEF AnyStep
  <1>4. QED
    BY <1>1, <1>2, <1>3 DEF Step

\* Processes are attached to a segment wherever they use one.
LEMMA PlacedStep ==
    ASSUME BaseInv, NEW p \in Proc, Step(p), SegTypes', LocalTypes',
           SegOthers(p), LocalOthers(p)
    PROVE  \A q \in Proc : Placed(q)'
  <1>t. /\ pc \in [Proc -> Label] /\ then \in [Proc -> Label]
        /\ init_ \in [Proc -> BOOLEAN] /\ state_ \in [Proc -> Nat]
        /\ conf_ \in [Proc -> Size] /\ size \in [Writer -> MsgSize]
    BY DEF BaseInv, LocalTypes, SegTypes
  <1>p. Placed(p)
    BY DEF BaseInv
  <1>k. p \in Writer \/ p \in Reader
    BY Kinds
  <1>d. ~(p \in Writer /\ p \in Reader)
    BY Kinds
  <1>0. ASSUME NEW q \in Proc, q # p
        PROVE  Placed(q)'
    <2>1. Placed(q)
      BY DEF BaseInv
    <2>2. QED
      BY <1>0, <2>1 DEF Placed, SegOthers, LocalOthers
  <1>go. \A l : Go(p, l) => pc'[p] = l
    BY <1>t DEF Go
  <1>gt. \A l, m : GoOpen(p, l, m) => pc'[p] = l /\ then'[p] = m
    BY <1>t DEF Go, GoOpen
  <1>n. Len(shm) + 1 # 0 /\ Len(shm) \in Nat
    BY DEF BaseInv, SegTypes
  <1> USE DEF Attached, Detached
  \* The Segment object is left alone.
  <1>u. ASSUME UNCHANGED <<init_, state_>>, NEW l, pc'[p] = l,
               p \in Writer => l \in WLabel, p \in Reader => l \in RLabel,
               l \in {"construct", "destroy", "unlink"} => state_[p] # 0,
               l \in Attached => init_[p],
               l \in Detached => ~init_[p],
               l \notin {"create", "construct", "open"}
        PROVE  Placed(p)'
    BY <1>p, <1>u DEF Placed
  <1>v. ASSUME UNCHANGED <<init_, state_>>, GiveUp(p)
        PROVE  Placed(p)'
    <2>1. pc'[p] = Rest(p)
      BY <1>v, <1>gt DEF GiveUp
    <2>2. QED
      BY <1>d, <1>k, <1>u, <1>v, <2>1 DEF Rest, WLabel, RLabel
  <1>1. ASSUME p \in Writer, WriterStep(p) PROVE Placed(p)'
    <2>r. p \notin Reader /\ pc[p] \in WLabel
      BY <1>1, <1>d, <1>p DEF Placed
    <2>1. CASE Transmit(p)
      <3>1. UNCHANGED <<init_, state_>>
        BY <2>1 DEF Transmit, segmentVars
      <3>2. IF init_[p] THEN pc'[p] = "remap"
                        ELSE pc'[p] = "create" /\ then'[p] = "remap"
        BY <1>go, <1>gt, <2>1 DEF Transmit
      <3>3. QED
        BY <1>p, <2>r, <3>1, <3>2 DEF Placed, WLabel
    <2>2. CASE CreateSegment(p)
      <3>1. ~init_[p] /\ then[p] \in {"remap", "next"}
        BY <1>p, <2>2 DEF Placed, CreateSegment
      <3>2. init_' = init_ /\ then' = then
        BY <2>2 DEF CreateSegment, Create, segmentVars
      <3>3. CASE key = 0
        <4>1. state_'[p] # 0 /\ pc'[p] = "construct"
          BY <1>t, <1>n, <1>go, <2>2, <3>3, CreateFacts DEF CreateSegment, BaseInv
        <4>2. QED
          BY <1>1, <2>r, <3>1, <3>2, <4>1 DEF Placed, WLabel
      <3>4. CASE key # 0
        <4>1. state_'[p] = state_[p] /\ pc'[p] = "open"
          BY <1>t, <1>go, <2>2, <3>4 DEF CreateSegment, segmentVars
        <4>2. QED
          BY <1>1, <2>r, <3>1, <3>2, <4>1 DEF Placed, WLabel
      <3>5. QED
        BY <3>3, <3>4
    <2>3. CASE ConstructSegment(p)
      <3>1. then[p] \in {"remap", "next"} /\ state_[p] # 0
        BY <1>p, <2>3 DEF Placed, ConstructSegment
      <3>2. pc'[p] = then[p] /\ init_'[p] = TRUE /\ state_' = state_
        BY <1>t, <1>gt, <2>3 DEF ConstructSegment, Construct
      <3>3. QED
        BY <2>r, <3>1, <3>2 DEF Placed, WLabel
    <2>4. CASE CheckRemap(p)
      <3>1. init_[p] /\ state_[p] # 0
        BY <1>p, <2>4 DEF Placed, CheckRemap
      <3>2. CASE Seg(p).need_remap
        <4>1. pc'[p] = "open" /\ then'[p] = "size" /\ init_'[p] = FALSE
          BY <1>t, <1>gt, <2>4, <3>2 DEF CheckRemap, Remap, Reset
        <4>2. QED
          BY <2>r, <4>1 DEF Placed, WLabel
      <3>3. CASE ~Seg(p).need_remap
        <4>1. pc'[p] \in {"mark", "next"} /\ UNCHANGED <<init_, state_>>
          BY <1>go, <2>4, <3>3 DEF CheckRemap, Sized, segmentVars
        <4>2. QED
          BY <2>r, <3>1, <4>1 DEF Placed, WLabel
      <3>4. QED
        BY <3>2, <3>3
    <2>5. CASE MarkSegment(p)
      <3>1. pc'[p] = "remove" /\ init_'[p] = FALSE
        BY <1>t, <1>go, <2>5 DEF MarkSegment, RecreateMark, Reset
      <3>2. QED
        BY <2>r, <3>1 DEF Placed, WLabel
    <2>6. CASE RemoveSegment(p)
      <3>1. ~init_[p]
        BY <1>p, <2>6 DEF Placed, RemoveSegment
      <3>2. pc'[p] = "create" /\ then'[p] = "next" /\ init_' = init_
        BY <1>gt, <2>6 DEF RemoveSegment, RecreateRemove
      <3>3. QED
        BY <2>r, <3>1, <3>2 DEF Placed, WLabel
    <2>7. CASE NextBlock(p) \/ LockBlock(p) \/ WriteBlock(p) \/ FinishBlock(p)
      <3>1. init_[p] /\ state_[p] # 0
        BY <1>p, <2>7 DEF Placed, NextBlock, LockBlock, WriteBlock, FinishBlock
      <3>2. pc'[p] \in {"lock", "write", "next", "finish", "reserve"}
        BY <1>go, <2>7 DEF NextBlock, LockBlock, WriteBlock, FinishBlock
      <3>3. UNCHANGED <<init_, state_>>
        BY <2>7 DEF NextBlock, FetchAddSeq, LockBlock, TryLockForWrite, SetBlock,
                    segmentVars, WriteBlock, FinishBlock, ReleaseWriteLock
      <3>4. QED
        BY <2>r, <3>1, <3>2, <3>3 DEF Placed, WLabel
    <2>8. CASE Reserve(p) \/ StoreInfo(p)
      <3>1. init_[p] /\ state_[p] # 0
        BY <1>p, <2>8 DEF Placed, Reserve, StoreInfo
      <3>2. pc'[p] \in {"info", "seq"}
        BY <1>go, <2>8 DEF Reserve, StoreInfo
      <3>3. UNCHANGED <<init_, state_>>
        BY <2>8 DEF Reserve, StoreInfo, segmentVars
      <3>4. QED
        BY <2>r, <3>1, <3>2, <3>3 DEF Placed, WLabel
    <2>9. CASE SerializeFails(p) \/ StoreSeq(p)
      <3>1. UNCHANGED <<init_, state_>> /\ GiveUp(p)
        BY <2>9 DEF SerializeFails, StoreSeq, segmentVars, ReleaseWriteLock, SetBlock
      <3>2. QED
        BY <1>v, <3>1
    <2>10. QED
      BY <1>1, <2>1, <2>2, <2>3, <2>4, <2>5, <2>6, <2>7, <2>8, <2>9 DEF WriterStep
  <1>2. ASSUME p \in Reader, ReaderStep(p) PROVE Placed(p)'
    <2>r. p \notin Writer /\ pc[p] \in RLabel
      BY <1>2, <1>d, <1>p DEF Placed
    <2>1. CASE Start(p) \/ Listen(p)
      <3>1. pc'[p] \in {"listen", "take"} /\ UNCHANGED <<init_, state_>>
        BY <1>go, <2>1 DEF Start, Listen, segmentVars
      <3>2. QED
        BY <1>p, <2>r, <3>1 DEF Placed, RLabel
    <2>2. CASE Take(p)
      <3>1. UNCHANGED <<init_, state_>>
        BY <2>2 DEF Take, segmentVars
      <3>2. CASE Heard(p) = NoInfo
        BY <1>v, <2>2, <3>1, <3>2 DEF Take
      <3>3. CASE Heard(p) # NoInfo
        <4>1. IF init_[p] THEN pc'[p] = "check"
                          ELSE pc'[p] = "open" /\ then'[p] = "check"
          BY <1>go, <1>gt, <2>2, <3>3 DEF Take
        <4>2. QED
          BY <1>p, <2>r, <3>1, <4>1 DEF Placed, RLabel
      <3>4. QED
        BY <3>2, <3>3
    <2>3. CASE CheckIndex(p)
      <3>1. init_[p] /\ state_[p] # 0
        BY <1>p, <2>3 DEF Placed, CheckIndex
      <3>2. \/ GiveUp(p) /\ UNCHANGED segmentVars
            \/ Remap(p) /\ GoOpen(p, "open", "lock")
            \/ UNCHANGED segmentVars /\ Go(p, "lock")
        BY <2>3 DEF CheckIndex
      <3>3. CASE GiveUp(p) /\ UNCHANGED segmentVars
        BY <1>v, <3>3 DEF segmentVars
      <3>4. CASE Remap(p) /\ GoOpen(p, "open", "lock")
        <4>1. pc'[p] = "open" /\ then'[p] = "lock" /\ init_'[p] = FALSE
          BY <1>t, <1>gt, <3>4 DEF Remap, Reset
        <4>2. QED
          BY <2>r, <4>1 DEF Placed, RLabel
      <3>5. CASE UNCHANGED segmentVars /\ Go(p, "lock")
        <4>1. pc'[p] = "lock" /\ UNCHANGED <<init_, state_>>
          BY <1>go, <3>5 DEF segmentVars
        <4>2. QED
          BY <2>r, <3>1, <4>1 DEF Placed, RLabel
      <3>6. QED
        BY <3>2, <3>3, <3>4, <3>5
    <2>4. CASE LockToRead(p) \/ ReadBlock(p)
      <3>1. init_[p] /\ state_[p] # 0
        BY <1>p, <2>4 DEF Placed, LockToRead, ReadBlock
      <3>2. UNCHANGED <<init_, state_>>
        BY <2>4 DEF LockToRead, ReadBlock, TryLockForRead, SetBlock, segmentVars
      <3>3. GiveUp(p) \/ pc'[p] \in {"read", "release"}
        BY <1>go, <2>4 DEF LockToRead, ReadBlock
      <3>4. CASE GiveUp(p)
        BY <1>v, <3>2, <3>4
      <3>5. CASE pc'[p] \in {"read", "release"}
        BY <2>r, <3>1, <3>2, <3>5 DEF Placed, RLabel
      <3>6. QED
        BY <3>3, <3>4, <3>5
    <2>5. CASE LockBeyond(p) \/ ReleaseBlock(p)
      <3>1. UNCHANGED <<init_, state_>> /\ GiveUp(p)
        BY <2>5 DEF LockBeyond, ReleaseBlock, ReleaseReadLock, SetBlock
      <3>2. QED
        BY <1>v, <3>1
    <2>6. QED
      BY <1>2, <2>1, <2>2, <2>3, <2>4, <2>5 DEF ReaderStep
  <1>3. ASSUME AnyStep(p) PROVE Placed(p)'
    <2>1. CASE OpenSegment(p)
      <3>1. /\ p \in Writer => then[p] \in {"remap", "next", "size"}
            /\ p \in Reader => then[p] \in {"check", "lock"}
        BY <1>p, <2>1 DEF Placed, OpenSegment
      <3>2. pc'[p] = IF then[p] = "size" THEN Sized(size[p], conf_'[p]) ELSE then[p]
        BY <1>gt, <2>1 DEF OpenSegment
      <3>3. /\ p \in Writer => pc'[p] \in {"mark", "remap", "next"}
            /\ p \in Reader => pc'[p] \in {"check", "lock"}
        BY <3>1, <3>2 DEF Sized
      <3>4. init_'[p] = TRUE /\ state_'[p] = key /\ key # 0
        BY <1>t, <2>1 DEF OpenSegment, OpenOnly
      <3>5. QED
        BY <1>k, <1>d, <3>3, <3>4 DEF Placed, WLabel, RLabel
    <2>2. CASE OpenFails(p)
      <3>1. UNCHANGED <<init_, state_>>
        BY <2>2 DEF OpenFails, segmentVars
      <3>2. GiveUp(p) \/ pc'[p] = "dead"
        BY <1>go, <2>2 DEF OpenFails
      <3>3. CASE GiveUp(p)
        BY <1>v, <3>1, <3>3
      <3>4. CASE pc'[p] = "dead"
        BY <1>p, <3>1, <3>4 DEF Placed, WLabel, RLabel
      <3>5. QED
        BY <3>2, <3>3, <3>4
    <2>3. CASE Disable(p)
      <3>1. CASE init_[p]
        <4>1. pc'[p] = "destroy" /\ init_'[p] = FALSE /\ state_' = state_
          BY <1>t, <1>go, <2>3, <3>1 DEF Disable, DestroyDecrease
        <4>2. state_[p] # 0
          BY <1>p, <3>1 DEF Placed
        <4>3. QED
          BY <4>1, <4>2 DEF Placed, WLabel, RLabel
      <3>2. CASE ~init_[p]
        <4>1. pc'[p] = Off(p) /\ init_' = init_
          BY <1>go, <2>3, <3>2 DEF Disable, DestroyNothing
        <4>2. QED
          BY <1>d, <1>k, <3>2, <4>1 DEF Placed, Off, WLabel, RLabel
      <3>3. QED
        BY <3>1, <3>2
    <2>4. CASE DestroyTest(p)
      <3>1. ~init_[p] /\ state_[p] # 0
        BY <1>p, <2>4 DEF Placed, DestroyTest
      <3>2. \/ DestroyNothing(p) /\ Go(p, Off(p))
            \/ UNCHANGED segmentVars /\ Go(p, "unlink")
        BY <2>4 DEF DestroyTest, DestroyKeep
      <3>3. \/ pc'[p] = Off(p) /\ init_' = init_
            \/ pc'[p] = "unlink" /\ UNCHANGED <<init_, state_>>
        BY <1>go, <3>2 DEF DestroyNothing, segmentVars
      <3>4. QED
        BY <1>d, <1>k, <3>1, <3>3 DEF Placed, Off, WLabel, RLabel
    <2>5. CASE Unlink(p)
      <3>1. ~init_[p]
        BY <1>p, <2>5 DEF Placed, Unlink
      <3>2. pc'[p] = Off(p) /\ init_' = init_
        BY <1>go, <2>5 DEF Unlink, DestroyRemove
      <3>3. QED
        BY <1>d, <1>k, <3>1, <3>2 DEF Placed, Off, WLabel, RLabel
    <2>6. CASE Crash(p)
      <3>1. pc'[p] = "dead" /\ UNCHANGED <<init_, state_>>
        BY <1>gt, <2>6 DEF Crash, segmentVars
      <3>2. QED
        BY <1>p, <3>1 DEF Placed, WLabel, RLabel
    <2>7. QED
      BY <1>3, <2>1, <2>2, <2>3, <2>4, <2>5, <2>6 DEF AnyStep
  <1>4. Placed(p)'
    BY <1>1, <1>2, <1>3 DEF Step
  <1>5. QED
    BY <1>0, <1>4

\* Types and control are kept by every step.
LEMMA BaseStep ==
    ASSUME BaseInv, NEW p \in Proc, Step(p)
    PROVE  BaseInv' /\ SegOthers(p) /\ RingOthers(p) /\ LocalOthers(p)
  <1>1. SegTypes' /\ RingTypes' /\ LocalTypes'
        /\ SegOthers(p) /\ RingOthers(p) /\ LocalOthers(p)
    BY SegStep, SegAside, RingStep, LocalStep
  <1>2. \A q \in Proc : Placed(q)'
    BY <1>1, PlacedStep
  <1>3. QED
    BY <1>1, <1>2 DEF BaseInv

-----------------------------------------------------------------------------
(* The ring of notifications.                                              *)

\* Numbers that are stored, reserved or listened for were handed out.
Numbers ==
    /\ \A i \in Slots : \/ seqs[i] = 0
                        \/ seqs[i] < next_seq /\ seqs[i] % BufLength = i
    /\ \A w \in Writer : pc[w] \in {"info", "seq"} => seq[w] < next_seq
    /\ \A r \in Reader : next_seq_[r] <= next_seq
    /\ \A r \in Reader : pc[r] = "take" => actual_seq[r] < next_seq

\* Number m was reserved and has not been stored.
Reserved(m) == \E w \in Writer : Where(w) \in {"info", "seq"} /\ seq[w] = m

\* Slot i holds the info of number n or of a later one.
InfoFor(i, n) ==
    /\ infos[i] # NoInfo /\ infos[i].by % BufLength = i /\ infos[i].by >= n

\* An info is stored before its number, and slots only move on.
InfoFirst == \A i \in Slots : seqs[i] # 0 => InfoFor(i, seqs[i])
InfoWritten ==
    \A w \in Writer, n \in Nat :
      pc[w] = "seq" /\ seq[w] = n => InfoFor(n % BufLength, n)
AllStored ==
    \A m \in Nat : m < next_seq => seqs[m % BufLength] >= m \/ Reserved(m)
TakesStored ==
    \A r \in Reader, n \in Nat :
      pc[r] = "take" /\ next_seq_[r] = n => seqs[n % BufLength] >= n

Stored == ~lapped => InfoFirst /\ InfoWritten /\ AllStored /\ TakesStored

RingInv == Numbers /\ Stored

\* Numbers of one slot are a whole round apart.
LEMMA SameSlot ==
    ASSUME NEW a \in Nat, NEW b \in Nat, a % BufLength = b % BufLength,
           a < b + BufLength
    PROVE  a <= b
  <1> DEFINE n == BufLength
             qa == a \div n
             qb == b \div n
  <1>n. n \in Nat /\ n > 0
    BY NotifierAssumption
  <1>1. /\ qa \in Int /\ qb \in Int
        /\ a - qa * n = a % n /\ b - qb * n = b % n
    BY <1>n, Z3
  <1> HIDE DEF qa, qb, n
  <1>2. a - b = (qa - qb) * n
    <2>1. a - qa * n = b - qb * n
      BY <1>1 DEF n
    <2>2. a - b = qa * n - qb * n
      BY <1>1, <1>n, <2>1
    <2>3. qa * n - qb * n = (qa - qb) * n
      BY <1>1, <1>n
    <2>4. QED
      BY <2>2, <2>3
  <1>3. CASE qa - qb <= 0
    <2>1. (qa - qb) * n <= 0
      BY <1>1, <1>n, <1>3
    <2>2. QED
      BY <1>2, <2>1
  <1>4. CASE qa - qb >= 1
    <2>1. (qa - qb) * n >= n
      BY <1>1, <1>n, <1>4
    <2>2. QED
      BY <1>2, <1>n, <2>1 DEF n
  <1>5. QED
    BY <1>1, <1>3, <1>4

\* A step outside Notify() and Listen() neither enters nor leaves them, but
\* for a process that dies in there.
LEMMA RingAside ==
    ASSUME BaseInv, NEW p \in Proc, Step(p), ~Notifies(p)
    PROVE  /\ pc'[p] \notin {"info", "seq", "take"}
           /\ pc[p] # "dead"
           /\ pc[p] \in {"info", "seq"} => pc'[p] = "dead" /\ then'[p] = pc[p]
  <1>t. pc \in [Proc -> Label] /\ then \in [Proc -> Label] /\ Placed(p)
    BY DEF BaseInv, LocalTypes
  <1>go. \A l : Go(p, l) => pc'[p] = l
    BY <1>t DEF Go
  <1>gt. \A l, m : GoOpen(p, l, m) => pc'[p] = l /\ then'[p] = m
    BY <1>t DEF Go, GoOpen
  <1>v. GiveUp(p) => pc'[p] \in {"idle", "listen"}
    BY <1>gt DEF GiveUp, Rest
  <1>1. CASE p \in Writer /\ WriterStep(p)
    <2>1. CASE Transmit(p) \/ CreateSegment(p) \/ MarkSegment(p) \/ RemoveSegment(p)
      BY <1>go, <1>gt, <2>1 DEF Transmit, CreateSegment, MarkSegment, RemoveSegment
    <2>2. CASE ConstructSegment(p)
      BY <1>t, <1>gt, <2>2 DEF ConstructSegment, Placed
    <2>3. CASE CheckRemap(p)
      BY <1>go, <1>gt, <2>3 DEF CheckRemap, Sized
    <2>4. CASE NextBlock(p) \/ LockBlock(p) \/ WriteBlock(p) \/ FinishBlock(p)
      BY <1>go, <2>4 DEF NextBlock, LockBlock, WriteBlock, FinishBlock
    <2>5. CASE SerializeFails(p)
      BY <1>v, <2>5 DEF SerializeFails
    <2>6. ~(Reserve(p) \/ StoreInfo(p) \/ StoreSeq(p))
      BY <1>1 DEF Notifies
    <2>7. QED
      BY <1>1, <2>1, <2>2, <2>3, <2>4, <2>5, <2>6 DEF WriterStep
  <1>2. CASE p \in Reader /\ ReaderStep(p)
    <2>1. CASE CheckIndex(p)
      BY <1>go, <1>gt, <1>v, <2>1 DEF CheckIndex
    <2>2. CASE LockToRead(p)
      BY <1>go, <1>v, <2>2 DEF LockToRead
    <2>3. CASE LockBeyond(p) \/ ReleaseBlock(p)
      BY <1>v, <2>3 DEF LockBeyond, ReleaseBlock
    <2>4. CASE ReadBlock(p)
      BY <1>go, <2>4 DEF ReadBlock
    <2>5. ~(Start(p) \/ Listen(p) \/ Take(p))
      BY <1>2 DEF Notifies
    <2>6. QED
      BY <1>2, <2>1, <2>2, <2>3, <2>4, <2>5 DEF ReaderStep
  <1>3. CASE AnyStep(p)
    <2>1. CASE OpenSegment(p)
      <3>1. then[p] \in {"remap", "next", "size", "check", "lock"}
        BY <1>t, <2>1, Kinds DEF OpenSegment, Placed
      <3>2. QED
        BY <1>gt, <2>1, <3>1 DEF OpenSegment, Sized
    <2>2. CASE OpenFails(p)
      BY <1>go, <1>v, <2>2 DEF OpenFails
    <2>3. CASE Disable(p)
      BY <1>go, <2>3 DEF Disable, Off, Rest
    <2>4. CASE DestroyTest(p)
      BY <1>go, <2>4 DEF DestroyTest, Off
    <2>5. CASE Unlink(p)
      BY <1>go, <2>5 DEF Unlink, Off
    <2>6. CASE Crash(p)
      BY <1>gt, <2>6 DEF Crash
    <2>7. QED
      BY <1>3, <2>1, <2>2, <2>3, <2>4, <2>5, <2>6 DEF AnyStep
  <1>4. QED
    BY <1>1, <1>2, <1>3 DEF Step

\* The numbers in the ring are kept by every step.
LEMMA RingInvStep ==
    ASSUME BaseInv, RingInv, NEW p \in Proc, Step(p), BaseInv',
           RingOthers(p), LocalOthers(p)
    PROVE  RingInv'
  <1>t. /\ next_seq \in Nat /\ seqs \in [Slots -> Nat] /\ seq \in [Writer -> Nat]
        /\ next_seq_ \in [Reader -> Nat] /\ actual_seq \in [Reader -> Nat]
        /\ infos \in [Slots -> InfoRec \cup {NoInfo}]
    BY DEF BaseInv, RingTypes
  <1>pc. /\ pc \in [Proc -> Label]
         /\ \A q \in Proc : q # p => pc'[q] = pc[q] /\ then'[q] = then[q]
    BY DEF BaseInv, LocalTypes, LocalOthers
  <1>k. Writer \subseteq Proc /\ Reader \subseteq Proc
        /\ (p \in Writer => p \notin Reader)
    BY Kinds
  <1>b. BufLength \in Nat /\ BufLength > 0
    BY NotifierAssumption
  <1>sl. \A m \in Nat : m % BufLength \in Slots
    BY SlotOf
  <1>nu. Numbers
    BY DEF RingInv
  <1>st. ~lapped => InfoFirst /\ InfoWritten /\ AllStored /\ TakesStored
    BY DEF RingInv, Stored
  <1>go. \A l : Go(p, l) => pc'[p] = l
    BY <1>pc DEF Go
  <1>v. GiveUp(p) => pc'[p] \in {"idle", "listen"}
    BY <1>pc DEF GiveUp, GoOpen, Go, Rest
  <1>q. ASSUME Numbers',
               ~lapped' => (InfoFirst /\ InfoWritten /\ AllStored /\ TakesStored)'
        PROVE  RingInv'
    BY <1>q DEF RingInv, Stored
  <1>0. CASE ~Notifies(p)
    <2>1. UNCHANGED <<next_seq, infos, seqs, seq, next_seq_, actual_seq, lapped>>
      BY <1>0, RingQuiet DEF notifierVars
    <2>2. /\ pc'[p] \notin {"info", "seq", "take"}
          /\ pc[p] # "dead"
          /\ pc[p] \in {"info", "seq"} => pc'[p] = "dead" /\ then'[p] = pc[p]
      BY <1>0, RingAside
    <2>3. Numbers'
      BY <1>nu, <1>pc, <1>k, <2>1, <2>2 DEF Numbers
    <2>4. \A m : Reserved(m) => Reserved(m)'
      BY <1>pc, <1>k, <2>1, <2>2 DEF Reserved, Where
    <2>5. ASSUME ~lapped'
          PROVE  (InfoFirst /\ InfoWritten /\ AllStored /\ TakesStored)'
      <3>1. InfoFirst /\ InfoWritten /\ AllStored /\ TakesStored
        BY <1>st, <2>1, <2>5
      <3>2. InfoFirst'
        BY <2>1, <3>1 DEF InfoFirst, InfoFor
      <3>3. InfoWritten'
        BY <1>pc, <1>k, <2>1, <2>2, <3>1 DEF InfoWritten, InfoFor
      <3>4. AllStored'
        BY <2>1, <2>4, <3>1 DEF AllStored
      <3>5. TakesStored'
        BY <1>pc, <1>k, <2>1, <2>2, <3>1 DEF TakesStored
      <3>6. QED
        BY <3>2, <3>3, <3>4, <3>5
    <2>6. QED
      BY <1>q, <2>3, <2>5
  <1>1. CASE p \in Writer /\ Reserve(p)
    <2>1. /\ seq' = [seq EXCEPT ![p] = next_seq] /\ next_seq' = next_seq + 1
          /\ UNCHANGED <<infos, seqs, next_seq_, actual_seq, lapped>>
          /\ pc[p] = "reserve" /\ pc'[p] = "info"
      BY <1>1, <1>go DEF Reserve, NotifyReserve
    <2>s. seq'[p] = next_seq /\ \A w \in Writer : w # p => seq'[w] = seq[w]
      BY <1>t, <1>1, <2>1
    <2>2. Numbers'
      <3>1. \A i \in Slots : \/ seqs'[i] = 0
                             \/ seqs'[i] < next_seq' /\ seqs'[i] % BufLength = i
        BY <1>t, <1>nu, <2>1 DEF Numbers
      <3>2. ASSUME NEW w \in Writer, pc'[w] \in {"info", "seq"}
            PROVE  seq'[w] < next_seq'
        <4>1. CASE w = p
          BY <1>t, <2>1, <2>s, <4>1
        <4>2. CASE w # p
          <5>1. seq[w] < next_seq /\ seq[w] \in Nat
            BY <1>t, <1>nu, <1>pc, <1>k, <3>2, <4>2 DEF Numbers
          <5>2. QED
            BY <1>t, <2>1, <2>s, <4>2, <5>1
        <4>3. QED
          BY <4>1, <4>2
      <3>3. \A r \in Reader : next_seq_'[r] <= next_seq'
        BY <1>t, <1>nu, <2>1 DEF Numbers
      <3>4. \A r \in Reader : pc'[r] = "take" => actual_seq'[r] < next_seq'
        BY <1>t, <1>nu, <1>pc, <1>k, <1>1, <2>1 DEF Numbers
      <3>5. QED
        BY <3>1, <3>2, <3>3, <3>4 DEF Numbers
    <2>3. \A m : Reserved(m) => Reserved(m)'
      BY <1>pc, <1>k, <2>1, <2>s DEF Reserved, Where
    <2>4. \A m : m = next_seq => Reserved(m)'
      BY <1>1, <2>1, <2>s DEF Reserved, Where
    <2>5. ASSUME ~lapped'
          PROVE  (InfoFirst /\ InfoWritten /\ AllStored /\ TakesStored)'
      <3>1. InfoFirst /\ InfoWritten /\ AllStored /\ TakesStored
        BY <1>st, <2>1, <2>5
      <3>2. InfoFirst'
        BY <2>1, <3>1 DEF InfoFirst, InfoFor
      <3>3. InfoWritten'
        BY <1>pc, <1>k, <2>1, <2>s, <3>1 DEF InfoWritten, InfoFor
      <3>4. AllStored'
        <4>1. \A m \in Nat : m < next_seq' => m < next_seq \/ m = next_seq
          BY <1>t, <2>1
        <4>2. QED
          BY <2>1, <2>3, <2>4, <3>1, <4>1 DEF AllStored
      <3>5. TakesStored'
        BY <1>pc, <1>k, <1>1, <2>1, <3>1 DEF TakesStored
      <3>6. QED
        BY <3>2, <3>3, <3>4, <3>5
    <2>6. QED
      BY <1>q, <2>2, <2>5
  <1>2. CASE p \in Writer /\ StoreInfo(p)
    <2>c. PICK n \in Nat, i \in Slots : n = seq[p] /\ i = n % BufLength
      BY <1>t, <1>2, <1>sl
    <2>1. /\ infos' = [infos EXCEPT ![i] = Info(p)]
          /\ lapped' = Lapped(p)
          /\ UNCHANGED <<next_seq, seqs, seq, next_seq_, actual_seq>>
          /\ pc[p] = "info" /\ pc'[p] = "seq"
      BY <1>2, <1>go, <2>c DEF StoreInfo, NotifyStoreInfo
    <2>i. Info(p) # NoInfo /\ Info(p).by = n
      <3>1. Info(p).by = n
        BY <2>c DEF Info
      <3>2. index[p] \in Nat /\ seq[p] \in Nat /\ stamp[p] \in Nat /\ state_[p] \in Nat
        BY <1>t, <1>2, BlockFacts DEF BaseInv, LocalTypes, SegTypes
      <3>3. Info(p) # NoInfo
        BY <3>2, TransportAssumption DEF Info
      <3>4. QED
        BY <3>1, <3>3
    <2>s. n < next_seq
      BY <1>t, <1>nu, <1>2, <2>c, <2>1 DEF Numbers
    <2>f. /\ infos'[i] = Info(p)
          /\ \A j \in Slots : j # i => infos'[j] = infos[j]
      BY <1>t, <2>1
    <2>2. Numbers'
      <3>1. \A w \in Writer : pc'[w] \in {"info", "seq"} => seq'[w] < next_seq'
        BY <1>nu, <1>pc, <1>k, <2>c, <2>1, <2>s DEF Numbers
      <3>2. \A r \in Reader : pc'[r] = pc[r]
        BY <1>pc, <1>k, <1>2
      <3>3. QED
        BY <1>nu, <2>1, <3>1, <3>2 DEF Numbers
    <2>3. \A m : Reserved(m) => Reserved(m)'
      BY <1>pc, <1>k, <2>1 DEF Reserved, Where
    <2>5. ASSUME ~lapped'
          PROVE  (InfoFirst /\ InfoWritten /\ AllStored /\ TakesStored)'
      <3>l. ~lapped /\ next_seq <= n + BufLength
        <4>1. ~Lapped(p)
          BY <2>1, <2>5, Zenon
        <4>2. ~lapped /\ ~(next_seq > seq[p] + BufLength)
          BY <4>1, Zenon DEF Lapped
        <4>3. QED
          BY <1>t, <1>b, <2>c, <4>2
      <3>1. InfoFirst /\ InfoWritten /\ AllStored /\ TakesStored
        BY <1>st, <3>l
      <3>n. ASSUME NEW m \in Nat, m < next_seq, m % BufLength = i
            PROVE  m <= n
        <4>1. m < n + BufLength
          BY <1>t, <1>b, <3>l, <3>n
        <4>2. QED
          BY <2>c, <3>n, <4>1, SameSlot
      <3>a. ASSUME NEW m \in Nat, m <= n
            PROVE  InfoFor(i, m)'
        BY <2>c, <2>i, <2>f, <3>a DEF InfoFor
      <3>2. InfoFirst'
        <4>1. SUFFICES ASSUME NEW j \in Slots, NEW m \in Nat, seqs[j] = m, m # 0
                       PROVE  InfoFor(j, m)'
          BY <1>t, <2>1 DEF InfoFirst, InfoFor
        <4>2. CASE j # i
          BY <2>f, <3>1, <4>1, <4>2 DEF InfoFirst, InfoFor
        <4>3. CASE j = i
          <5>1. m < next_seq /\ m % BufLength = i
            BY <1>nu, <4>1, <4>3 DEF Numbers
          <5>2. QED
            BY <3>a, <3>n, <4>3, <5>1
        <4>4. QED
          BY <4>2, <4>3
      <3>3. InfoWritten'
        <4>1. SUFFICES ASSUME NEW w \in Writer, NEW m \in Nat, pc'[w] = "seq", seq[w] = m
                       PROVE  InfoFor(m % BufLength, m)'
          BY <2>1 DEF InfoWritten
        <4>2. m < next_seq
          BY <1>nu, <1>pc, <1>k, <2>c, <2>1, <2>s, <4>1 DEF Numbers
        <4>3. PICK j \in Slots : j = m % BufLength
          BY <1>sl
        <4>4. CASE j = i
          BY <3>a, <3>n, <4>2, <4>3, <4>4
        <4>5. CASE j # i
          <5>1. pc[w] = "seq"
            BY <1>pc, <1>k, <2>c, <4>1, <4>3, <4>5
          <5>2. InfoFor(j, m)
            BY <3>1, <4>1, <4>3, <5>1 DEF InfoWritten
          <5>3. QED
            BY <2>f, <4>3, <4>5, <5>2 DEF InfoFor
        <4>6. QED
          BY <4>4, <4>5
      <3>4. AllStored'
        BY <2>1, <2>3, <3>1 DEF AllStored
      <3>5. TakesStored'
        BY <1>pc, <1>k, <1>2, <2>1, <3>1 DEF TakesStored
      <3>6. QED
        BY <3>2, <3>3, <3>4, <3>5
    <2>6. QED
      BY <1>q, <2>2, <2>5
  <1>3. CASE p \in Writer /\ StoreSeq(p)
    <2>c. PICK n \in Nat, i \in Slots : n = seq[p] /\ i = n % BufLength
      BY <1>t, <1>3, <1>sl
    <2>1. /\ seqs' = [seqs EXCEPT ![i] = n]
          /\ seq' = [seq EXCEPT ![p] = 0] /\ lapped' = Lapped(p)
          /\ UNCHANGED <<next_seq, infos, next_seq_, actual_seq>>
          /\ pc[p] = "seq" /\ pc'[p] \in {"idle", "listen"}
      BY <1>3, <1>v, <2>c DEF StoreSeq, NotifyStoreSeq
    <2>s. n < next_seq
      BY <1>t, <1>nu, <1>3, <2>c, <2>1 DEF Numbers
    <2>e. \A w \in Writer : w # p => seq'[w] = seq[w]
      BY <1>t, <2>1
    <2>f. /\ seqs'[i] = n
          /\ \A j \in Slots : j # i => seqs'[j] = seqs[j]
      BY <1>t, <2>1
    <2>2. Numbers'
      <3>1. \A j \in Slots : \/ seqs'[j] = 0
                             \/ seqs'[j] < next_seq' /\ seqs'[j] % BufLength = j
        BY <1>nu, <2>c, <2>1, <2>s, <2>f DEF Numbers
      <3>2. \A w \in Writer : pc'[w] \in {"info", "seq"} => seq'[w] < next_seq'
        BY <1>nu, <1>pc, <1>k, <2>1, <2>e DEF Numbers
      <3>3. \A r \in Reader : next_seq_'[r] <= next_seq'
        BY <1>nu, <2>1 DEF Numbers
      <3>4. \A r \in Reader : pc'[r] = "take" => actual_seq'[r] < next_seq'
        BY <1>nu, <1>pc, <1>k, <1>3, <2>1 DEF Numbers
      <3>5. QED
        BY <3>1, <3>2, <3>3, <3>4 DEF Numbers
    <2>3. \A m : Reserved(m) /\ m # n => Reserved(m)'
      BY <1>pc, <1>k, <2>c, <2>1, <2>e DEF Reserved, Where
    <2>5. ASSUME ~lapped'
          PROVE  (InfoFirst /\ InfoWritten /\ AllStored /\ TakesStored)'
      <3>l. ~lapped /\ next_seq <= n + BufLength
        <4>1. ~Lapped(p)
          BY <2>1, <2>5, Zenon
        <4>2. ~lapped /\ ~(next_seq > seq[p] + BufLength)
          BY <4>1, Zenon DEF Lapped
        <4>3. QED
          BY <1>t, <1>b, <2>c, <4>2
      <3>1. InfoFirst /\ InfoWritten /\ AllStored /\ TakesStored
        BY <1>st, <3>l
      <3>n. ASSUME NEW m \in Nat, m < next_seq, m % BufLength = i
            PROVE  m <= n
        <4>1. m < n + BufLength
          BY <1>t, <1>b, <3>l, <3>n
        <4>2. QED
          BY <2>c, <3>n, <4>1, SameSlot
      <3>m. ASSUME NEW j \in Slots, NEW m \in Nat, seqs[j] >= m
            PROVE  seqs'[j] >= m
        <4>1. CASE j # i
          BY <2>f, <3>m, <4>1
        <4>2. CASE j = i /\ seqs[i] = 0
          BY <2>f, <3>m, <4>2
        <4>3. CASE j = i /\ seqs[i] # 0
          <5>1. PICK o \in Nat : o = seqs[i]
            BY <1>t
          <5>2. o < next_seq /\ o % BufLength = i
            BY <1>nu, <4>3, <5>1 DEF Numbers
          <5>3. o <= n
            BY <3>n, <5>2
          <5>4. QED
            BY <2>f, <3>m, <4>3, <5>1, <5>3
        <4>4. QED
          BY <4>1, <4>2, <4>3
      <3>2. InfoFirst'
        <4>1. InfoFor(i, n)
          BY <1>3, <2>c, <2>1, <3>1 DEF InfoWritten
        <4>2. SUFFICES ASSUME NEW j \in Slots, seqs'[j] # 0
                       PROVE  InfoFor(j, seqs[j])'
          BY DEF InfoFirst
        <4>3. CASE j # i
          BY <2>1, <2>f, <3>1, <4>2, <4>3 DEF InfoFirst, InfoFor
        <4>4. CASE j = i
          BY <2>1, <2>f, <4>1, <4>4 DEF InfoFor
        <4>5. QED
          BY <4>3, <4>4
      <3>3. InfoWritten'
        BY <1>pc, <1>k, <2>1, <2>e, <3>1 DEF InfoWritten, InfoFor
      <3>4. AllStored'
        <4>1. SUFFICES ASSUME NEW m \in Nat, m < next_seq
                       PROVE  seqs'[m % BufLength] >= m \/ Reserved(m)'
          BY <2>1 DEF AllStored
        <4>2. CASE seqs[m % BufLength] >= m
          BY <1>sl, <3>m, <4>2
        <4>3. CASE Reserved(m) /\ m # n
          BY <2>3, <4>3
        <4>4. CASE m = n
          BY <2>c, <2>f, <4>4
        <4>5. QED
          BY <3>1, <4>1, <4>2, <4>3, <4>4 DEF AllStored
      <3>5. TakesStored'
        <4>1. SUFFICES ASSUME NEW r \in Reader, NEW m \in Nat, pc'[r] = "take",
                              next_seq_'[r] = m
                       PROVE  seqs'[m % BufLength] >= m
          BY DEF TakesStored
        <4>2. pc[r] = "take" /\ next_seq_[r] = m
          BY <1>pc, <1>k, <1>3, <2>1, <4>1
        <4>3. QED
          BY <1>sl, <3>1, <3>m, <4>2 DEF TakesStored
      <3>6. QED
        BY <3>2, <3>3, <3>4, <3>5
    <2>6. QED
      BY <1>q, <2>2, <2>5
  <1>4. CASE p \in Reader /\ (Start(p) \/ Listen(p) \/ Take(p))
    <2>1. /\ UNCHANGED <<next_seq, infos, seqs, seq, lapped>>
          /\ pc[p] \in {"off", "listen", "take"}
      BY <1>4 DEF Start, Listen, Take, Attach, ListenTest, ListenTake
    <2>o. \A r \in Reader : r # p =>
            next_seq_'[r] = next_seq_[r] /\ actual_seq'[r] = actual_seq[r]
      BY DEF RingOthers
    <2>n. /\ next_seq_'[p] <= next_seq
          /\ pc'[p] = "take" =>
               /\ actual_seq'[p] < next_seq
               /\ seqs[next_seq_'[p] % BufLength] >= next_seq_'[p]
      <3>1. CASE Start(p)
        <4>1. next_seq_'[p] = next_seq /\ pc'[p] = "listen"
          BY <1>t, <1>4, <1>go, <3>1 DEF Start, Attach
        <4>2. QED
          BY <1>t, <4>1
      <3>2. CASE Listen(p)
        <4> DEFINE j == next_seq_[p] % BufLength
        <4>1. /\ next_seq_'[p] = next_seq_[p] /\ actual_seq'[p] = seqs[j]
              /\ next_seq # next_seq_[p] /\ seqs[j] >= next_seq_[p]
          BY <1>t, <1>4, <3>2 DEF Listen, ListenTest, Readable
        <4>2. next_seq_[p] \in Nat /\ next_seq_[p] <= next_seq
              /\ j \in Slots /\ seqs[j] \in Nat
          BY <1>t, <1>nu, <1>4, <1>sl DEF Numbers
        <4>3. seqs[j] = 0 \/ seqs[j] < next_seq
          BY <1>nu, <4>2 DEF Numbers
        <4>4. seqs[j] < next_seq
          BY <1>t, <4>1, <4>2, <4>3
        <4>5. QED
          BY <4>1, <4>2, <4>4
      <3>3. CASE Take(p)
        <4>1. next_seq_'[p] = actual_seq[p] + 1 /\ pc[p] = "take"
          BY <1>t, <1>4, <3>3 DEF Take, ListenTake
        <4>2. actual_seq[p] \in Nat /\ actual_seq[p] < next_seq
          BY <1>t, <1>nu, <1>4, <4>1 DEF Numbers
        <4>3. pc'[p] # "take"
          <5>1. CASE Heard(p) = NoInfo
            BY <1>v, <3>3, <5>1 DEF Take
          <5>2. CASE Heard(p) # NoInfo
            BY <1>go, <3>3, <5>2 DEF Take, GoOpen
          <5>3. QED
            BY <5>1, <5>2
        <4>4. QED
          BY <1>t, <4>1, <4>2, <4>3
      <3>4. QED
        BY <1>4, <3>1, <3>2, <3>3
    <2>2. Numbers'
      <3>1. \A r \in Reader : next_seq_'[r] <= next_seq'
        BY <1>nu, <2>1, <2>o, <2>n DEF Numbers
      <3>2. \A r \in Reader : pc'[r] = "take" => actual_seq'[r] < next_seq'
        BY <1>nu, <1>pc, <1>k, <2>1, <2>o, <2>n DEF Numbers
      <3>3. \A w \in Writer : pc'[w] = pc[w]
        BY <1>pc, <1>k, <1>4
      <3>4. QED
        BY <1>nu, <2>1, <3>1, <3>2, <3>3 DEF Numbers
    <2>3. \A w \in Writer : pc'[w] = pc[w] /\ then'[w] = then[w]
      BY <1>pc, <1>k, <1>4
    <2>4. \A m : Reserved(m) => Reserved(m)'
      BY <2>1, <2>3 DEF Reserved, Where
    <2>5. ASSUME ~lapped'
          PROVE  (InfoFirst /\ InfoWritten /\ AllStored /\ TakesStored)'
      <3>1. InfoFirst /\ InfoWritten /\ AllStored /\ TakesStored
        BY <1>st, <2>1, <2>5
      <3>2. InfoFirst'
        BY <2>1, <3>1 DEF InfoFirst, InfoFor
      <3>3. InfoWritten'
        BY <2>1, <2>3, <3>1 DEF InfoWritten, InfoFor
      <3>4. AllStored'
        BY <2>1, <2>4, <3>1 DEF AllStored
      <3>5. TakesStored'
        BY <1>pc, <1>k, <2>1, <2>o, <2>n, <3>1 DEF TakesStored
      <3>6. QED
        BY <3>2, <3>3, <3>4, <3>5
    <2>6. QED
      BY <1>q, <2>2, <2>5
  <1>5. QED
    BY <1>0, <1>1, <1>2, <1>3, <1>4 DEF Notifies

-----------------------------------------------------------------------------
(* The theorems about notifications.                                       *)

\* What the first layers say of the initial state.
LEMMA BaseInit == Init => BaseInv /\ RingInv
  <1> SUFFICES ASSUME Init PROVE BaseInv /\ RingInv
    OBVIOUS
  <1>1. SegTypes
    BY BlockFacts DEF Init, SegmentInit, SegTypes
  <1>2. RingTypes
    BY DEF Init, NotifierInit, RingTypes, Slots
  <1>3. LocalTypes
    BY BlockFacts, Kinds DEF Init, LocalTypes, Label, WLabel, RLabel, Blank
  <1>4. ASSUME NEW p \in Proc
        PROVE  Placed(p)
    <2>1. init_[p] = FALSE /\ pc[p] = IF p \in Writer THEN "idle" ELSE "off"
      BY DEF Init, SegmentInit
    <2>2. QED
      BY <2>1, Kinds DEF Placed, WLabel, RLabel, Attached, Detached
  <1>5. pc = [p \in Proc |-> IF p \in Writer THEN "idle" ELSE "off"]
    BY DEF Init
  <1>6. Numbers
    <2>1. /\ next_seq = 0 /\ \A i \in Slots : seqs[i] = 0
          /\ \A r \in Reader : next_seq_[r] = 0
      BY DEF Init, NotifierInit, Slots
    <2>2. /\ \A w \in Writer : pc[w] \notin {"info", "seq"}
          /\ \A r \in Reader : pc[r] # "take"
      BY <1>5, Kinds
    <2>3. QED
      BY <2>1, <2>2 DEF Numbers
  <1>7. InfoFirst /\ AllStored
    <2>1. next_seq = 0 /\ \A i \in Slots : seqs[i] = 0
      BY DEF Init, NotifierInit, Slots
    <2>2. InfoFirst
      BY <2>1 DEF InfoFirst
    <2>3. AllStored
      BY <2>1 DEF AllStored
    <2>4. QED
      BY <2>2, <2>3
  <1>8. InfoWritten /\ TakesStored
    BY <1>5, Kinds DEF InfoWritten, TakesStored
  <1>9. QED
    BY <1>1, <1>2, <1>3, <1>4, <1>6, <1>7, <1>8 DEF BaseInv, RingInv, Stored

\* The base and the ring layer hold in every reachable state.
LEMMA BaseAlways == Spec => [](BaseInv /\ RingInv)
  <1>1. ASSUME BaseInv /\ RingInv, [Next]_vars
        PROVE  (BaseInv /\ RingInv)'
    <2>1. ASSUME NEW p \in Proc, Step(p)
          PROVE  (BaseInv /\ RingInv)'
      <3>1. BaseInv' /\ SegOthers(p) /\ RingOthers(p) /\ LocalOthers(p)
        BY <1>1, <2>1, BaseStep
      <3>2. QED
        BY <1>1, <2>1, <3>1, RingInvStep
    <2>2. CASE UNCHANGED vars
      <3>1. UNCHANGED <<key, shm, init_, conf_, state_, next_seq, infos, seqs, seq,
                        next_seq_, actual_seq, lapped, pc, then, size, index,
                        stamp, home, got, writes>>
        BY <2>2 DEF vars, segmentVars, notifierVars, transportVars
      <3>2. BaseInv'
        BY <1>1, <3>1 DEF BaseInv, SegTypes, RingTypes, LocalTypes, Placed
      <3>3. Numbers' /\ (Stored <=> Stored')
        BY <1>1, <3>1 DEF RingInv, Numbers, Stored, InfoFirst, InfoFor, InfoWritten,
                          AllStored, Reserved, Where, TakesStored
      <3>4. QED
        BY <1>1, <3>2, <3>3 DEF RingInv
    <2>3. QED
      BY <1>1, <2>1, <2>2, Actors
  <1>2. QED
    BY <1>1, BaseInit, PTL DEF Spec

\* Listen() returns the info of the number it waits for or of one a whole
\* number of rounds later, whatever the number of writers and the length of
\* the ring, as long as no writer is overtaken by a whole round.
THEOREM NotificationsHeard == Spec => []HeardIsNotified
  <1>1. ASSUME BaseInv, RingInv
        PROVE  HeardIsNotified
    <2>1. SUFFICES ASSUME ~lapped, NEW r \in Reader, pc[r] = "take", next_seq_[r] # 0
                   PROVE  /\ Heard(r) # NoInfo
                          /\ Heard(r).by >= next_seq_[r]
                          /\ Heard(r).by % BufLength = next_seq_[r] % BufLength
      BY DEF HeardIsNotified
    <2>2. InfoFirst /\ TakesStored
      BY <1>1, <2>1 DEF RingInv, Stored
    <2>3. PICK n \in Nat, i \in Slots : n = next_seq_[r] /\ i = n % BufLength
      BY <1>1, SlotOf DEF BaseInv, RingTypes
    <2>4. seqs[i] \in Nat /\ seqs[i] >= n
      BY <1>1, <2>1, <2>2, <2>3 DEF TakesStored, BaseInv, RingTypes
    <2>5. InfoFor(i, seqs[i])
      BY <2>1, <2>2, <2>3, <2>4 DEF InfoFirst
    <2>6. infos[i] # NoInfo /\ infos[i] \in InfoRec
      BY <1>1, <2>5 DEF InfoFor, BaseInv, RingTypes
    <2>7. infos[i].by \in Nat
      BY <2>6 DEF InfoRec
    <2>8. infos[i].by >= n
      BY <2>4, <2>5, <2>7 DEF InfoFor
    <2>9. QED
      BY <2>3, <2>5, <2>8 DEF Heard, InfoFor
  <1>2. QED
    BY <1>1, BaseAlways, PTL

\* A reader is held up only by a writer inside Notify(), or that died there:
\* otherwise the next number it waits for, if there is one, can be read.
THEOREM NotificationsReadable == Spec => []NotifiedIsReadable
  <1>1. ASSUME BaseInv, RingInv
        PROVE  NotifiedIsReadable
    <2>1. SUFFICES ASSUME ~lapped,
                          \A w \in Writer : Where(w) \notin {"info", "seq"},
                          NEW r \in Reader, next_seq_[r] # next_seq
                   PROVE  Readable(r)
      BY DEF NotifiedIsReadable
    <2>2. next_seq_[r] \in Nat /\ next_seq \in Nat /\ next_seq_[r] <= next_seq
      BY <1>1 DEF RingInv, Numbers, BaseInv, RingTypes
    <2>3. next_seq_[r] < next_seq
      BY <2>1, <2>2
    <2>4. ~Reserved(next_seq_[r])
      BY <2>1 DEF Reserved
    <2>5. seqs[next_seq_[r] % BufLength] >= next_seq_[r]
      BY <1>1, <2>1, <2>2, <2>3, <2>4 DEF RingInv, Stored, AllStored
    <2>6. QED
      BY <2>1, <2>5 DEF Readable
  <1>2. QED
    BY <1>1, BaseAlways, PTL

-----------------------------------------------------------------------------
(* Segments under construction, and the size of messages.                  *)

\* A segment under construction is used by its creator alone, and whoever
\* has opened a segment knows its size, as long as nobody has opened one
\* that was not constructed yet.
Alone(w) ==
    pc[w] = "construct" =>
      /\ shm[state_[w]].ceiling_msg_size = 0
      /\ \A q \in Proc : state_[q] = state_[w] => q = w

Known(q) == init_[q] => conf_[q] = shm[state_[q]].ceiling_msg_size

BuiltInv ==
    "unready" \notin mishap =>
      (\A w \in Writer : Alone(w)) /\ (\A q \in Proc : Known(q))

\* A writer that has been handed a block has the room that is right for its
\* message, and creates no other segment than one of that size; once it has
\* written a message larger than any block, that is known.
Roomy(w) ==
    /\ pc[w] \in {"next", "lock", "write", "finish"} =>
         CeilingMessageSize(size[w]) <= conf_[w]
    /\ pc[w] \in {"create", "construct"} /\ then[w] = "next" =>
         CeilingMessageSize(size[w]) = conf_[w]
    /\ pc[w] = "finish" => size[w] <= Large \/ "oversize" \in mishap

FitInv == mishap \cap {"unready", "small"} = {} => \A w \in Writer : Roomy(w)

\* What went wrong stays known.
LEMMA MishapGrows ==
    ASSUME NEW p \in Proc, Step(p)
    PROVE  mishap \subseteq mishap'
  <1>1. CASE p \in Writer /\ WriterStep(p)
    <2>1. mishap' = mishap \/ WriteBlock(p)
      BY <1>1
      DEF WriterStep, Transmit, CreateSegment, ConstructSegment, CheckRemap,
          MarkSegment, RemoveSegment, NextBlock, LockBlock,
          SerializeFails, FinishBlock, Reserve, StoreInfo, StoreSeq, segmentVars,
          Create, Construct, Remap, RecreateMark, RecreateRemove, FetchAddSeq,
          TryLockForWrite, ReleaseWriteLock, SetBlock
    <2>2. QED
      BY <2>1 DEF WriteBlock
  <1>2. CASE p \in Reader /\ ReaderStep(p)
    BY <1>2
    DEF ReaderStep, Start, Listen, Take, CheckIndex, LockToRead, LockBeyond,
        ReadBlock, ReleaseBlock, segmentVars, Remap, TryLockForRead,
        ReleaseReadLock, SetBlock
  <1>3. CASE AnyStep(p)
    BY <1>3
    DEF AnyStep, OpenSegment, OpenFails, Disable, DestroyTest, Unlink, Crash,
        segmentVars, DestroyDecrease, DestroyNothing, DestroyKeep, DestroyRemove
  <1>4. QED
    BY <1>1, <1>2, <1>3 DEF Step

\* Block b of the segment of p has lock l and contents d, everything else
\* is as it was.
BlockIs(p, b, l, d) ==
    /\ Len(shm') = Len(shm)
    /\ \A g \in 1 .. Len(shm) :
         /\ shm'[g].ceiling_msg_size = shm[g].ceiling_msg_size
         /\ \A c \in Blocks :
              /\ shm'[g].lock_num[c] =
                   IF g = state_[p] /\ c = b THEN l ELSE shm[g].lock_num[c]
              /\ shm'[g].data[c] =
                   IF g = state_[p] /\ c = b THEN d ELSE shm[g].data[c]
    /\ UNCHANGED <<key, init_, conf_, state_, mishap>>

\* What the operations on locks do.
LEMMA BlockSet ==
    ASSUME SegTypes, NEW p \in Proc, state_[p] # 0, NEW b \in Blocks,
           NEW l \in Int, NEW d \in Int, SetBlock(p, b, l, d)
    PROVE  BlockIs(p, b, l, d)
  <1>1. Seg(p) \in SegRec /\ state_[p] \in 1 .. Len(shm)
    BY SegOf
  <1> DEFINE e == [Seg(p) EXCEPT !.lock_num[b] = l, !.data[b] = d]
  <1>2. /\ e.ceiling_msg_size = Seg(p).ceiling_msg_size
        /\ e.lock_num = [Seg(p).lock_num EXCEPT ![b] = l]
        /\ e.data = [Seg(p).data EXCEPT ![b] = d]
    <2>1. ASSUME NEW s \in SegRec
          PROVE  LET f == [s EXCEPT !.lock_num[b] = l, !.data[b] = d]
                 IN  /\ f.ceiling_msg_size = s.ceiling_msg_size
                     /\ f.lock_num = [s.lock_num EXCEPT ![b] = l]
                     /\ f.data = [s.data EXCEPT ![b] = d]
      BY DEF SegRec
    <2>2. QED
      BY <1>1, <2>1
  <1>3. Replaced(state_[p], e) /\ UNCHANGED <<key, init_, conf_, state_, mishap>>
    BY SetBlockFacts
  <1> HIDE DEF e
  <1>4. Seg(p).lock_num \in [Blocks -> Int] /\ Seg(p).data \in [Blocks -> Int]
    BY <1>1 DEF SegRec
  <1>5. \A c \in Blocks : /\ e.lock_num[c] = IF c = b THEN l ELSE Seg(p).lock_num[c]
                          /\ e.data[c] = IF c = b THEN d ELSE Seg(p).data[c]
    BY <1>2, <1>4
  <1>6. ASSUME NEW g \in 1 .. Len(shm)
        PROVE  /\ shm'[g].ceiling_msg_size = shm[g].ceiling_msg_size
               /\ \A c \in Blocks :
                    /\ shm'[g].lock_num[c] =
                         IF g = state_[p] /\ c = b THEN l ELSE shm[g].lock_num[c]
                    /\ shm'[g].data[c] =
                         IF g = state_[p] /\ c = b THEN d ELSE shm[g].data[c]
    <2>1. CASE g = state_[p]
      <3>1. shm'[g] = e /\ shm[g] = Seg(p)
        BY <1>3, <2>1 DEF Replaced, Seg
      <3>2. QED
        BY <1>2, <1>5, <2>1, <3>1
    <2>2. CASE g # state_[p]
      <3>1. shm'[g] = shm[g]
        BY <1>3, <2>2 DEF Replaced
      <3>2. QED
        BY <2>2, <3>1
    <2>3. QED
      BY <2>1, <2>2
  <1>7. Len(shm') = Len(shm)
    BY <1>3 DEF Replaced
  <1>8. QED
    BY <1>3, <1>6, <1>7 DEF BlockIs

\* The sizes of segments are fixed once they are constructed.
SameSizes ==
    /\ Len(shm') = Len(shm)
    /\ \A g \in 1 .. Len(shm) : shm'[g].ceiling_msg_size = shm[g].ceiling_msg_size

\* Only the creation of a segment changes the size of its blocks.
LEMMA SizesKept ==
    ASSUME BaseInv, NEW p \in Proc, Step(p),
           ~(p \in Writer /\ (CreateSegment(p) \/ ConstructSegment(p)))
    PROVE  SameSizes
  <1>t. SegTypes /\ LocalTypes /\ index[p] \in Blocks /\ stamp[p] \in Nat
    BY DEF BaseInv, LocalTypes
  <1>a. pc[p] \in Attached => state_[p] # 0
    BY DEF BaseInv, Placed
  <1>b. ASSUME SameBlocks \/ SameLocks \/ UNCHANGED shm
        PROVE  SameSizes
    BY <1>b DEF SameBlocks, SameLocks, SameSizes
  <1>s. ASSUME state_[p] # 0, NEW l \in Int, NEW d \in Int,
               SetBlock(p, index[p], l, d)
        PROVE  SameSizes
    BY <1>t, <1>s, BlockSet DEF BlockIs, SameSizes
  <1>n. ASSUME state_[p] # 0
        PROVE  /\ Seg(p).lock_num[index[p]] \in Int
               /\ Seg(p).lock_num[index[p]] + 1 \in Int
               /\ Seg(p).lock_num[index[p]] - 1 \in Int
               /\ Seg(p).data[index[p]] \in Int
    <2>1. Seg(p) \in SegRec
      BY <1>t, <1>n, SegOf
    <2>2. /\ Seg(p).lock_num \in [Blocks -> Int]
          /\ Seg(p).data \in [Blocks -> Int]
      BY <2>1 DEF SegRec
    <2>3. QED
      BY <1>t, <2>2
  <1>1. CASE p \in Writer /\ WriteBlock(p)
    <2>1. state_[p] # 0
      BY <1>a, <1>1 DEF WriteBlock, Attached
    <2>2. QED
      BY <1>t, <1>b, <1>1, <2>1, WriteFacts
  <1>2. CASE p \in Writer /\ (LockBlock(p) \/ SerializeFails(p) \/ FinishBlock(p))
    <2>1. state_[p] # 0
      BY <1>a, <1>2 DEF LockBlock, SerializeFails, FinishBlock, Attached
    <2>2. \/ UNCHANGED shm
          \/ SetBlock(p, index[p], kWriteExclusive, Seg(p).data[index[p]])
          \/ SetBlock(p, index[p], Seg(p).lock_num[index[p]] + 1, Seg(p).data[index[p]])
          \/ SetBlock(p, index[p], Seg(p).lock_num[index[p]] + 1, stamp[p])
          \/ SetBlock(p, index[p], Seg(p).lock_num[index[p]] + 1, Partial)
      BY <1>2 DEF LockBlock, SerializeFails, FinishBlock, TryLockForWrite,
                  ReleaseWriteLock, segmentVars
    <2>3. kWriteExclusive \in Int /\ Partial \in Int
      BY DEF kWriteExclusive, Partial
    <2>4. QED
      BY <1>t, <1>b, <1>s, <1>n, <2>1, <2>2, <2>3
  <1>3. CASE p \in Reader /\ (LockToRead(p) \/ ReleaseBlock(p))
    <2>1. state_[p] # 0
      BY <1>a, <1>3 DEF LockToRead, ReleaseBlock, Attached
    <2>2. \/ UNCHANGED shm
          \/ SetBlock(p, index[p], Seg(p).lock_num[index[p]] + 1, Seg(p).data[index[p]])
          \/ SetBlock(p, index[p], Seg(p).lock_num[index[p]] - 1, Seg(p).data[index[p]])
      BY <1>3 DEF LockToRead, ReleaseBlock, TryLockForRead, ReleaseReadLock,
                  segmentVars
    <2>3. QED
      BY <1>b, <1>s, <1>n, <2>1, <2>2
  <1>4. CASE p \in Reader /\ LockBeyond(p)
    <2>1. state_[p] # 0
      BY <1>a, <1>4 DEF LockBeyond, Attached
    <2>2. QED
      BY <1>t, <1>b, <1>4, <2>1, BeyondFacts
  <1>5. QED
    BY <1>b, <1>1, <1>2, <1>3, <1>4, SegStep DEF Touches

\* Other than by creating or opening a segment a process only lets go of one.
LEMMA Detaches ==
    ASSUME BaseInv, NEW p \in Proc, Step(p), ~OpenSegment(p),
           ~(p \in Writer /\ (CreateSegment(p) \/ ConstructSegment(p)))
    PROVE  /\ pc'[p] # "construct"
           /\ \/ UNCHANGED <<init_, conf_, state_>>
              \/ init_'[p] = FALSE /\ state_'[p] \in {0, state_[p]}
  <1>t. /\ pc \in [Proc -> Label] /\ init_ \in [Proc -> BOOLEAN]
        /\ state_ \in [Proc -> Nat] /\ Placed(p)
    BY DEF BaseInv, LocalTypes, SegTypes
  <1>go. \A l : Go(p, l) => pc'[p] = l
    BY <1>t DEF Go
  <1>gt. \A l, m : GoOpen(p, l, m) => pc'[p] = l
    BY <1>t DEF Go, GoOpen
  <1>v. GiveUp(p) => pc'[p] # "construct"
    BY <1>gt DEF GiveUp, Rest
  <1>u. UNCHANGED segmentVars => UNCHANGED <<init_, conf_, state_>>
    BY DEF segmentVars
  <1>r. Reset(p) => init_'[p] = FALSE /\ state_'[p] = 0
    BY <1>t DEF Reset
  <1>1. CASE p \in Writer /\ WriterStep(p)
    <2>1. CASE Transmit(p)
      BY <1>go, <1>gt, <1>u, <2>1 DEF Transmit
    <2>2. CASE CheckRemap(p)
      BY <1>go, <1>gt, <1>u, <1>r, <2>2 DEF CheckRemap, Remap, Sized
    <2>3. CASE MarkSegment(p)
      BY <1>go, <1>r, <2>3 DEF MarkSegment, RecreateMark
    <2>4. CASE RemoveSegment(p)
      <3>1. init_[p] = FALSE
        BY <1>t, <2>4 DEF RemoveSegment, Placed, Detached
      <3>2. QED
        BY <1>gt, <2>4, <3>1 DEF RemoveSegment, RecreateRemove
    <2>5. CASE NextBlock(p)
      BY <1>go, <2>5 DEF NextBlock, FetchAddSeq
    <2>6. CASE LockBlock(p)
      BY <1>go, <1>u, <2>6 DEF LockBlock, TryLockForWrite, SetBlock
    <2>7. CASE WriteBlock(p) \/ FinishBlock(p)
      BY <1>go, <2>7 DEF WriteBlock, FinishBlock, ReleaseWriteLock, SetBlock
    <2>8. CASE SerializeFails(p) \/ StoreSeq(p)
      BY <1>v, <1>u, <2>8 DEF SerializeFails, StoreSeq, ReleaseWriteLock, SetBlock
    <2>9. CASE Reserve(p) \/ StoreInfo(p)
      BY <1>go, <1>u, <2>9 DEF Reserve, StoreInfo
    <2>10. QED
      BY <1>1, <2>1, <2>2, <2>3, <2>4, <2>5, <2>6, <2>7, <2>8, <2>9 DEF WriterStep
  <1>2. CASE p \in Reader /\ ReaderStep(p)
    <2>1. CASE Start(p) \/ Listen(p) \/ ReadBlock(p)
      BY <1>go, <1>u, <2>1 DEF Start, Listen, ReadBlock
    <2>2. CASE Take(p)
      BY <1>go, <1>gt, <1>u, <1>v, <2>2 DEF Take
    <2>3. CASE CheckIndex(p)
      BY <1>go, <1>gt, <1>u, <1>v, <1>r, <2>3 DEF CheckIndex, Remap
    <2>4. CASE LockToRead(p)
      BY <1>go, <1>u, <1>v, <2>4 DEF LockToRead, TryLockForRead, SetBlock
    <2>5. CASE LockBeyond(p) \/ ReleaseBlock(p)
      BY <1>v, <2>5 DEF LockBeyond, ReleaseBlock, ReleaseReadLock, SetBlock
    <2>6. QED
      BY <1>2, <2>1, <2>2, <2>3, <2>4, <2>5 DEF ReaderStep
  <1>3. CASE AnyStep(p)
    <2>1. CASE OpenFails(p)
      BY <1>go, <1>u, <1>v, <2>1 DEF OpenFails
    <2>2. CASE Disable(p)
      <3>1. \/ DestroyDecrease(p) /\ Go(p, "destroy")
            \/ ~init_[p] /\ DestroyNothing(p) /\ Go(p, Off(p))
        BY <2>2 DEF Disable
      <3>2. QED
        BY <1>t, <1>go, <3>1 DEF DestroyDecrease, DestroyNothing, NewObject, Off
    <2>3. CASE DestroyTest(p) \/ Unlink(p)
      <3>1. init_[p] = FALSE
        BY <1>t, <2>3 DEF DestroyTest, Unlink, Placed, Detached
      <3>2. \/ DestroyNothing(p) /\ Go(p, Off(p))
            \/ DestroyRemove(p) /\ Go(p, Off(p))
            \/ UNCHANGED segmentVars /\ Go(p, "unlink")
        BY <2>3 DEF DestroyTest, Unlink, DestroyKeep
      <3>3. QED
        BY <1>t, <1>go, <1>u, <3>1, <3>2 DEF DestroyNothing, DestroyRemove, NewObject, Off
    <2>4. CASE Crash(p)
      BY <1>gt, <1>u, <2>4 DEF Crash
    <2>5. QED
      BY <1>3, <2>1, <2>2, <2>3, <2>4 DEF AnyStep
  <1>4. QED
    BY <1>1, <1>2, <1>3 DEF Step

\* Steps that leave the sizes of segments alone and let p at most go of its
\* segment keep what is known of segments.
LEMMA BuiltAside ==
    ASSUME BaseInv, NEW p \in Proc, BaseInv', SegOthers(p), LocalOthers(p),
           \A w \in Writer : Alone(w), \A q \in Proc : Known(q),
           SameSizes, pc'[p] # "construct",
           \/ UNCHANGED <<init_, conf_, state_>>
           \/ init_'[p] = FALSE /\ state_'[p] \in {0, state_[p]}
    PROVE  (\A w \in Writer : Alone(w)') /\ (\A q \in Proc : Known(q)')
  <1>t. /\ \A q \in Proc : /\ state_[q] \in Nat /\ state_[q] <= Len(shm)
                           /\ init_[q] => state_[q] # 0
                           /\ pc[q] = "construct" => state_[q] # 0
        /\ Len(shm) \in Nat /\ Writer \subseteq Proc
    BY Kinds DEF BaseInv, SegTypes, Placed
  <1>1. ASSUME NEW w \in Writer
        PROVE  Alone(w)'
    <2>1. SUFFICES ASSUME pc'[w] = "construct"
                   PROVE  /\ shm'[state_'[w]].ceiling_msg_size = 0
                          /\ \A q \in Proc : state_'[q] = state_'[w] => q = w
      BY DEF Alone
    <2>2. w # p /\ w \in Proc
      BY <1>t, <2>1
    <2>3. pc[w] = "construct" /\ state_'[w] = state_[w]
      BY <2>1, <2>2 DEF SegOthers, LocalOthers
    <2>4. /\ shm[state_[w]].ceiling_msg_size = 0 /\ state_[w] \in 1 .. Len(shm)
          /\ \A q \in Proc : state_[q] = state_[w] => q = w
      BY <1>t, <2>2, <2>3 DEF Alone
    <2>5. shm'[state_'[w]].ceiling_msg_size = 0
      BY <2>3, <2>4 DEF SameSizes
    <2>6. ASSUME NEW q \in Proc, state_'[q] = state_'[w]
          PROVE  q = w
      <3>1. state_'[q] \in {0, state_[q]}
        BY DEF SegOthers
      <3>2. state_[q] = state_[w]
        BY <2>3, <2>4, <2>6, <3>1
      <3>3. QED
        BY <2>4, <3>2
    <2>7. QED
      BY <2>5, <2>6
  <1>2. ASSUME NEW q \in Proc
        PROVE  Known(q)'
    <2>1. SUFFICES ASSUME init_'[q]
                   PROVE  conf_'[q] = shm'[state_'[q]].ceiling_msg_size
      BY DEF Known
    <2>2. init_'[q] = init_[q] /\ conf_'[q] = conf_[q] /\ state_'[q] = state_[q]
      BY <2>1 DEF SegOthers
    <2>3. conf_[q] = shm[state_[q]].ceiling_msg_size /\ state_[q] \in 1 .. Len(shm)
      BY <1>t, <2>1, <2>2 DEF Known
    <2>4. QED
      BY <2>2, <2>3 DEF SameSizes
  <1>3. QED
    BY <1>1, <1>2

\* A segment under construction stays with its creator until it is ready.
LEMMA BuiltStep ==
    ASSUME BaseInv, BuiltInv, NEW p \in Proc, Step(p), BaseInv', SegOthers(p),
           LocalOthers(p)
    PROVE  BuiltInv'
  <1>1. SUFFICES ASSUME "unready" \notin mishap'
                 PROVE  (\A w \in Writer : Alone(w)') /\ (\A q \in Proc : Known(q)')
    BY DEF BuiltInv
  <1>2. (\A w \in Writer : Alone(w)) /\ (\A q \in Proc : Known(q))
    BY <1>1, MishapGrows DEF BuiltInv
  <1>t. /\ \A q \in Proc : /\ state_[q] \in Nat /\ state_[q] <= Len(shm)
                           /\ init_[q] => state_[q] # 0
                           /\ pc[q] = "construct" => state_[q] # 0
        /\ Len(shm) \in Nat /\ Writer \subseteq Proc
    BY Kinds DEF BaseInv, SegTypes, Placed
  <1>y. /\ SegTypes /\ Placed(p) /\ pc \in [Proc -> Label]
        /\ init_ \in [Proc -> BOOLEAN] /\ conf_ \in [Proc -> Size]
        /\ state_ \in [Proc -> Nat]
    BY DEF BaseInv, SegTypes, LocalTypes
  <1>go. \A l : Go(p, l) => pc'[p] = l
    BY <1>y DEF Go
  <1>gt. \A l, m : GoOpen(p, l, m) => pc'[p] = l
    BY <1>go DEF GoOpen
  <1>3. CASE p \in Writer /\ CreateSegment(p)
    <2>1. CASE UNCHANGED segmentVars /\ Go(p, "open")
      <3>1. SameSizes /\ UNCHANGED <<init_, conf_, state_>>
        BY <2>1 DEF segmentVars, SameSizes
      <3>2. pc'[p] # "construct"
        BY <1>go, <2>1
      <3>3. QED
        BY <1>2, <3>1, <3>2, BuiltAside
    <2>2. CASE Create(p)
      <3>1. /\ Len(shm') = Len(shm) + 1
            /\ \A g \in 1 .. Len(shm) : shm'[g] = shm[g]
            /\ shm'[Len(shm) + 1] = Zeroed(0)
            /\ state_' = [state_ EXCEPT ![p] = Len(shm) + 1]
        BY <1>y, <2>2, CreateFacts
      <3>2. UNCHANGED <<init_, conf_>>
        BY <2>2 DEF Create
      <3>3. ~init_[p]
        BY <1>y, <1>3 DEF CreateSegment, Placed, Detached
      <3>4. /\ state_'[p] = Len(shm) + 1
            /\ \A q \in Proc : q # p => state_'[q] = state_[q]
        BY <1>y, <3>1
      <3>5. Zeroed(0).ceiling_msg_size = 0
        BY DEF Zeroed
      <3>6. ASSUME NEW q \in Proc, init_'[q]
            PROVE  conf_'[q] = shm'[state_'[q]].ceiling_msg_size
        <4>1. q # p /\ init_[q]
          BY <3>2, <3>3, <3>6
        <4>2. state_[q] \in 1 .. Len(shm) /\ conf_[q] = shm[state_[q]].ceiling_msg_size
          BY <1>t, <1>2, <4>1 DEF Known
        <4>3. QED
          BY <3>1, <3>2, <3>4, <4>1, <4>2
      <3>7. ASSUME NEW w \in Writer, pc'[w] = "construct"
            PROVE  /\ shm'[state_'[w]].ceiling_msg_size = 0
                   /\ \A q \in Proc : state_'[q] = state_'[w] => q = w
        <4>1. CASE w = p
          <5>1. \A q \in Proc : q # p => state_'[q] # Len(shm) + 1
            BY <1>t, <3>4
          <5>2. QED
            BY <3>1, <3>4, <3>5, <4>1, <5>1
        <4>2. CASE w # p
          <5>1. w \in Proc /\ pc[w] = "construct" /\ state_'[w] = state_[w]
            BY <1>t, <3>4, <3>7, <4>2 DEF LocalOthers
          <5>2. /\ shm[state_[w]].ceiling_msg_size = 0 /\ state_[w] \in 1 .. Len(shm)
                /\ \A q \in Proc : state_[q] = state_[w] => q = w
            BY <1>t, <1>2, <5>1 DEF Alone
          <5>3. state_[w] # Len(shm) + 1
            BY <1>t, <5>2
          <5>4. QED
            BY <3>1, <3>4, <5>1, <5>2, <5>3
        <4>3. QED
          BY <4>1, <4>2
      <3>8. QED
        BY <3>6, <3>7 DEF Known, Alone
    <2>3. QED
      BY <1>3, <2>1, <2>2 DEF CreateSegment
  <1>4. CASE p \in Writer /\ ConstructSegment(p)
    <2>1. pc[p] = "construct" /\ Construct(p) /\ state_[p] # 0
          /\ then[p] \in {"remap", "next"} /\ pc'[p] = then[p]
      BY <1>y, <1>gt, <1>4 DEF ConstructSegment, Placed
    <2> DEFINE e == [Zeroed(conf_[p]) EXCEPT !.reference_count = 1]
    <2>2. Replaced(state_[p], e)
      BY <1>y, <2>1, ConstructFacts
    <2>3. e.ceiling_msg_size = conf_[p]
      BY DEF Zeroed
    <2> HIDE DEF e
    <2>4. /\ UNCHANGED <<conf_, state_>>
          /\ \A q \in Proc : q # p => init_'[q] = init_[q]
      BY <1>y, <2>1 DEF Construct
    <2>5. \A q \in Proc : state_[q] = state_[p] => q = p
      BY <1>2, <1>4, <2>1 DEF Alone
    <2>6. ASSUME NEW q \in Proc, init_'[q]
          PROVE  conf_'[q] = shm'[state_'[q]].ceiling_msg_size
      <3>1. CASE q = p
        <4>1. state_[p] \in 1 .. Len(shm)
          BY <1>t, <2>1
        <4>2. QED
          BY <2>2, <2>3, <2>4, <3>1, <4>1 DEF Replaced
      <3>2. CASE q # p
        <4>1. init_[q] /\ state_[q] # state_[p]
          BY <2>4, <2>5, <2>6, <3>2
        <4>2. state_[q] \in 1 .. Len(shm) /\ conf_[q] = shm[state_[q]].ceiling_msg_size
          BY <1>t, <1>2, <4>1 DEF Known
        <4>3. QED
          BY <2>2, <2>4, <4>1, <4>2 DEF Replaced
      <3>3. QED
        BY <3>1, <3>2
    <2>7. ASSUME NEW w \in Writer, pc'[w] = "construct"
          PROVE  /\ shm'[state_'[w]].ceiling_msg_size = 0
                 /\ \A q \in Proc : state_'[q] = state_'[w] => q = w
      <3>1. w # p /\ w \in Proc
        BY <1>t, <2>1, <2>7
      <3>2. pc[w] = "construct"
        BY <2>7, <3>1 DEF LocalOthers
      <3>3. /\ shm[state_[w]].ceiling_msg_size = 0 /\ state_[w] \in 1 .. Len(shm)
            /\ \A q \in Proc : state_[q] = state_[w] => q = w
        BY <1>t, <1>2, <3>1, <3>2 DEF Alone
      <3>4. state_[w] # state_[p]
        BY <3>1, <3>3
      <3>5. QED
        BY <2>2, <2>4, <3>3, <3>4 DEF Replaced
    <2>8. QED
      BY <2>6, <2>7 DEF Known, Alone
  <1>5. CASE OpenSegment(p)
    <2>1. /\ pc[p] = "open" /\ OpenOnly(p)
          /\ shm[key].ceiling_msg_size # 0
      BY <1>1, <1>5 DEF OpenSegment
    <2>2. key \in 1 .. Len(shm)
      <3>1. key \in Nat /\ key <= Len(shm) /\ key # 0
        BY <1>y, <2>1 DEF SegTypes, OpenOnly
      <3>2. QED
        BY <1>t, <3>1
    <2>3. SameSizes
      <3>1. ~(p \in Writer /\ (CreateSegment(p) \/ ConstructSegment(p)))
        BY <2>1 DEF CreateSegment, ConstructSegment
      <3>2. QED
        BY <3>1, SizesKept
    <2>4. /\ state_'[p] = key
          /\ conf_'[p] = shm[key].ceiling_msg_size
      <3>1. shm[key] \in SegRec
        BY <1>y, <2>2 DEF SegTypes
      <3>2. shm[key].ceiling_msg_size \in {1, 2}
        BY <2>1, <3>1, BlockFacts DEF SegRec
      <3>3. CeilingMessageSize(shm[key].ceiling_msg_size) = shm[key].ceiling_msg_size
        BY <3>2 DEF CeilingMessageSize, Small, Large
      <3>4. QED
        BY <1>y, <2>1, <3>3 DEF OpenOnly
    <2>5. pc'[p] # "construct"
      <3>1. pc'[p] \in {then[p], "mark", "next"}
        BY <1>gt, <1>5 DEF OpenSegment, Sized
      <3>2. p \in Writer \/ p \in Reader
        BY Kinds
      <3>3. then[p] # "construct"
        BY <1>y, <2>1, <3>2 DEF Placed
      <3>4. QED
        BY <3>1, <3>3
    <2>6. ASSUME NEW q \in Proc, init_'[q]
          PROVE  conf_'[q] = shm'[state_'[q]].ceiling_msg_size
      <3>1. CASE q = p
        BY <2>2, <2>3, <2>4, <3>1 DEF SameSizes
      <3>2. CASE q # p
        <4>1. init_'[q] = init_[q] /\ conf_'[q] = conf_[q] /\ state_'[q] = state_[q]
          BY <3>2 DEF SegOthers
        <4>2. state_[q] \in 1 .. Len(shm) /\ conf_[q] = shm[state_[q]].ceiling_msg_size
          BY <1>t, <1>2, <2>6, <4>1 DEF Known
        <4>3. QED
          BY <2>3, <4>1, <4>2 DEF SameSizes
      <3>3. QED
        BY <3>1, <3>2
    <2>7. ASSUME NEW w \in Writer, pc'[w] = "construct"
          PROVE  /\ shm'[state_'[w]].ceiling_msg_size = 0
                 /\ \A q \in Proc : state_'[q] = state_'[w] => q = w
      <3>1. w # p /\ w \in Proc
        BY <1>t, <2>5, <2>7
      <3>2. pc[w] = "construct" /\ state_'[w] = state_[w]
        BY <2>7, <3>1 DEF LocalOthers, SegOthers
      <3>3. /\ shm[state_[w]].ceiling_msg_size = 0 /\ state_[w] \in 1 .. Len(shm)
            /\ \A q \in Proc : state_[q] = state_[w] => q = w
        BY <1>t, <1>2, <3>1, <3>2 DEF Alone
      <3>4. state_[w] # key
        BY <2>1, <3>3
      <3>5. \A q \in Proc : state_'[q] = state_[w] => q = w
        BY <2>4, <3>3, <3>4 DEF SegOthers
      <3>6. QED
        BY <2>3, <3>2, <3>3, <3>5 DEF SameSizes
    <2>8. QED
      BY <2>6, <2>7 DEF Known, Alone
  <1>6. CASE ~OpenSegment(p) /\ ~(p \in Writer /\ (CreateSegment(p) \/ ConstructSegment(p)))
    <2>1. /\ pc'[p] # "construct"
          /\ \/ UNCHANGED <<init_, conf_, state_>>
             \/ init_'[p] = FALSE /\ state_'[p] \in {0, state_[p]}
      BY <1>6, Detaches
    <2>2. SameSizes
      BY <1>6, SizesKept
    <2>3. QED
      BY <1>2, <2>1, <2>2, BuiltAside
  <1>7. QED
    BY <1>3, <1>4, <1>5, <1>6

\* A writer goes on to a block only after it has compared the sizes, or with
\* a segment that it has created for its message.
LEMMA FitStep ==
    ASSUME BaseInv, FitInv, NEW p \in Proc, Step(p), BaseInv', SegOthers(p),
           LocalOthers(p)
    PROVE  FitInv'
  <1>1. SUFFICES ASSUME mishap' \cap {"unready", "small"} = {}, NEW w \in Writer
                 PROVE  Roomy(w)'
    BY DEF FitInv
  <1>2. mishap \cap {"unready", "small"} = {}
    BY <1>1, MishapGrows
  <1>3. Roomy(w)
    BY <1>2 DEF FitInv
  <1>t. /\ pc \in [Proc -> Label] /\ then \in [Proc -> Label]
        /\ conf_ \in [Proc -> Size] /\ size \in [Writer -> MsgSize] /\ Placed(p)
        /\ Size = {1, 2} /\ MsgSize = {1, 2, 3} /\ Writer \subseteq Proc
    BY Kinds, BlockFacts DEF BaseInv, LocalTypes, SegTypes
  <1>4. CASE w # p
    <2>1. /\ pc'[w] = pc[w] /\ then'[w] = then[w] /\ size'[w] = size[w]
          /\ conf_'[w] = conf_[w] /\ mishap \subseteq mishap'
      BY <1>t, <1>4, MishapGrows DEF LocalOthers, SegOthers
    <2>2. QED
      BY <1>3, <2>1 DEF Roomy
  <1>5. CASE w = p
    <2>0. SUFFICES Roomy(p)'
      BY <1>5
    <2>go. \A l : Go(p, l) => pc'[p] = l
      BY <1>t DEF Go
    <2>gt. \A l, m : GoOpen(p, l, m) => pc'[p] = l /\ then'[p] = m
      BY <1>t DEF Go, GoOpen
    <2>v. GiveUp(p) => pc'[p] \in {"idle", "listen"}
      BY <2>gt DEF GiveUp, Rest
    <2>i. ASSUME pc'[p] \notin {"next", "lock", "write", "finish", "create", "construct"}
          PROVE  Roomy(p)'
      BY <2>i DEF Roomy
    <2>s. size[p] \in {1, 2, 3} /\ conf_[p] \in {1, 2}
      BY <1>t, <1>5
    <2>c. /\ CeilingMessageSize(size[p]) \in {1, 2}
          /\ CeilingMessageSize(size[p]) <= size[p]
      BY <2>s DEF CeilingMessageSize, Small, Large
    <2>r. /\ pc[p] \in {"next", "lock", "write"} =>
               CeilingMessageSize(size[p]) <= conf_[p]
          /\ pc[p] \in {"create", "construct"} /\ then[p] = "next" =>
               CeilingMessageSize(size[p]) = conf_[p]
      BY <1>3, <1>5 DEF Roomy
    <2>1. CASE Transmit(p)
      BY <2>go, <2>gt, <2>1 DEF Transmit, Roomy
    <2>2. CASE CreateSegment(p)
      <3>1. /\ pc[p] = "create" /\ pc'[p] \in {"construct", "open"}
            /\ UNCHANGED <<size, then, conf_>>
        BY <2>go, <2>2 DEF CreateSegment, Create, segmentVars
      <3>2. QED
        BY <2>r, <3>1 DEF Roomy
    <2>3. CASE ConstructSegment(p)
      <3>1. /\ pc[p] = "construct" /\ pc'[p] = then[p] /\ UNCHANGED <<size, conf_>>
        BY <2>gt, <2>3 DEF ConstructSegment, Construct
      <3>2. then[p] \in {"remap", "next"}
        BY <1>t, <3>1 DEF Placed
      <3>3. QED
        BY <2>r, <2>c, <3>1, <3>2 DEF Roomy
    <2>4. CASE OpenSegment(p)
      <3>1. /\ pc[p] = "open" /\ UNCHANGED size
            /\ pc'[p] = IF then[p] = "size" THEN Sized(size[p], conf_'[p]) ELSE then[p]
            /\ ~(then[p] = "next" /\ CeilingMessageSize(size[p]) > conf_'[p])
        BY <1>1, <2>gt, <2>4 DEF OpenSegment
      <3>2. then[p] \in {"remap", "next", "size"}
        BY <1>t, <1>5, <3>1 DEF Placed
      <3>3. conf_'[p] \in {1, 2}
        BY <1>t DEF BaseInv, SegTypes
      <3>4. \/ pc'[p] \in {"mark", "remap"}
            \/ pc'[p] = "next" /\ CeilingMessageSize(size[p]) <= conf_'[p]
        BY <2>s, <2>c, <3>1, <3>2, <3>3 DEF Sized
      <3>5. QED
        BY <3>1, <3>4 DEF Roomy
    <2>5. CASE CheckRemap(p)
      <3>1. pc'[p] = "open" \/ (pc'[p] = Sized(size[p], conf_[p]) /\ conf_' = conf_)
        BY <2>go, <2>gt, <2>5 DEF CheckRemap, segmentVars
      <3>2. UNCHANGED size
        BY <2>5 DEF CheckRemap
      <3>3. QED
        BY <2>s, <2>c, <3>1, <3>2 DEF Sized, Roomy
    <2>6. CASE RemoveSegment(p)
      <3>1. /\ pc'[p] = "create" /\ UNCHANGED size
            /\ conf_' = [conf_ EXCEPT ![p] = CeilingMessageSize(size[p])]
        BY <2>gt, <2>6 DEF RemoveSegment, RecreateRemove
      <3>2. QED
        BY <1>t, <3>1 DEF Roomy
    <2>7. CASE NextBlock(p) \/ LockBlock(p) \/ WriteBlock(p)
      <3>1. /\ pc[p] \in {"next", "lock", "write"}
            /\ \/ pc'[p] \in {"lock", "write", "next"}
               \/ pc'[p] = "finish" /\ (size[p] > Large => "oversize" \in mishap')
            /\ UNCHANGED <<size, conf_>>
        BY <2>go, <2>7 DEF NextBlock, LockBlock, WriteBlock, FetchAddSeq,
                           TryLockForWrite, SetBlock, segmentVars
      <3>2. size[p] <= Large \/ size[p] > Large
        BY <2>s DEF Large
      <3>3. QED
        BY <2>r, <3>1, <3>2 DEF Roomy
    <2>8. CASE MarkSegment(p) \/ FinishBlock(p) \/ Reserve(p) \/ StoreInfo(p)
      BY <2>go, <2>i, <2>8 DEF MarkSegment, FinishBlock, Reserve, StoreInfo
    <2>9. CASE SerializeFails(p) \/ StoreSeq(p)
      BY <2>v, <2>i, <2>9 DEF SerializeFails, StoreSeq
    <2>10. CASE OpenFails(p)
      BY <2>go, <2>v, <2>i, <2>10 DEF OpenFails
    <2>11. CASE Disable(p) \/ DestroyTest(p) \/ Unlink(p) \/ Crash(p)
      BY <2>go, <2>gt, <2>i, <2>11 DEF Disable, DestroyTest, Unlink, Crash, Off
    <2>12. p \notin Reader
      BY <1>5, Kinds
    <2>13. QED
      BY <1>5, <2>1, <2>2, <2>3, <2>4, <2>5, <2>6, <2>7, <2>8, <2>9, <2>10, <2>11, <2>12
      DEF Step, WriterStep, AnyStep
  <1>6. QED
    BY <1>4, <1>5

\* Segments are complete and large enough at all times.
LEMMA BuiltAlways == Spec => [](BuiltInv /\ FitInv)
  <1>1. Init => BuiltInv /\ FitInv
    <2>1. SUFFICES ASSUME Init PROVE BuiltInv /\ FitInv
      OBVIOUS
    <2>2. \A q \in Proc : init_[q] = FALSE /\ pc[q] \in {"idle", "off"}
      <3>1. /\ init_ = [q \in Proc |-> FALSE]
            /\ pc = [q \in Proc |-> IF q \in Writer THEN "idle" ELSE "off"]
        BY <2>1 DEF Init, SegmentInit
      <3>2. QED
        BY <3>1
    <2>3. QED
      BY <2>2, Kinds DEF BuiltInv, FitInv, Alone, Known, Roomy
  <1>2. ASSUME BaseInv, BuiltInv, FitInv, [Next]_vars
        PROVE  (BuiltInv /\ FitInv)'
    <2>1. ASSUME NEW p \in Proc, Step(p)
          PROVE  (BuiltInv /\ FitInv)'
      <3>1. BaseInv' /\ SegOthers(p) /\ LocalOthers(p)
        BY <1>2, <2>1, BaseStep
      <3>2. QED
        BY <1>2, <2>1, <3>1, BuiltStep, FitStep
    <2>2. CASE UNCHANGED vars
      <3>1. UNCHANGED <<shm, init_, conf_, state_, mishap, pc, then, size>>
        BY <2>2 DEF vars, segmentVars, transportVars
      <3>2. QED
        BY <1>2, <3>1 DEF BuiltInv, FitInv, Alone, Known, Roomy
    <2>3. QED
      BY <1>2, <2>1, <2>2, Actors
  <1>3. QED
    BY <1>1, <1>2, BaseAlways, PTL DEF Spec

\* A block that AcquireBlockToWrite() hands out is large enough for every
\* message up to the largest ceiling, is of the largest kind for a message
\* above it, and lies where the writer thinks it does.
THEOREM BlocksLargeEnough == Spec => []MessageFits
  <1>1. ASSUME BaseInv, BuiltInv, FitInv
        PROVE  MessageFits
    <2>1. SUFFICES ASSUME mishap \cap {"unready", "small"} = {}, NEW w \in Writer,
                          pc[w] \in {"lock", "write", "finish"}
                   PROVE  /\ conf_[w] = Seg(w).ceiling_msg_size
                          /\ IF size[w] <= Large THEN Fits(w) ELSE conf_[w] = Large
      BY DEF MessageFits
    <2>2. /\ size[w] <= Large => size[w] <= conf_[w]
          /\ ~(size[w] <= Large) => conf_[w] = Large
      <3>1. CeilingMessageSize(size[w]) <= conf_[w]
        BY <1>1, <2>1 DEF FitInv, Roomy
      <3>2. size[w] \in {1, 2, 3} /\ conf_[w] \in {1, 2}
        BY <1>1, Kinds, BlockFacts DEF BaseInv, LocalTypes, SegTypes
      <3>3. QED
        BY <3>1, <3>2 DEF CeilingMessageSize, Small, Large
    <2>3. w \in Proc /\ init_[w]
      BY <1>1, <2>1, Kinds DEF BaseInv, Placed, Attached
    <2>4. conf_[w] = Seg(w).ceiling_msg_size
      BY <1>1, <2>1, <2>3 DEF BuiltInv, Known, Seg
    <2>5. QED
      BY <2>2, <2>4 DEF Fits
  <1>2. QED
    BY <1>1, BaseAlways, BuiltAlways, PTL

\* As long as nothing goes wrong a message is written into a block it fits.
LEMMA WrittenFits ==
    ASSUME BaseInv, BuiltInv, FitInv, NEW w \in Writer, mishap = {},
           \/ pc[w] = "write" /\ size[w] <= Large
           \/ pc[w] = "finish"
    PROVE  Fits(w)
  <1>1. size[w] <= Large /\ CeilingMessageSize(size[w]) <= conf_[w]
    BY DEF FitInv, Roomy
  <1>2. size[w] \in {1, 2, 3} /\ conf_[w] \in {1, 2}
    BY Kinds, BlockFacts DEF BaseInv, LocalTypes, SegTypes
  <1>3. size[w] <= conf_[w]
    BY <1>1, <1>2 DEF CeilingMessageSize, Small, Large
  <1>4. w \in Proc /\ init_[w]
    BY Kinds DEF BaseInv, Placed, Attached
  <1>5. conf_[w] = Seg(w).ceiling_msg_size
    BY <1>4 DEF BuiltInv, Known, Seg
  <1>6. QED
    BY <1>3, <1>5 DEF Fits

-----------------------------------------------------------------------------
(* The locks of blocks.                                                    *)

\* The process has locked the block it works on, or died with it.
Busy(p) ==
    \/ p \in Writer /\ Where(p) \in {"write", "finish"}
    \/ p \in Reader /\ Where(p) \in {"read", "release"}

At(p, g, b) == Busy(p) /\ state_[p] = g /\ index[p] = b

\* A block is locked by one writer, or by as many readers as its lock counts.
Exact(g, b) ==
    \/ /\ shm[g].lock_num[b] = -1
       /\ \E w \in Writer : WriteHolders(g, b) = {w}
       /\ ReadHolders(g, b) = {}
    \/ /\ WriteHolders(g, b) = {}
       /\ shm[g].lock_num[b] = Cardinality(ReadHolders(g, b))

LockInv ==
    "unready" \notin mishap =>
      \A g \in 1 .. Len(shm) : \A b \in Blocks : Exact(g, b)

\* Holders are the processes that are busy with the block.
LEMMA HolderSets ==
    ASSUME NEW g, NEW b
    PROVE  /\ WriteHolders(g, b) = {w \in Writer : At(w, g, b)}
           /\ ReadHolders(g, b) = {r \in Reader : At(r, g, b)}
           /\ WriteHolders(g, b)' = {w \in Writer : At(w, g, b)'}
           /\ ReadHolders(g, b)' = {r \in Reader : At(r, g, b)'}
  <1>1. \A p : /\ p \in Writer => (Busy(p) <=> Where(p) \in {"write", "finish"})
               /\ p \in Reader => (Busy(p) <=> Where(p) \in {"read", "release"})
    BY Kinds DEF Busy
  <1>2. \A p : /\ p \in Writer => (Busy(p)' <=> Where(p)' \in {"write", "finish"})
               /\ p \in Reader => (Busy(p)' <=> Where(p)' \in {"read", "release"})
    BY Kinds DEF Busy
  <1>3. /\ WriteHolders(g, b) = {w \in Writer : At(w, g, b)}
        /\ ReadHolders(g, b) = {r \in Reader : At(r, g, b)}
    BY <1>1 DEF WriteHolders, ReadHolders, Holds, At, Where
  <1>4. /\ WriteHolders(g, b)' = {w \in Writer : At(w, g, b)'}
        /\ ReadHolders(g, b)' = {r \in Reader : At(r, g, b)'}
    BY <1>2 DEF WriteHolders, ReadHolders, Holds, At, Where
  <1>5. QED
    BY <1>3, <1>4

\* What the others hold does not change.
LEMMA AtOthers ==
    ASSUME NEW p \in Proc, SegOthers(p), LocalOthers(p), NEW g, NEW b,
           NEW q \in Proc, q # p
    PROVE  At(q, g, b)' <=> At(q, g, b)
  <1>1. /\ pc'[q] = pc[q] /\ then'[q] = then[q] /\ index'[q] = index[q]
        /\ state_'[q] = state_[q]
    BY DEF SegOthers, LocalOthers
  <1>2. QED
    BY <1>1 DEF At, Busy, Where

\* The holders of a block that p keeps, or does not have.
LEMMA HoldersKept ==
    ASSUME NEW p \in Proc, SegOthers(p), LocalOthers(p), NEW g, NEW b,
           At(p, g, b)' <=> At(p, g, b)
    PROVE  /\ WriteHolders(g, b)' = WriteHolders(g, b)
           /\ ReadHolders(g, b)' = ReadHolders(g, b)
  <1>1. \A q \in Proc : At(q, g, b)' <=> At(q, g, b)
    BY AtOthers
  <1>2. Writer \subseteq Proc /\ Reader \subseteq Proc
    BY Kinds
  <1>3. QED
    BY <1>1, <1>2, HolderSets

\* The holders of a block that p locks.
LEMMA HoldersGain ==
    ASSUME NEW p \in Proc, SegOthers(p), LocalOthers(p), NEW g, NEW b,
           ~At(p, g, b), At(p, g, b)'
    PROVE  /\ p \in Writer => /\ WriteHolders(g, b)' = WriteHolders(g, b) \cup {p}
                              /\ ReadHolders(g, b)' = ReadHolders(g, b)
           /\ p \in Reader => /\ ReadHolders(g, b)' = ReadHolders(g, b) \cup {p}
                              /\ WriteHolders(g, b)' = WriteHolders(g, b)
           /\ p \notin WriteHolders(g, b) /\ p \notin ReadHolders(g, b)
  <1>1. \A q \in Proc : At(q, g, b)' <=> At(q, g, b) \/ q = p
    BY AtOthers
  <1>2. /\ Writer \subseteq Proc /\ Reader \subseteq Proc
        /\ ~(p \in Writer /\ p \in Reader)
    BY Kinds
  <1>3. QED
    BY <1>1, <1>2, HolderSets

\* The holders of a block that p unlocks.
LEMMA HoldersLoss ==
    ASSUME NEW p \in Proc, SegOthers(p), LocalOthers(p), NEW g, NEW b,
           At(p, g, b), ~At(p, g, b)'
    PROVE  /\ p \in Writer => /\ WriteHolders(g, b)' = WriteHolders(g, b) \ {p}
                              /\ ReadHolders(g, b)' = ReadHolders(g, b)
                              /\ p \in WriteHolders(g, b)
           /\ p \in Reader => /\ ReadHolders(g, b)' = ReadHolders(g, b) \ {p}
                              /\ WriteHolders(g, b)' = WriteHolders(g, b)
                              /\ p \in ReadHolders(g, b)
  <1>1. \A q \in Proc : At(q, g, b)' <=> At(q, g, b) /\ q # p
    BY AtOthers
  <1>2. /\ Writer \subseteq Proc /\ Reader \subseteq Proc
        /\ ~(p \in Writer /\ p \in Reader)
    BY Kinds
  <1>3. QED
    BY <1>1, <1>2, HolderSets

\* There are finitely many readers.
LEMMA FiniteHolders ==
    ASSUME NEW g, NEW b
    PROVE  /\ IsFiniteSet(ReadHolders(g, b))
           /\ Cardinality(ReadHolders(g, b)) \in Nat
           /\ Cardinality(ReadHolders(g, b)) = 0 => ReadHolders(g, b) = {}
  <1>1. ReadHolders(g, b) \subseteq Proc
    BY Kinds DEF ReadHolders
  <1>2. IsFiniteSet(ReadHolders(g, b))
    BY <1>1, TransportAssumption, FS_Subset
  <1>3. QED
    BY <1>2, FS_CardinalityType, FS_EmptySet

\* Steps that take and release the lock of a block.
LocksToWrite(p) ==
    p \in Writer /\ LockBlock(p) /\ TryLockForWrite(p, index[p]) /\ Go(p, "write")
LocksToRead(p) ==
    p \in Reader /\ LockToRead(p) /\ TryLockForRead(p, index[p]) /\ Go(p, "read")
UnlocksWritten(p) == p \in Writer /\ (SerializeFails(p) \/ FinishBlock(p))
UnlocksRead(p) == p \in Reader /\ ReleaseBlock(p)

Locking(p) == \/ LocksToWrite(p) \/ LocksToRead(p) \/ UnlocksWritten(p)
              \/ UnlocksRead(p)

Keeps(p) ==
    \/ Busy(p) /\ Busy(p)' /\ state_'[p] = state_[p] /\ index'[p] = index[p]
    \/ ~Busy(p) /\ ~Busy(p)'

\* The lock and the contents of a block are integers.
LEMMA BlockTypes ==
    ASSUME BaseInv, NEW p \in Proc, state_[p] # 0
    PROVE  /\ SegTypes /\ index[p] \in Blocks /\ stamp[p] \in Nat
           /\ state_[p] \in 1 .. Len(shm)
           /\ Seg(p).lock_num[index[p]] \in Int
           /\ Seg(p).data[index[p]] \in Int
  <1>1. SegTypes /\ index[p] \in Blocks /\ stamp[p] \in Nat
    BY DEF BaseInv, LocalTypes
  <1>2. Seg(p) \in SegRec /\ state_[p] \in 1 .. Len(shm)
    BY <1>1, SegOf
  <1>3. /\ Seg(p).lock_num \in [Blocks -> Int]
        /\ Seg(p).data \in [Blocks -> Int]
    BY <1>2 DEF SegRec
  <1>4. QED
    BY <1>1, <1>2, <1>3

\* Every other step keeps what the process has locked.
LEMMA LocksAside ==
    ASSUME BaseInv, NEW p \in Proc, Step(p), ~Locking(p)
    PROVE  Keeps(p)
  <1>t. pc \in [Proc -> Label] /\ then \in [Proc -> Label] /\ Placed(p)
    BY DEF BaseInv, LocalTypes
  <1>k. ~(p \in Writer /\ p \in Reader)
    BY Kinds
  <1>go. \A l : Go(p, l) => pc'[p] = l
    BY <1>t DEF Go
  <1>gt. \A l, m : GoOpen(p, l, m) => pc'[p] = l /\ then'[p] = m
    BY <1>t DEF Go, GoOpen
  <1>v. GiveUp(p) => pc'[p] \in {"idle", "listen"}
    BY <1>gt DEF GiveUp, Rest
  <1>i. ASSUME pc[p] # "dead", pc'[p] # "dead",
               p \in Writer => pc[p] \notin {"write", "finish"},
               p \in Reader => pc[p] \notin {"read", "release"},
               p \in Writer => pc'[p] \notin {"write", "finish"},
               p \in Reader => pc'[p] \notin {"read", "release"}
        PROVE  Keeps(p)
    BY <1>i DEF Keeps, Busy, Where
  <1>1. CASE p \in Writer /\ WriterStep(p)
    <2>w. /\ p \in Writer /\ p \notin Reader
          /\ pc[p] # "dead" /\ pc'[p] # "dead"
          /\ pc[p] \notin {"write", "finish"} /\ pc'[p] \notin {"write", "finish"}
          => Keeps(p)
      BY <1>i
    <2>1. CASE Transmit(p)
      BY <1>1, <1>k, <1>go, <1>gt, <2>1, <2>w DEF Transmit
    <2>2. CASE CreateSegment(p)
      BY <1>1, <1>k, <1>go, <2>2, <2>w DEF CreateSegment
    <2>3. CASE ConstructSegment(p)
      <3>1. pc[p] = "construct" /\ pc'[p] = then[p] /\ then[p] \in {"remap", "next"}
        BY <1>t, <1>gt, <2>3 DEF ConstructSegment, Placed
      <3>2. QED
        BY <1>1, <1>k, <2>w, <3>1
    <2>4. CASE CheckRemap(p)
      <3>1. pc[p] = "remap" /\ pc'[p] \in {"open", "mark", "next"}
        BY <1>go, <1>gt, <2>4 DEF CheckRemap, Sized
      <3>2. QED
        BY <1>1, <1>k, <2>w, <3>1
    <2>5. CASE MarkSegment(p) \/ RemoveSegment(p) \/ NextBlock(p)
      <3>1. pc[p] \in {"mark", "remove", "next"} /\ pc'[p] \in {"remove", "create", "lock"}
        BY <1>go, <1>gt, <2>5 DEF MarkSegment, RemoveSegment, NextBlock
      <3>2. QED
        BY <1>1, <1>k, <2>w, <3>1
    <2>6. CASE LockBlock(p)
      <3>1. pc[p] = "lock" /\ pc'[p] = "next"
        BY <1>1, <1>go, <2>6 DEF LockBlock, Locking, LocksToWrite
      <3>2. QED
        BY <1>1, <1>k, <2>w, <3>1
    <2>7. CASE WriteBlock(p)
      <3>1. pc[p] = "write" /\ pc'[p] = "finish" /\ UNCHANGED <<state_, index>>
        BY <1>go, <2>7 DEF WriteBlock
      <3>2. QED
        BY <1>1, <3>1 DEF Keeps, Busy, Where
    <2>8. CASE SerializeFails(p) \/ FinishBlock(p)
      BY <1>1, <2>8 DEF Locking, UnlocksWritten
    <2>9. CASE Reserve(p) \/ StoreInfo(p) \/ StoreSeq(p)
      <3>1. pc[p] \in {"reserve", "info", "seq"}
            /\ pc'[p] \in {"info", "seq", "idle", "listen"}
        BY <1>go, <1>v, <2>9 DEF Reserve, StoreInfo, StoreSeq
      <3>2. QED
        BY <1>1, <1>k, <2>w, <3>1
    <2>10. QED
      BY <1>1, <2>1, <2>2, <2>3, <2>4, <2>5, <2>6, <2>7, <2>8, <2>9 DEF WriterStep
  <1>2. CASE p \in Reader /\ ReaderStep(p)
    <2>r. /\ p \in Reader /\ p \notin Writer
          /\ pc[p] # "dead" /\ pc'[p] # "dead"
          /\ pc[p] \notin {"read", "release"} /\ pc'[p] \notin {"read", "release"}
          => Keeps(p)
      BY <1>i
    <2>1. CASE Start(p) \/ Listen(p)
      BY <1>2, <1>k, <1>go, <2>1, <2>r DEF Start, Listen
    <2>2. CASE Take(p)
      <3>1. pc[p] = "take" /\ pc'[p] \in {"check", "open", "idle", "listen"}
        BY <1>go, <1>gt, <1>v, <2>2 DEF Take
      <3>2. QED
        BY <1>2, <1>k, <2>r, <3>1
    <2>3. CASE CheckIndex(p)
      <3>1. pc[p] = "check" /\ pc'[p] \in {"lock", "open", "idle", "listen"}
        BY <1>go, <1>gt, <1>v, <2>3 DEF CheckIndex
      <3>2. QED
        BY <1>2, <1>k, <2>r, <3>1
    <2>4. CASE LockToRead(p)
      <3>1. pc[p] = "lock" /\ pc'[p] \in {"idle", "listen"}
        BY <1>2, <1>v, <2>4 DEF LockToRead, Locking, LocksToRead
      <3>2. QED
        BY <1>2, <1>k, <2>r, <3>1
    <2>5. CASE LockBeyond(p)
      <3>1. pc[p] = "lock" /\ pc'[p] \in {"idle", "listen"}
        BY <1>v, <2>5 DEF LockBeyond
      <3>2. QED
        BY <1>2, <1>k, <2>r, <3>1
    <2>6. CASE ReadBlock(p)
      <3>1. pc[p] = "read" /\ pc'[p] = "release" /\ UNCHANGED <<state_, index>>
        BY <1>go, <2>6 DEF ReadBlock, segmentVars
      <3>2. QED
        BY <1>2, <3>1 DEF Keeps, Busy, Where
    <2>7. CASE ReleaseBlock(p)
      BY <1>2, <2>7 DEF Locking, UnlocksRead
    <2>8. QED
      BY <1>2, <2>1, <2>2, <2>3, <2>4, <2>5, <2>6, <2>7 DEF ReaderStep
  <1>3. CASE AnyStep(p)
    <2>1. CASE OpenSegment(p)
      <3>1. pc[p] = "open" /\ pc'[p] \in {then[p], "mark", "next"}
        BY <1>gt, <2>1 DEF OpenSegment, Sized
      <3>2. /\ p \in Writer => then[p] \in {"remap", "next", "size"}
            /\ p \in Reader => then[p] \in {"check", "lock"}
        BY <1>t, <3>1 DEF Placed
      <3>3. p \in Writer \/ p \in Reader
        BY Kinds
      <3>4. QED
        BY <1>i, <3>1, <3>2, <3>3
    <2>2. CASE OpenFails(p)
      <3>1. pc[p] = "open"
            /\ \/ pc'[p] = "dead" /\ then' = then /\ then[p] = "size"
               \/ pc'[p] \in {"idle", "listen"}
        BY <1>go, <1>v, <2>2 DEF OpenFails, locals
      <3>2. ~Busy(p) /\ ~Busy(p)'
        BY <3>1 DEF Busy, Where
      <3>3. QED
        BY <3>2 DEF Keeps
    <2>3. CASE Disable(p) \/ DestroyTest(p) \/ Unlink(p)
      <3>1. /\ pc[p] \in {"idle", "listen", "destroy", "unlink"}
            /\ pc'[p] \in {"destroy", "idle", "off", "unlink"}
        BY <1>go, <2>3 DEF Disable, DestroyTest, Unlink, Off, Rest
      <3>2. QED
        BY <1>i, <3>1
    <2>4. CASE Crash(p)
      <3>1. /\ pc[p] # "dead" /\ pc'[p] = "dead" /\ then'[p] = pc[p]
            /\ UNCHANGED <<state_, index>>
        BY <1>gt, <2>4 DEF Crash, segmentVars
      <3>2. Busy(p)' <=> Busy(p)
        BY <3>1 DEF Busy, Where
      <3>3. QED
        BY <3>1, <3>2 DEF Keeps
    <2>5. QED
      BY <1>3, <2>1, <2>2, <2>3, <2>4 DEF AnyStep
  <1>4. QED
    BY <1>1, <1>2, <1>3 DEF Step

\* What taking and releasing a lock does to the block.
LEMMA LockingFacts ==
    ASSUME BaseInv, NEW p \in Proc, Locking(p)
    PROVE  /\ state_[p] # 0
           /\ LocksToWrite(p) =>
                /\ ~Busy(p) /\ Busy(p)' /\ index' = index
                /\ Seg(p).lock_num[index[p]] = 0
                /\ BlockIs(p, index[p], -1, Seg(p).data[index[p]])
           /\ LocksToRead(p) =>
                /\ ~Busy(p) /\ Busy(p)' /\ index' = index
                /\ Seg(p).lock_num[index[p]] >= 0
                /\ BlockIs(p, index[p], Seg(p).lock_num[index[p]] + 1,
                           Seg(p).data[index[p]])
           /\ UnlocksWritten(p) =>
                /\ Busy(p) /\ ~Busy(p)'
                /\ \E d \in Int :
                     BlockIs(p, index[p], Seg(p).lock_num[index[p]] + 1, d)
           /\ UnlocksRead(p) =>
                /\ Busy(p) /\ ~Busy(p)'
                /\ BlockIs(p, index[p], Seg(p).lock_num[index[p]] - 1,
                           Seg(p).data[index[p]])
  <1>t. pc \in [Proc -> Label] /\ then \in [Proc -> Label] /\ Placed(p)
    BY DEF BaseInv, LocalTypes
  <1>k. ~(p \in Writer /\ p \in Reader)
    BY Kinds
  <1>go. \A l : Go(p, l) => pc'[p] = l
    BY <1>t DEF Go
  <1>v. GiveUp(p) => pc'[p] \in {"idle", "listen"}
    BY <1>t DEF GiveUp, Rest, GoOpen, Go
  <1>0. pc[p] \in {"lock", "write", "finish", "release"}
    BY DEF Locking, LocksToWrite, LocksToRead, UnlocksWritten, UnlocksRead,
           LockBlock, LockToRead, SerializeFails, FinishBlock, ReleaseBlock
  <1>1. state_[p] # 0
    BY <1>t, <1>0 DEF Placed, Attached
  <1>2. /\ SegTypes /\ index[p] \in Blocks /\ stamp[p] \in Int
        /\ Seg(p).lock_num[index[p]] \in Int
        /\ Seg(p).data[index[p]] \in Int
    BY <1>1, BlockTypes
  <1>3. \A l, d \in Int : SetBlock(p, index[p], l, d) => BlockIs(p, index[p], l, d)
    BY <1>1, <1>2, BlockSet
  <1>4. ASSUME LocksToWrite(p)
        PROVE  /\ ~Busy(p) /\ Busy(p)' /\ index' = index
               /\ Seg(p).lock_num[index[p]] = 0
               /\ BlockIs(p, index[p], -1, Seg(p).data[index[p]])
    <2>1. /\ p \in Writer /\ pc[p] = "lock" /\ pc'[p] = "write" /\ index' = index
          /\ Seg(p).lock_num[index[p]] = 0
          /\ SetBlock(p, index[p], -1, Seg(p).data[index[p]])
      BY <1>4, <1>go DEF LocksToWrite, LockBlock, TryLockForWrite, kRWLockFree,
                         kWriteExclusive
    <2>2. ~Busy(p) /\ Busy(p)'
      BY <1>k, <2>1 DEF Busy, Where
    <2>3. QED
      BY <1>2, <1>3, <2>1, <2>2
  <1>5. ASSUME LocksToRead(p)
        PROVE  /\ ~Busy(p) /\ Busy(p)' /\ index' = index
               /\ Seg(p).lock_num[index[p]] >= 0
               /\ BlockIs(p, index[p], Seg(p).lock_num[index[p]] + 1,
                          Seg(p).data[index[p]])
    <2>1. /\ p \in Reader /\ pc[p] = "lock" /\ pc'[p] = "read"
          /\ Seg(p).lock_num[index[p]] >= 0
          /\ SetBlock(p, index[p], Seg(p).lock_num[index[p]] + 1, Seg(p).data[index[p]])
      BY <1>5, <1>go DEF LocksToRead, LockToRead, TryLockForRead, kRWLockFree
    <2>2. index' = index
      <3>1. ~GiveUp(p)
        BY <1>v, <2>1
      <3>2. QED
        BY <1>5, <3>1 DEF LocksToRead, LockToRead, locals
    <2>3. ~Busy(p) /\ Busy(p)'
      BY <1>k, <2>1 DEF Busy, Where
    <2>4. QED
      BY <1>2, <1>3, <2>1, <2>2, <2>3
  <1>6. ASSUME UnlocksWritten(p)
        PROVE  /\ Busy(p) /\ ~Busy(p)'
               /\ \E d \in Int :
                    BlockIs(p, index[p], Seg(p).lock_num[index[p]] + 1, d)
    <2>1. /\ p \in Writer /\ pc[p] \in {"write", "finish"}
          /\ pc'[p] \in {"idle", "listen", "reserve"}
          /\ \E d \in {Seg(p).data[index[p]], stamp[p], Partial} :
               SetBlock(p, index[p], Seg(p).lock_num[index[p]] + 1, d)
      BY <1>6, <1>go, <1>v DEF UnlocksWritten, SerializeFails, FinishBlock,
                               ReleaseWriteLock
    <2>p. Partial \in Int
      BY DEF Partial
    <2>2. Busy(p) /\ ~Busy(p)'
      BY <1>k, <2>1 DEF Busy, Where
    <2>3. QED
      BY <1>2, <1>3, <2>1, <2>2, <2>p
  <1>7. ASSUME UnlocksRead(p)
        PROVE  /\ Busy(p) /\ ~Busy(p)'
               /\ BlockIs(p, index[p], Seg(p).lock_num[index[p]] - 1,
                          Seg(p).data[index[p]])
    <2>1. /\ p \in Reader /\ pc[p] = "release" /\ pc'[p] \in {"idle", "listen"}
          /\ SetBlock(p, index[p], Seg(p).lock_num[index[p]] - 1,
                      Seg(p).data[index[p]])
      BY <1>7, <1>v DEF UnlocksRead, ReleaseBlock, ReleaseReadLock
    <2>2. Busy(p) /\ ~Busy(p)'
      BY <1>k, <2>1 DEF Busy, Where
    <2>3. QED
      BY <1>2, <1>3, <2>1, <2>2
  <1>8. QED
    BY <1>1, <1>4, <1>5, <1>6, <1>7

\* Every other step leaves the locks alone, unless it sets up a segment.
LEMMA LocksSame ==
    ASSUME BaseInv, NEW p \in Proc, Step(p), ~Locking(p)
    PROVE  \/ SameLocks
           \/ p \in Writer /\ CreateSegment(p) /\ Create(p)
           \/ p \in Writer /\ ConstructSegment(p)
  <1>t. SegTypes /\ LocalTypes /\ Placed(p)
    BY DEF BaseInv
  <1>a. pc[p] \in Attached => state_[p] # 0
    BY <1>t DEF Placed
  <1>1. SameBlocks \/ UNCHANGED shm => SameLocks
    BY DEF SameBlocks, SameLocks
  <1>2. CASE p \in Writer /\ CreateSegment(p)
    BY <1>1, <1>2 DEF CreateSegment, segmentVars
  <1>3. CASE p \in Writer /\ LockBlock(p)
    BY <1>1, <1>3 DEF LockBlock, segmentVars, Locking, LocksToWrite
  <1>4. CASE p \in Writer /\ WriteBlock(p)
    <2>1. state_[p] # 0
      BY <1>a, <1>4 DEF WriteBlock, Attached
    <2>2. QED
      BY <1>t, <1>4, <2>1, WriteFacts
  <1>5. CASE p \in Reader /\ LockToRead(p)
    BY <1>1, <1>5 DEF LockToRead, segmentVars, Locking, LocksToRead
  <1>6. CASE p \in Reader /\ LockBeyond(p)
    <2>1. state_[p] # 0
      BY <1>a, <1>6 DEF LockBeyond, Attached
    <2>2. QED
      BY <1>t, <1>6, <2>1, BeyondFacts
  <1>7. QED
    BY <1>1, <1>2, <1>3, <1>4, <1>5, <1>6, SegStep
    DEF Touches, Locking, UnlocksWritten, UnlocksRead

\* The lock of a block keeps counting its holders.
LEMMA LockStep ==
    ASSUME BaseInv, BuiltInv, LockInv, NEW p \in Proc, Step(p), BaseInv',
           SegOthers(p), LocalOthers(p)
    PROVE  LockInv'
  <1>1. SUFFICES ASSUME "unready" \notin mishap', NEW g \in 1 .. Len(shm'),
                        NEW b \in Blocks
                 PROVE  Exact(g, b)'
    BY DEF LockInv
  <1>2. /\ "unready" \notin mishap
        /\ \A h \in 1 .. Len(shm) : \A c \in Blocks : Exact(h, c)
    BY <1>1, MishapGrows DEF LockInv
  <1>t. /\ SegTypes /\ SegTypes' /\ Len(shm) \in Nat /\ Placed(p)
        /\ pc \in [Proc -> Label]
        /\ \A q \in Proc : state_[q] \in Nat /\ state_[q] <= Len(shm)
    BY DEF BaseInv, SegTypes, LocalTypes
  <1>k. Writer \subseteq Proc /\ Reader \subseteq Proc
        /\ ~(p \in Writer /\ p \in Reader)
    BY Kinds
  <1>3. ASSUME At(p, g, b)' <=> At(p, g, b), g \in 1 .. Len(shm),
               shm'[g].lock_num[b] = shm[g].lock_num[b]
        PROVE  Exact(g, b)'
    <2>1. /\ WriteHolders(g, b)' = WriteHolders(g, b)
          /\ ReadHolders(g, b)' = ReadHolders(g, b)
      BY <1>3, HoldersKept
    <2>2. Exact(g, b)
      BY <1>2, <1>3
    <2>3. QED
      BY <1>3, <2>1, <2>2 DEF Exact
  <1>4. ASSUME \A q \in Proc : ~At(q, g, b)', shm'[g].lock_num[b] = 0
        PROVE  Exact(g, b)'
    <2>1. WriteHolders(g, b)' = {} /\ ReadHolders(g, b)' = {}
      BY <1>k, <1>4, HolderSets
    <2>2. Cardinality({}) = 0
      BY FS_EmptySet
    <2>3. QED
      BY <1>4, <2>1, <2>2 DEF Exact
  <1>5. CASE Locking(p)
    <2>1. state_[p] # 0
      BY <1>5, LockingFacts
    <2>2. PICK h \in 1 .. Len(shm), c \in Blocks : h = state_[p] /\ c = index[p]
      BY <2>1, BlockTypes
    <2>3. Seg(p).lock_num[index[p]] = shm[h].lock_num[c]
      BY <2>2 DEF Seg
    <2>n. shm[h].lock_num[c] \in Int
      BY <2>1, <2>3, BlockTypes
    <2>4. ASSUME NEW l, NEW d, BlockIs(p, index[p], l, d)
          PROVE  /\ state_'[p] = h /\ Len(shm') = Len(shm)
                 /\ shm'[h].lock_num[c] = l
                 /\ (g # h \/ b # c) => shm'[g].lock_num[b] = shm[g].lock_num[b]
      BY <2>2, <2>4 DEF BlockIs
    <2>b. PICK l, d : /\ BlockIs(p, index[p], l, d)
                      /\ LocksToWrite(p) \/ LocksToRead(p) \/ UnlocksWritten(p)
                         \/ UnlocksRead(p)
      BY <1>5, LockingFacts DEF Locking
    <2>l. /\ state_'[p] = h /\ Len(shm') = Len(shm) /\ g \in 1 .. Len(shm)
          /\ (g # h \/ b # c) => shm'[g].lock_num[b] = shm[g].lock_num[b]
      BY <2>b, <2>4
    <2>5. CASE g # h \/ b # c
      <3>1. ~At(p, g, b)
        BY <2>2, <2>5 DEF At
      <3>2. ~At(p, g, b)'
        <4>1. CASE Busy(p)'
          <5>1. index' = index
            BY <1>5, <4>1, LockingFacts DEF Locking
          <5>2. QED
            BY <2>2, <2>5, <2>l, <5>1 DEF At
        <4>2. CASE ~Busy(p)'
          BY <4>2 DEF At
        <4>3. QED
          BY <4>1, <4>2
      <3>3. QED
        BY <1>3, <2>5, <2>l, <3>1, <3>2
    <2>6. CASE g = h /\ b = c
      <3>e. Exact(h, c)
        BY <1>2
      <3>f. /\ Cardinality(ReadHolders(h, c)) \in Nat
            /\ IsFiniteSet(ReadHolders(h, c))
            /\ Cardinality(ReadHolders(h, c)) = 0 => ReadHolders(h, c) = {}
        BY FiniteHolders
      <3>s. SUFFICES Exact(h, c)'
        BY <2>6
      <3>1. CASE LocksToWrite(p)
        <4>1. /\ ~Busy(p) /\ Busy(p)' /\ index' = index
              /\ shm[h].lock_num[c] = 0 /\ shm'[h].lock_num[c] = -1
          BY <1>5, <2>3, <2>4, <3>1, LockingFacts
        <4>2. p \in Writer
          BY <3>1 DEF LocksToWrite
        <4>3. ~At(p, h, c) /\ At(p, h, c)'
          BY <2>2, <2>l, <4>1 DEF At
        <4>4. WriteHolders(h, c)' = WriteHolders(h, c) \cup {p}
              /\ ReadHolders(h, c)' = ReadHolders(h, c)
          BY <4>2, <4>3, HoldersGain
        <4>5. WriteHolders(h, c) = {} /\ ReadHolders(h, c) = {}
          BY <3>e, <3>f, <4>1 DEF Exact
        <4>6. WriteHolders(h, c)' = {p} /\ ReadHolders(h, c)' = {}
          BY <4>4, <4>5
        <4>7. QED
          BY <4>1, <4>2, <4>6 DEF Exact
      <3>2. CASE LocksToRead(p)
        <4>1. /\ ~Busy(p) /\ Busy(p)' /\ index' = index
              /\ shm[h].lock_num[c] >= 0
              /\ shm'[h].lock_num[c] = shm[h].lock_num[c] + 1
          BY <1>5, <2>3, <2>4, <3>2, LockingFacts
        <4>2. p \in Reader
          BY <3>2 DEF LocksToRead
        <4>3. ~At(p, h, c) /\ At(p, h, c)'
          BY <2>2, <2>l, <4>1 DEF At
        <4>4. /\ ReadHolders(h, c)' = ReadHolders(h, c) \cup {p}
              /\ WriteHolders(h, c)' = WriteHolders(h, c)
              /\ p \notin ReadHolders(h, c)
          BY <4>2, <4>3, HoldersGain
        <4>5. /\ WriteHolders(h, c) = {}
              /\ shm[h].lock_num[c] = Cardinality(ReadHolders(h, c))
          BY <3>e, <4>1 DEF Exact
        <4>6. Cardinality(ReadHolders(h, c) \cup {p}) = Cardinality(ReadHolders(h, c)) + 1
          BY <3>f, <4>4, FS_AddElement
        <4>7. QED
          BY <4>1, <4>4, <4>5, <4>6 DEF Exact
      <3>3. CASE UnlocksWritten(p)
        <4>1. /\ Busy(p) /\ ~Busy(p)'
              /\ shm'[h].lock_num[c] = shm[h].lock_num[c] + 1
          BY <1>5, <2>3, <2>4, <3>3, LockingFacts
        <4>2. p \in Writer
          BY <3>3 DEF UnlocksWritten
        <4>3. At(p, h, c) /\ ~At(p, h, c)'
          BY <2>2, <4>1 DEF At
        <4>4. /\ WriteHolders(h, c)' = WriteHolders(h, c) \ {p}
              /\ ReadHolders(h, c)' = ReadHolders(h, c)
              /\ p \in WriteHolders(h, c)
          BY <4>2, <4>3, HoldersLoss
        <4>5. /\ WriteHolders(h, c) = {p} /\ ReadHolders(h, c) = {}
              /\ shm[h].lock_num[c] = -1
          BY <3>e, <4>4 DEF Exact
        <4>6. WriteHolders(h, c)' = {} /\ ReadHolders(h, c)' = {}
              /\ shm'[h].lock_num[c] = 0
          BY <4>1, <4>4, <4>5
        <4>7. Cardinality({}) = 0
          BY FS_EmptySet
        <4>8. QED
          BY <4>6, <4>7 DEF Exact
      <3>4. CASE UnlocksRead(p)
        <4>1. /\ Busy(p) /\ ~Busy(p)'
              /\ shm'[h].lock_num[c] = shm[h].lock_num[c] - 1
          BY <1>5, <2>3, <2>4, <3>4, LockingFacts
        <4>2. p \in Reader
          BY <3>4 DEF UnlocksRead
        <4>3. At(p, h, c) /\ ~At(p, h, c)'
          BY <2>2, <4>1 DEF At
        <4>4. /\ ReadHolders(h, c)' = ReadHolders(h, c) \ {p}
              /\ WriteHolders(h, c)' = WriteHolders(h, c)
              /\ p \in ReadHolders(h, c)
          BY <4>2, <4>3, HoldersLoss
        <4>5. /\ WriteHolders(h, c) = {}
              /\ shm[h].lock_num[c] = Cardinality(ReadHolders(h, c))
          BY <3>e, <4>4 DEF Exact
        <4>6. Cardinality(ReadHolders(h, c) \ {p}) = Cardinality(ReadHolders(h, c)) - 1
          BY <3>f, <4>4, FS_RemoveElement
        <4>7. QED
          BY <4>1, <4>4, <4>5, <4>6 DEF Exact
      <3>5. QED
        BY <2>b, <3>1, <3>2, <3>3, <3>4
    <2>7. QED
      BY <2>5, <2>6
  <1>6. CASE ~Locking(p)
    <2>1. Keeps(p)
      BY <1>6, LocksAside
    <2>2. At(p, g, b)' <=> At(p, g, b)
      BY <2>1 DEF Keeps, At
    <2>3. CASE SameLocks
      BY <1>3, <2>2, <2>3 DEF SameLocks
    <2>4. CASE p \in Writer /\ CreateSegment(p) /\ Create(p)
      <3>1. /\ Len(shm') = Len(shm) + 1
            /\ \A h \in 1 .. Len(shm) : shm'[h] = shm[h]
            /\ shm'[Len(shm) + 1] = Zeroed(0)
        BY <1>t, <2>4, CreateFacts
      <3>2. CASE g \in 1 .. Len(shm)
        BY <1>3, <2>2, <3>1, <3>2
      <3>3. CASE g = Len(shm) + 1
        <4>1. \A q \in Proc : q # p => ~At(q, g, b)'
          BY <1>t, <3>3 DEF At, SegOthers
        <4>2. ~At(p, g, b)
          BY <1>t, <3>3 DEF At
        <4>3. shm'[g].lock_num[b] = 0
          BY <3>1, <3>3 DEF Zeroed, kRWLockFree
        <4>4. QED
          BY <1>4, <2>2, <4>1, <4>2, <4>3
      <3>4. QED
        BY <1>t, <3>1, <3>2, <3>3
    <2>5. CASE p \in Writer /\ ConstructSegment(p)
      <3>1. pc[p] = "construct" /\ Construct(p) /\ state_[p] # 0
        BY <1>t, <2>5 DEF ConstructSegment, Placed
      <3> DEFINE e == [Zeroed(conf_[p]) EXCEPT !.reference_count = 1]
      <3>2. Replaced(state_[p], e)
        BY <1>t, <3>1, ConstructFacts
      <3>3. e.lock_num[b] = 0
        BY DEF Zeroed, kRWLockFree
      <3> HIDE DEF e
      <3>4. g \in 1 .. Len(shm)
        BY <3>2 DEF Replaced
      <3>5. CASE g # state_[p]
        <4>1. shm'[g] = shm[g]
          BY <3>2, <3>4, <3>5 DEF Replaced
        <4>2. QED
          BY <1>3, <2>2, <3>4, <4>1
      <3>6. CASE g = state_[p]
        <4>1. \A q \in Proc : state_[q] = g => q = p
          BY <1>2, <2>5, <3>1, <3>6 DEF BuiltInv, Alone
        <4>2. \A q \in Proc : q # p => ~At(q, g, b)'
          BY <4>1 DEF At, SegOthers
        <4>3. ~At(p, g, b)
          BY <3>1 DEF At, Busy, Where
        <4>4. shm'[g].lock_num[b] = 0
          BY <3>2, <3>3, <3>4, <3>6 DEF Replaced
        <4>5. QED
          BY <1>4, <2>2, <4>2, <4>3, <4>4
      <3>7. QED
        BY <3>5, <3>6
    <2>6. QED
      BY <1>6, <2>3, <2>4, <2>5, LocksSame
  <1>7. QED
    BY <1>5, <1>6

\* Locks are exact at all times.
LEMMA LockAlways == Spec => []LockInv
  <1>1. Init => LockInv
    BY DEF Init, SegmentInit, LockInv
  <1>2. ASSUME BaseInv, BuiltInv, LockInv, [Next]_vars
        PROVE  LockInv'
    <2>1. ASSUME NEW p \in Proc, Step(p)
          PROVE  LockInv'
      <3>1. BaseInv' /\ SegOthers(p) /\ LocalOthers(p)
        BY <1>2, <2>1, BaseStep
      <3>2. QED
        BY <1>2, <2>1, <3>1, LockStep
    <2>2. CASE UNCHANGED vars
      <3>1. UNCHANGED <<shm, state_, mishap, pc, then, index>>
        BY <2>2 DEF vars, segmentVars, transportVars
      <3>2. \A g, b : /\ WriteHolders(g, b)' = WriteHolders(g, b)
                      /\ ReadHolders(g, b)' = ReadHolders(g, b)
        BY <3>1 DEF WriteHolders, ReadHolders, Holds, Where
      <3>3. \A g, b : Exact(g, b) => Exact(g, b)'
        BY <3>1, <3>2 DEF Exact
      <3>4. QED
        BY <1>2, <3>1, <3>3 DEF LockInv
    <2>3. QED
      BY <1>2, <2>1, <2>2, Actors
  <1>3. QED
    BY <1>1, <1>2, BaseAlways, BuiltAlways, PTL DEF Spec

\* The lock of a block counts its holders, also those that died with it, in
\* every segment, attached or abandoned.
THEOREM LocksAreExact == Spec => []LocksExact
  <1>1. ASSUME LockInv
        PROVE  LocksExact
    <2>1. SUFFICES ASSUME "unready" \notin mishap, NEW g \in 1 .. Len(shm),
                          NEW b \in Blocks
                   PROVE  shm[g].lock_num[b] =
                            IF WriteHolders(g, b) # {}
                              THEN kWriteExclusive * Cardinality(WriteHolders(g, b))
                              ELSE Cardinality(ReadHolders(g, b))
      BY DEF LocksExact
    <2>2. Exact(g, b)
      BY <1>1, <2>1 DEF LockInv
    <2>3. CASE WriteHolders(g, b) = {}
      BY <2>2, <2>3 DEF Exact
    <2>4. CASE WriteHolders(g, b) # {}
      <3>1. PICK w \in Writer : WriteHolders(g, b) = {w} /\ shm[g].lock_num[b] = -1
        BY <2>2, <2>4 DEF Exact
      <3>2. Cardinality({w}) = 1
        BY FS_Singleton
      <3>3. kWriteExclusive * Cardinality(WriteHolders(g, b)) = -1
        BY <3>1, <3>2 DEF kWriteExclusive
      <3>4. QED
        BY <2>4, <3>1, <3>3
    <2>5. QED
      BY <2>3, <2>4
  <1>2. QED
    BY <1>1, LockAlways, PTL

-----------------------------------------------------------------------------
(* Whole messages.                                                         *)

Finishing(w, g, b) == At(w, g, b) /\ Where(w) = "finish"

\* A block is garbled only while a writer has it locked, or because the
\* writer died.
Garbled ==
    mishap = {} =>
      \A g \in 1 .. Len(shm) : \A b \in Blocks :
        shm[g].data[b] = Partial => \E w \in Writer : Finishing(w, g, b)

\* Somebody announces, or was told, that message t is in block b of g.
Claim(g, b, t) ==
    \/ \E i \in Slots : /\ infos[i] # NoInfo
                        /\ infos[i].home = g /\ infos[i].index = b
                        /\ infos[i].stamp = t
    \/ \E w \in Writer : /\ pc[w] \in {"reserve", "info", "seq"}
                         /\ state_[w] = g /\ index[w] = b /\ stamp[w] = t
    \/ \E r \in Reader : /\ pc[r] \in {"open", "check", "lock", "read"}
                         /\ home[r] = g /\ index[r] = b /\ stamp[r] = t

\* Message t, or a later one, is in the block or will be.
Good(g, b, t) ==
    /\ g \in 1 .. Len(shm) /\ t <= writes
    /\ shm[g].ceiling_msg_size # 0
    /\ shm[g].data[b] # Partial => shm[g].data[b] >= t
    /\ \A w \in Writer : At(w, g, b) => stamp[w] >= t

Claims ==
    mishap = {} =>
      \A g \in Nat : \A b \in Blocks : \A t \in Nat : Claim(g, b, t) => Good(g, b, t)

\* Stamps are numbers of messages.
Stamped ==
    \A w \in Writer : pc[w] \in {"write", "finish"} => stamp[w] <= writes

Taken ==
    mishap = {} =>
      \A r \in Reader : pc[r] = "release" =>
        /\ got[r] # Partial
        /\ home[r] = state_[r] => got[r] >= stamp[r]

WholeInv == Garbled /\ Claims /\ Stamped /\ Taken

\* A writer that has locked a block writes it, gives up, finishes or dies.
LEMMA BusyWriter ==
    ASSUME NEW p \in Writer, Step(p), Busy(p)
    PROVE  \/ pc[p] = "write" /\ (WriteBlock(p) \/ SerializeFails(p))
           \/ pc[p] = "finish" /\ FinishBlock(p)
           \/ pc[p] # "dead" /\ Crash(p)
  <1>1. p \notin Reader
    BY Kinds
  <1>2. pc[p] \in {"dead", "write", "finish"}
    BY <1>1 DEF Busy, Where
  <1>3. CASE WriterStep(p)
    BY <1>2, <1>3
    DEF WriterStep, Transmit, CreateSegment, ConstructSegment, CheckRemap,
        MarkSegment, RemoveSegment, NextBlock, LockBlock, WriteBlock,
        SerializeFails, FinishBlock, Reserve, StoreInfo, StoreSeq
  <1>4. CASE AnyStep(p)
    BY <1>2, <1>4
    DEF AnyStep, OpenSegment, OpenFails, Disable, DestroyTest, Unlink, Crash, Rest
  <1>5. QED
    BY <1>1, <1>3, <1>4 DEF Step

\* Messages are counted when their block is locked.
LEMMA WritesGrow ==
    ASSUME BaseInv, NEW p \in Proc, Step(p)
    PROVE  writes \in Nat /\ writes' \in Nat /\ writes <= writes'
  <1>0. writes \in Nat
    BY DEF BaseInv, LocalTypes
  <1>1. writes' \in {writes, writes + 1}
    <2>1. CASE p \in Writer /\ WriterStep(p)
      BY <2>1
      DEF WriterStep, Transmit, CreateSegment, ConstructSegment, CheckRemap,
          MarkSegment, RemoveSegment, NextBlock, LockBlock, WriteBlock,
          SerializeFails, FinishBlock, Reserve, StoreInfo, StoreSeq
    <2>2. CASE p \in Reader /\ ReaderStep(p)
      BY <2>2
      DEF ReaderStep, Start, Listen, Take, CheckIndex, LockToRead, LockBeyond,
          ReadBlock, ReleaseBlock
    <2>3. CASE AnyStep(p)
      BY <2>3
      DEF AnyStep, OpenSegment, OpenFails, Disable, DestroyTest, Unlink, Crash
    <2>4. QED
      BY <2>1, <2>2, <2>3 DEF Step
  <1>2. QED
    BY <1>0, <1>1

\* What can become of the contents of a block as long as nothing goes wrong.
KeptData(g, b) ==
    /\ g \in 1 .. Len(shm)
    /\ shm'[g].data[b] = shm[g].data[b]
    /\ shm'[g].ceiling_msg_size = shm[g].ceiling_msg_size

FreshData(g, b) ==
    /\ shm'[g].data[b] = 0
    /\ g \notin 1 .. Len(shm) \/ shm[g].ceiling_msg_size = 0

WrittenData(p, g, b, d) ==
    /\ p \in Writer /\ state_[p] = g /\ index[p] = b
    /\ g \in 1 .. Len(shm)
    /\ shm'[g].data[b] = d
    /\ shm'[g].ceiling_msg_size = shm[g].ceiling_msg_size

\* What a step without a mishap may do to a block's data: nothing, a fresh
\* segment, the part of WriteBlock() or the whole message of FinishBlock().
LEMMA DataStep ==
    ASSUME BaseInv, BuiltInv, FitInv, NEW p \in Proc, Step(p), mishap' = {},
           NEW g \in 1 .. Len(shm'), NEW b \in Blocks
    PROVE  \/ KeptData(g, b)
           \/ FreshData(g, b)
           \/ WrittenData(p, g, b, stamp[p]) /\ FinishBlock(p)
           \/ WrittenData(p, g, b, Partial) /\ WriteBlock(p)
  <1>t. /\ SegTypes /\ LocalTypes /\ Placed(p) /\ Len(shm) \in Nat
        /\ shm \in Seq(SegRec)
    BY DEF BaseInv, SegTypes
  <1>a. pc[p] \in Attached => state_[p] # 0 /\ init_[p]
    BY <1>t DEF Placed
  <1>m. mishap = {}
    BY MishapGrows
  <1>0. SameBlocks \/ UNCHANGED shm => KeptData(g, b)
    BY DEF SameBlocks, KeptData
  <1>1. ASSUME state_[p] # 0, NEW l \in Int,
               SetBlock(p, index[p], l, Seg(p).data[index[p]])
        PROVE  KeptData(g, b)
    <2>1. SegTypes /\ index[p] \in Blocks /\ Seg(p).data[index[p]] \in Int
      BY <1>1, BlockTypes
    <2>2. BlockIs(p, index[p], l, Seg(p).data[index[p]])
      BY <1>1, <2>1, BlockSet
    <2>3. QED
      BY <2>2 DEF BlockIs, KeptData, Seg
  <1>n. ASSUME state_[p] # 0
        PROVE  /\ Seg(p).lock_num[index[p]] + 1 \in Int
               /\ Seg(p).lock_num[index[p]] - 1 \in Int
    <2>1. Seg(p).lock_num[index[p]] \in Int
      BY <1>n, BlockTypes
    <2>2. QED
      BY <2>1
  <1>2. CASE p \in Writer /\ CreateSegment(p)
    <2>1. CASE Create(p)
      <3>1. /\ Len(shm') = Len(shm) + 1
            /\ \A h \in 1 .. Len(shm) : shm'[h] = shm[h]
            /\ shm'[Len(shm) + 1] = Zeroed(0)
        BY <1>t, <2>1, CreateFacts
      <3>2. CASE g \in 1 .. Len(shm)
        BY <3>1, <3>2 DEF KeptData
      <3>3. CASE g = Len(shm) + 1
        <4>1. g \notin 1 .. Len(shm)
          BY <1>t, <3>3
        <4>2. shm'[g].data[b] = 0
          BY <3>1, <3>3 DEF Zeroed, Blank
        <4>3. QED
          BY <4>1, <4>2 DEF FreshData
      <3>4. QED
        BY <1>t, <3>1, <3>2, <3>3
    <2>2. CASE UNCHANGED segmentVars
      BY <1>0, <2>2 DEF segmentVars
    <2>3. QED
      BY <1>2, <2>1, <2>2 DEF CreateSegment
  <1>3. CASE p \in Writer /\ ConstructSegment(p)
    <2>1. pc[p] = "construct" /\ Construct(p) /\ state_[p] # 0
      BY <1>t, <1>3 DEF ConstructSegment, Placed
    <2> DEFINE e == [Zeroed(conf_[p]) EXCEPT !.reference_count = 1]
    <2>2. Replaced(state_[p], e)
      BY <1>t, <2>1, ConstructFacts
    <2>3. e.data[b] = 0
      BY DEF Zeroed, Blank
    <2> HIDE DEF e
    <2>4. shm[state_[p]].ceiling_msg_size = 0
      BY <1>m, <1>3, <2>1 DEF BuiltInv, Alone
    <2>5. g \in 1 .. Len(shm)
      BY <2>2 DEF Replaced
    <2>6. CASE g = state_[p]
      BY <2>2, <2>3, <2>4, <2>5, <2>6 DEF Replaced, FreshData
    <2>7. CASE g # state_[p]
      BY <2>2, <2>5, <2>7 DEF Replaced, KeptData
    <2>8. QED
      BY <2>6, <2>7
  <1>4. CASE p \in Writer /\ LockBlock(p)
    <2>1. state_[p] # 0
      BY <1>a, <1>4 DEF LockBlock, Attached
    <2>2. \/ UNCHANGED shm
          \/ SetBlock(p, index[p], -1, Seg(p).data[index[p]])
      BY <1>4 DEF LockBlock, TryLockForWrite, segmentVars, kWriteExclusive
    <2>3. QED
      BY <1>0, <1>1, <2>1, <2>2
  <1>5. CASE p \in Writer /\ WriteBlock(p)
    <2>1. state_[p] # 0 /\ init_[p] /\ pc[p] = "write"
      BY <1>a, <1>5 DEF WriteBlock, Attached
    <2>2. Fits(p)
      <3>1. ~(size[p] > Large)
        BY <1>5 DEF WriteBlock
      <3>2. size[p] \in {1, 2, 3}
        BY <1>5, BlockFacts DEF BaseInv, LocalTypes
      <3>3. size[p] <= Large
        BY <3>1, <3>2 DEF Large
      <3>4. QED
        BY <1>m, <1>5, <2>1, <3>3, WrittenFits
    <2>3. Replaced(state_[p], [Seg(p) EXCEPT !.data[index[p]] = Partial,
                                             !.data[index[p]] = Partial])
      BY <1>t, <1>5, <2>1, <2>2, WriteFacts
    <2>4. Seg(p) \in SegRec /\ index[p] \in Blocks
      BY <1>t, <2>1, SegOf DEF LocalTypes
    <2> DEFINE e == [Seg(p) EXCEPT !.data[index[p]] = Partial,
                                   !.data[index[p]] = Partial]
    <2>5. /\ e.ceiling_msg_size = Seg(p).ceiling_msg_size
          /\ e.data = [Seg(p).data EXCEPT ![index[p]] = Partial,
                                          ![index[p]] = Partial]
      BY <2>4, DataFields
    <2> HIDE DEF e
    <2>6. Seg(p).data \in [Blocks -> Int]
      BY <2>4 DEF SegRec
    <2>7. e.data[b] = IF b = index[p] THEN Partial ELSE Seg(p).data[b]
      BY <2>4, <2>5, <2>6
    <2>8. Replaced(state_[p], e)
      BY <2>3 DEF e
    <2>9. g \in 1 .. Len(shm)
      BY <2>8 DEF Replaced
    <2>10. CASE g = state_[p]
      <3>1. shm'[g] = e /\ shm[g] = Seg(p)
        BY <2>8, <2>9, <2>10 DEF Replaced, Seg
      <3>2. QED
        BY <1>5, <2>5, <2>7, <2>9, <2>10, <3>1 DEF WrittenData, KeptData
    <2>11. CASE g # state_[p]
      BY <2>8, <2>9, <2>11 DEF Replaced, KeptData
    <2>12. QED
      BY <2>10, <2>11
  <1>6. CASE p \in Writer /\ SerializeFails(p)
    <2>1. state_[p] # 0
      BY <1>a, <1>6 DEF SerializeFails, Attached
    <2>2. SetBlock(p, index[p], Seg(p).lock_num[index[p]] + 1, Seg(p).data[index[p]])
      BY <1>6 DEF SerializeFails, ReleaseWriteLock
    <2>3. QED
      BY <1>1, <1>n, <2>1, <2>2
  <1>7. CASE p \in Writer /\ FinishBlock(p)
    <2>1. state_[p] # 0
      BY <1>a, <1>7 DEF FinishBlock, Attached
    <2>2. SetBlock(p, index[p], Seg(p).lock_num[index[p]] + 1, stamp[p])
      <3>1. Fits(p)
        BY <1>m, <1>7, WrittenFits DEF FinishBlock
      <3>2. QED
        BY <1>7, <3>1 DEF FinishBlock, ReleaseWriteLock
    <2>3. SegTypes /\ index[p] \in Blocks /\ stamp[p] \in Int
          /\ state_[p] \in 1 .. Len(shm)
      BY <2>1, BlockTypes
    <2>4. BlockIs(p, index[p], Seg(p).lock_num[index[p]] + 1, stamp[p])
      BY <1>n, <2>1, <2>2, <2>3, BlockSet
    <2>5. QED
      BY <1>7, <2>3, <2>4 DEF BlockIs, KeptData, WrittenData
  <1>8. CASE p \in Reader /\ (LockToRead(p) \/ ReleaseBlock(p))
    <2>1. state_[p] # 0
      BY <1>a, <1>8 DEF LockToRead, ReleaseBlock, Attached
    <2>2. \/ UNCHANGED shm
          \/ SetBlock(p, index[p], Seg(p).lock_num[index[p]] + 1, Seg(p).data[index[p]])
          \/ SetBlock(p, index[p], Seg(p).lock_num[index[p]] - 1, Seg(p).data[index[p]])
      BY <1>8 DEF LockToRead, ReleaseBlock, TryLockForRead, ReleaseReadLock,
                  segmentVars
    <2>3. QED
      BY <1>0, <1>1, <1>n, <2>1, <2>2
  <1>9. CASE p \in Reader /\ LockBeyond(p)
    BY <1>9 DEF LockBeyond
  <1>10. QED
    BY <1>0, <1>2, <1>3, <1>4, <1>5, <1>6, <1>7, <1>8, <1>9, SegStep DEF Touches

\* How a writer gets to the places where it has a block.
LEMMA WriterComes ==
    ASSUME BaseInv, NEW p \in Writer, Step(p)
    PROVE  /\ pc'[p] = "write" => LocksToWrite(p)
           /\ pc'[p] = "finish" => WriteBlock(p)
           /\ pc'[p] = "reserve" => FinishBlock(p)
           /\ pc'[p] = "info" => Reserve(p)
           /\ pc'[p] = "seq" => StoreInfo(p)
  <1>k. p \in Proc /\ p \notin Reader
    BY Kinds
  <1>t. pc \in [Proc -> Label] /\ then \in [Proc -> Label] /\ Placed(p)
    BY <1>k DEF BaseInv, LocalTypes
  <1>go. \A l : Go(p, l) => pc'[p] = l
    BY <1>k, <1>t DEF Go
  <1>gt. \A l, m : GoOpen(p, l, m) => pc'[p] = l
    BY <1>k, <1>t DEF Go, GoOpen
  <1>v. GiveUp(p) => pc'[p] \in {"idle", "listen"}
    BY <1>gt DEF GiveUp, Rest
  <1>1. CASE Transmit(p) \/ CreateSegment(p) \/ MarkSegment(p) \/ RemoveSegment(p)
             \/ NextBlock(p)
    BY <1>go, <1>gt, <1>1 DEF Transmit, CreateSegment, MarkSegment, RemoveSegment,
                              NextBlock
  <1>2. CASE ConstructSegment(p)
    BY <1>t, <1>gt, <1>2 DEF ConstructSegment, Placed
  <1>3. CASE CheckRemap(p)
    BY <1>go, <1>gt, <1>3 DEF CheckRemap, Sized
  <1>4. CASE LockBlock(p)
    <2>1. \/ TryLockForWrite(p, index[p]) /\ Go(p, "write") /\ pc'[p] = "write"
          \/ pc'[p] = "next"
      BY <1>go, <1>4 DEF LockBlock
    <2>2. QED
      BY <1>4, <2>1 DEF LocksToWrite
  <1>5. CASE WriteBlock(p) \/ FinishBlock(p) \/ Reserve(p) \/ StoreInfo(p)
    BY <1>go, <1>5 DEF WriteBlock, FinishBlock, Reserve, StoreInfo
  <1>6. CASE SerializeFails(p) \/ StoreSeq(p)
    BY <1>v, <1>6 DEF SerializeFails, StoreSeq
  <1>7. CASE OpenSegment(p)
    <2>1. then[p] \in {"remap", "next", "size"}
      BY <1>t, <1>7 DEF OpenSegment, Placed
    <2>2. QED
      BY <1>gt, <1>7, <2>1 DEF OpenSegment, Sized
  <1>8. CASE OpenFails(p)
    BY <1>go, <1>v, <1>8 DEF OpenFails
  <1>9. CASE Disable(p) \/ DestroyTest(p) \/ Unlink(p) \/ Crash(p)
    BY <1>go, <1>gt, <1>9 DEF Disable, DestroyTest, Unlink, Crash, Off
  <1>10. QED
    BY <1>k, <1>1, <1>2, <1>3, <1>4, <1>5, <1>6, <1>7, <1>8, <1>9
    DEF Step, WriterStep, AnyStep

\* How a reader gets to the places where it knows of a message.
Told == {"open", "check", "lock", "read"}

\* A reader works on a notified block because it heard of it, and releases
\* one it has read.
LEMMA ReaderComes ==
    ASSUME BaseInv, NEW p \in Reader, Step(p)
    PROVE  /\ pc'[p] \in Told =>
                \/ Take(p) /\ Heard(p) # NoInfo
                \/ pc[p] \in Told /\ UNCHANGED <<index, stamp, home>>
           /\ pc'[p] = "release" => ReadBlock(p)
  <1>k. p \in Proc /\ p \notin Writer
    BY Kinds
  <1>t. pc \in [Proc -> Label] /\ then \in [Proc -> Label] /\ Placed(p)
    BY <1>k DEF BaseInv, LocalTypes
  <1>go. \A l : Go(p, l) => pc'[p] = l
    BY <1>k, <1>t DEF Go
  <1>gt. \A l, m : GoOpen(p, l, m) => pc'[p] = l
    BY <1>k, <1>t DEF Go, GoOpen
  <1>v. GiveUp(p) => pc'[p] \in {"idle", "listen"}
    BY <1>gt DEF GiveUp, Rest
  <1>1. CASE Start(p) \/ Listen(p) \/ ReadBlock(p)
    BY <1>go, <1>1 DEF Start, Listen, ReadBlock, Told
  <1>2. CASE Take(p)
    BY <1>go, <1>gt, <1>v, <1>2 DEF Take, Told
  <1>3. CASE CheckIndex(p)
    <2>1. CASE GiveUp(p)
      BY <1>v, <2>1 DEF Told
    <2>2. CASE UNCHANGED <<size, index, stamp, home, got>>
      <3>1. pc[p] \in Told /\ pc'[p] \in {"open", "lock"} \cup {"idle", "listen"}
        BY <1>go, <1>gt, <1>v, <1>3 DEF CheckIndex, Told
      <3>2. QED
        BY <2>2, <3>1
    <2>3. QED
      BY <1>3, <2>1, <2>2 DEF CheckIndex
  <1>4. CASE LockToRead(p)
    <2>1. CASE GiveUp(p)
      BY <1>v, <2>1 DEF Told
    <2>2. CASE Go(p, "read") /\ UNCHANGED locals
      BY <1>go, <1>4, <2>2 DEF LockToRead, locals, Told
    <2>3. QED
      BY <1>4, <2>1, <2>2 DEF LockToRead
  <1>5. CASE LockBeyond(p) \/ ReleaseBlock(p)
    BY <1>v, <1>5 DEF LockBeyond, ReleaseBlock, Told
  <1>6. CASE OpenSegment(p)
    <2>1. then[p] \in {"check", "lock"} /\ pc[p] = "open"
      BY <1>t, <1>6 DEF OpenSegment, Placed
    <2>2. pc'[p] = then[p] /\ UNCHANGED <<index, stamp, home>>
      BY <1>gt, <1>6, <2>1 DEF OpenSegment
    <2>3. QED
      BY <2>1, <2>2 DEF Told
  <1>7. CASE OpenFails(p)
    BY <1>go, <1>v, <1>7 DEF OpenFails, Told
  <1>8. CASE Disable(p) \/ DestroyTest(p) \/ Unlink(p) \/ Crash(p)
    BY <1>go, <1>gt, <1>8 DEF Disable, DestroyTest, Unlink, Crash, Off, Told
  <1>9. QED
    BY <1>k, <1>1, <1>2, <1>3, <1>4, <1>5, <1>6, <1>7, <1>8
    DEF Step, ReaderStep, AnyStep

\* A writer releases a block with its message in it.
LEMMA FinishFacts ==
    ASSUME BaseInv, BuiltInv, FitInv, mishap = {}, NEW p \in Writer, FinishBlock(p)
    PROVE  /\ state_[p] \in 1 .. Len(shm) /\ init_[p]
           /\ index[p] \in Blocks /\ stamp[p] \in Nat
           /\ BlockIs(p, index[p], Seg(p).lock_num[index[p]] + 1, stamp[p])
           /\ At(p, state_[p], index[p])
           /\ UNCHANGED <<then, index, stamp, home, got, writes>>
           /\ pc[p] = "finish" /\ pc'[p] = "reserve"
  <1>k. p \in Proc
    BY Kinds
  <1>1. /\ pc[p] = "finish" /\ Go(p, "reserve")
        /\ SetBlock(p, index[p], Seg(p).lock_num[index[p]] + 1, stamp[p])
        /\ UNCHANGED <<then, index, stamp, home, got, writes>>
    BY WrittenFits DEF FinishBlock, ReleaseWriteLock
  <1>2. state_[p] # 0 /\ init_[p]
    BY <1>k, <1>1 DEF BaseInv, Placed, Attached
  <1>3. /\ SegTypes /\ index[p] \in Blocks /\ stamp[p] \in Nat
        /\ state_[p] \in 1 .. Len(shm) /\ Seg(p).lock_num[index[p]] \in Int
    BY <1>k, <1>2, BlockTypes
  <1>4. Seg(p).lock_num[index[p]] + 1 \in Int /\ stamp[p] \in Int
    BY <1>3
  <1>5. BlockIs(p, index[p], Seg(p).lock_num[index[p]] + 1, stamp[p])
    BY <1>k, <1>1, <1>2, <1>3, <1>4, BlockSet
  <1>6. At(p, state_[p], index[p])
    BY <1>1 DEF At, Busy, Where
  <1>7. pc'[p] = "reserve"
    BY <1>k, <1>1 DEF Go, BaseInv, LocalTypes
  <1>8. QED
    BY <1>1, <1>2, <1>3, <1>5, <1>6, <1>7

\* Blocks stay whole except under a writer's lock.
LEMMA GarbledStep ==
    ASSUME BaseInv, BuiltInv, FitInv, Garbled, NEW p \in Proc, Step(p), BaseInv',
           SegOthers(p), LocalOthers(p)
    PROVE  Garbled'
  <1>1. SUFFICES ASSUME mishap' = {}, NEW g \in 1 .. Len(shm'), NEW b \in Blocks,
                        shm'[g].data[b] = Partial
                 PROVE  \E w \in Writer : Finishing(w, g, b)'
    BY DEF Garbled
  <1>m. mishap = {}
    BY <1>1, MishapGrows
  <1>t. /\ pc \in [Proc -> Label] /\ then \in [Proc -> Label]
        /\ stamp[p] \in Nat /\ Writer \subseteq Proc
    BY Kinds DEF BaseInv, LocalTypes
  <1>2. CASE KeptData(g, b)
    <2>1. shm[g].data[b] = Partial /\ g \in 1 .. Len(shm)
      BY <1>1, <1>2 DEF KeptData
    <2>2. PICK w \in Writer : Finishing(w, g, b)
      BY <1>m, <2>1 DEF Garbled
    <2>3. CASE w # p
      <3>1. w \in Proc
        BY <1>t
      <3>2. At(w, g, b)'
        BY <2>2, <2>3, <3>1, AtOthers DEF Finishing
      <3>3. pc'[w] = pc[w] /\ then'[w] = then[w]
        BY <2>3, <3>1 DEF LocalOthers
      <3>4. QED
        BY <2>2, <3>2, <3>3 DEF Finishing, Where
    <2>4. CASE w = p
      <3>1. /\ p \in Writer /\ Busy(p) /\ state_[p] = g /\ index[p] = b
            /\ Where(p) = "finish"
        BY <2>2, <2>4 DEF Finishing, At
      <3>2. pc[p] # "write"
        BY <3>1 DEF Where
      <3>3. CASE FinishBlock(p)
        <4>1. BlockIs(p, index[p], Seg(p).lock_num[index[p]] + 1, stamp[p])
          BY <1>m, <3>1, <3>3, FinishFacts
        <4>2. shm'[g].data[b] = stamp[p]
          BY <2>1, <3>1, <4>1 DEF BlockIs
        <4>3. QED
          BY <1>1, <1>t, <4>2 DEF Partial
      <3>4. CASE pc[p] # "dead" /\ Crash(p)
        <4>1. /\ pc'[p] = "dead" /\ then'[p] = pc[p]
              /\ UNCHANGED <<state_, index>>
          BY <1>t, <3>4 DEF Crash, GoOpen, Go, segmentVars
        <4>2. pc[p] = "finish"
          BY <3>1, <3>4 DEF Where
        <4>3. Finishing(p, g, b)'
          BY <3>1, <4>1, <4>2 DEF Finishing, At, Busy, Where
        <4>4. QED
          BY <3>1, <4>3
      <3>5. QED
        BY <3>1, <3>2, <3>3, <3>4, BusyWriter
    <2>5. QED
      BY <2>3, <2>4
  <1>3. CASE FreshData(g, b)
    BY <1>1, <1>3 DEF FreshData, Partial
  <1>4. CASE WrittenData(p, g, b, stamp[p])
    BY <1>1, <1>t, <1>4 DEF WrittenData, Partial
  <1>5. CASE WrittenData(p, g, b, Partial) /\ WriteBlock(p)
    <2>1. p \in Writer /\ state_[p] = g /\ index[p] = b
      BY <1>5 DEF WrittenData
    <2>2. pc'[p] = "finish" /\ UNCHANGED <<state_, index>>
      BY <1>t, <1>5 DEF WriteBlock, Go
    <2>3. Finishing(p, g, b)'
      BY <2>1, <2>2 DEF Finishing, At, Busy, Where
    <2>4. QED
      BY <2>1, <2>3
  <1>6. QED
    BY <1>1, <1>2, <1>3, <1>4, <1>5, DataStep

\* Once message t was in a block it is never replaced by an older one.
LEMMA GoodStep ==
    ASSUME BaseInv, BuiltInv, FitInv, NEW p \in Proc, Step(p), BaseInv',
           SegOthers(p), LocalOthers(p), mishap' = {},
           NEW g \in Nat, NEW b \in Blocks, NEW t \in Nat, Good(g, b, t)
    PROVE  Good(g, b, t)'
  <1>m. mishap = {}
    BY MishapGrows
  <1>t. /\ pc \in [Proc -> Label] /\ stamp \in [Proc -> Nat]
        /\ Writer \subseteq Proc /\ Len(shm) \in Nat
        /\ stamp' \in [Proc -> Nat] /\ Len(shm') \in Nat
    BY Kinds DEF BaseInv, LocalTypes, SegTypes
  <1>w. writes \in Nat /\ writes' \in Nat /\ writes <= writes'
    BY WritesGrow
  <1>g. /\ g \in 1 .. Len(shm) /\ t <= writes
        /\ shm[g].ceiling_msg_size # 0
        /\ shm[g].data[b] # Partial => shm[g].data[b] >= t
        /\ \A w \in Writer : At(w, g, b) => stamp[w] >= t
    BY DEF Good
  <1>1. Len(shm) <= Len(shm')
    <2>1. CASE p \in Writer /\ CreateSegment(p)
      <3>1. CASE Create(p)
        <4>1. Len(shm') = Len(shm) + 1
          BY <3>1, CreateFacts DEF BaseInv
        <4>2. QED
          BY <1>t, <4>1
      <3>2. CASE UNCHANGED segmentVars
        BY <1>t, <3>2 DEF segmentVars
      <3>3. QED
        BY <2>1, <3>1, <3>2 DEF CreateSegment
    <2>2. CASE p \in Writer /\ ConstructSegment(p)
      <3>1. SegTypes /\ state_[p] # 0 /\ Construct(p)
        BY <2>2 DEF ConstructSegment, BaseInv, Placed
      <3>2. Len(shm') = Len(shm)
        BY <3>1, ConstructFacts DEF Replaced
      <3>3. QED
        BY <1>t, <3>2
    <2>3. CASE SameSizes
      BY <1>t, <2>3 DEF SameSizes
    <2>4. QED
      BY <2>1, <2>2, <2>3, SizesKept
  <1>2. g \in 1 .. Len(shm') /\ t <= writes'
    BY <1>t, <1>w, <1>g, <1>1
  <1>3. ASSUME NEW w \in Writer, At(w, g, b)'
        PROVE  stamp'[w] >= t
    <2>1. CASE w # p
      <3>1. At(w, g, b) /\ stamp'[w] = stamp[w]
        BY <1>t, <1>3, <2>1, AtOthers DEF LocalOthers
      <3>2. QED
        BY <1>g, <3>1
    <2>2. CASE w = p /\ ~Busy(p)
      <3>1. LocksToWrite(p)
        <4>1. ~Keeps(p)
          BY <1>3, <2>2 DEF Keeps, At
        <4>2. Locking(p)
          BY <4>1, LocksAside
        <4>3. ~UnlocksWritten(p) /\ ~UnlocksRead(p)
          BY <2>2, <4>2, LockingFacts
        <4>4. ~LocksToRead(p)
          BY <2>2, Kinds DEF LocksToRead
        <4>5. QED
          BY <4>2, <4>3, <4>4 DEF Locking
      <3>2. pc'[p] = "write"
        BY <1>t, <3>1 DEF LocksToWrite, Go
      <3>3. stamp' = [stamp EXCEPT ![p] = writes + 1]
        <4>1. LockBlock(p) /\ ~Go(p, "next")
          BY <1>t, <3>1, <3>2 DEF LocksToWrite, Go
        <4>2. QED
          BY <4>1 DEF LockBlock
      <3>4. stamp'[w] = writes + 1
        BY <1>t, <2>2, <3>3
      <3>5. QED
        BY <1>w, <1>g, <3>4
    <2>3. CASE w = p /\ Busy(p)
      <3>1. Busy(p)' /\ p \in Writer
        BY <1>3, <2>3 DEF At
      <3>2. WriteBlock(p) \/ Crash(p)
        <4>1. ~UnlocksWritten(p)
          BY <3>1, LockingFacts DEF Locking
        <4>2. QED
          BY <2>3, <3>1, <4>1, BusyWriter DEF UnlocksWritten
      <3>3. UNCHANGED <<state_, index, stamp>>
        BY <3>2 DEF WriteBlock, Crash, segmentVars
      <3>4. At(p, g, b)
        BY <1>3, <2>3, <3>3 DEF At
      <3>5. QED
        BY <1>g, <2>3, <3>3, <3>4
    <2>4. QED
      BY <2>1, <2>2, <2>3
  <1>4. /\ shm'[g].ceiling_msg_size # 0
        /\ shm'[g].data[b] # Partial => shm'[g].data[b] >= t
    <2>1. CASE KeptData(g, b)
      BY <1>g, <2>1 DEF KeptData
    <2>2. ~FreshData(g, b)
      BY <1>g DEF FreshData
    <2>3. CASE WrittenData(p, g, b, stamp[p]) /\ FinishBlock(p)
      <3>1. p \in Writer /\ state_[p] = g /\ index[p] = b /\ shm'[g].data[b] = stamp[p]
            /\ shm'[g].ceiling_msg_size = shm[g].ceiling_msg_size
        BY <2>3 DEF WrittenData
      <3>2. At(p, g, b)
        BY <1>m, <2>3, <3>1, FinishFacts
      <3>3. QED
        BY <1>g, <3>1, <3>2
    <2>4. CASE WrittenData(p, g, b, Partial)
      BY <1>g, <2>4 DEF WrittenData
    <2>5. QED
      BY <1>2, <2>1, <2>2, <2>3, <2>4, DataStep
  <1>5. QED
    BY <1>2, <1>3, <1>4 DEF Good

\* A claim is made by the writer that has released the block, and passed on
\* by the ring to the readers.
LEMMA ClaimsPassed ==
    ASSUME BaseInv, NEW p \in Proc, Step(p), BaseInv', SegOthers(p),
           LocalOthers(p), NEW g \in Nat, NEW b \in Blocks, NEW t \in Nat,
           Claim(g, b, t)'
    PROVE  \/ Claim(g, b, t)
           \/ /\ p \in Writer /\ FinishBlock(p)
              /\ state_[p] = g /\ index[p] = b /\ stamp[p] = t
  <1>t. /\ infos \in [Slots -> InfoRec \cup {NoInfo}] /\ seq \in [Writer -> Nat]
        /\ next_seq_ \in [Reader -> Nat]
        /\ index \in [Proc -> Blocks] /\ stamp \in [Proc -> Nat]
        /\ home \in [Reader -> Nat]
        /\ Writer \subseteq Proc /\ Reader \subseteq Proc
    BY Kinds DEF BaseInv, RingTypes, LocalTypes
  <1>1. ASSUME NEW i \in Slots, infos'[i] # NoInfo, infos'[i].home = g,
               infos'[i].index = b, infos'[i].stamp = t
        PROVE  Claim(g, b, t)
    <2>1. CASE infos'[i] = infos[i]
      BY <1>1, <2>1 DEF Claim
    <2>2. CASE infos'[i] # infos[i]
      <3>1. p \in Writer /\ StoreInfo(p)
        <4>1. infos' # infos
          BY <2>2
        <4>2. Notifies(p)
          BY <4>1, RingQuiet DEF notifierVars
        <4>3. QED
          BY <4>1, <4>2 DEF Notifies, Reserve, StoreSeq, Start, Listen, Take,
                            NotifyReserve, NotifyStoreSeq, Attach, ListenTest,
                            ListenTake
      <3>2. pc[p] = "info" /\ infos' = [infos EXCEPT ![seq[p] % BufLength] = Info(p)]
        BY <3>1 DEF StoreInfo, NotifyStoreInfo
      <3>3. infos'[i] = Info(p)
        BY <1>t, <2>2, <3>2
      <3>4. state_[p] = g /\ index[p] = b /\ stamp[p] = t
        BY <1>1, <3>3 DEF Info
      <3>5. QED
        BY <3>1, <3>2, <3>4 DEF Claim
    <2>3. QED
      BY <2>1, <2>2
  <1>2. ASSUME NEW w \in Writer, pc'[w] \in {"reserve", "info", "seq"},
               state_'[w] = g, index'[w] = b, stamp'[w] = t
        PROVE  \/ Claim(g, b, t)
               \/ /\ p \in Writer /\ FinishBlock(p)
                  /\ state_[p] = g /\ index[p] = b /\ stamp[p] = t
    <2>1. CASE w # p
      <3>1. /\ pc'[w] = pc[w] /\ state_'[w] = state_[w] /\ index'[w] = index[w]
            /\ stamp'[w] = stamp[w]
        BY <1>t, <2>1 DEF LocalOthers, SegOthers
      <3>2. QED
        BY <1>2, <3>1 DEF Claim
    <2>2. CASE w = p /\ pc'[p] = "reserve"
      <3>1. FinishBlock(p)
        BY <2>2, WriterComes
      <3>2. UNCHANGED <<index, stamp, state_>>
        BY <3>1 DEF FinishBlock, ReleaseWriteLock, SetBlock
      <3>3. QED
        BY <1>2, <2>2, <3>1, <3>2
    <2>3. CASE w = p /\ pc'[p] \in {"info", "seq"}
      <3>1. Reserve(p) \/ StoreInfo(p)
        BY <2>3, WriterComes
      <3>2. UNCHANGED <<index, stamp, state_>> /\ pc[p] \in {"reserve", "info"}
        BY <3>1 DEF Reserve, StoreInfo, segmentVars
      <3>3. QED
        BY <1>2, <2>3, <3>2 DEF Claim
    <2>4. QED
      BY <1>2, <2>1, <2>2, <2>3
  <1>3. ASSUME NEW r \in Reader, pc'[r] \in Told,
               home'[r] = g, index'[r] = b, stamp'[r] = t
        PROVE  Claim(g, b, t)
    <2>1. CASE r # p
      <3>1. /\ pc'[r] = pc[r] /\ home'[r] = home[r] /\ index'[r] = index[r]
            /\ stamp'[r] = stamp[r]
        BY <1>t, <2>1 DEF LocalOthers
      <3>2. QED
        BY <1>3, <3>1 DEF Claim, Told
    <2>2. CASE r = p /\ Take(p) /\ Heard(p) # NoInfo
      <3>1. PICK i \in Slots : Heard(p) = infos[i]
        BY <1>t, <2>2, SlotOf DEF Heard
      <3>2. /\ index' = [index EXCEPT ![p] = infos[i].index]
            /\ stamp' = [stamp EXCEPT ![p] = infos[i].stamp]
            /\ home' = [home EXCEPT ![p] = infos[i].home]
        BY <2>2, <3>1 DEF Take
      <3>3. infos[i].home = g /\ infos[i].index = b /\ infos[i].stamp = t
        BY <1>t, <1>3, <2>2, <3>2
      <3>4. QED
        BY <2>2, <3>1, <3>3 DEF Claim
    <2>3. CASE r = p /\ pc[p] \in Told /\ UNCHANGED <<index, stamp, home>>
      BY <1>3, <2>3 DEF Claim, Told
    <2>4. QED
      BY <1>3, <2>1, <2>2, <2>3, ReaderComes
  <1>4. QED
    BY <1>1, <1>2, <1>3 DEF Claim, Told

\* Every claim stays true.
LEMMA ClaimsStep ==
    ASSUME BaseInv, BuiltInv, FitInv, LockInv, Claims, Stamped, NEW p \in Proc,
           Step(p), BaseInv', LockInv', SegOthers(p), LocalOthers(p)
    PROVE  Claims'
  <1>1. SUFFICES ASSUME mishap' = {}, NEW g \in Nat, NEW b \in Blocks, NEW t \in Nat,
                        Claim(g, b, t)'
                 PROVE  Good(g, b, t)'
    BY DEF Claims
  <1>m. mishap = {}
    BY <1>1, MishapGrows
  <1>2. CASE Claim(g, b, t)
    <2>1. Good(g, b, t)
      BY <1>m, <1>2 DEF Claims
    <2>2. QED
      BY <1>1, <2>1, GoodStep
  <1>3. CASE /\ p \in Writer /\ FinishBlock(p)
             /\ state_[p] = g /\ index[p] = b /\ stamp[p] = t
    <2>1. /\ g \in 1 .. Len(shm) /\ init_[p]
          /\ BlockIs(p, b, Seg(p).lock_num[b] + 1, t)
          /\ At(p, g, b) /\ writes' = writes /\ pc[p] = "finish"
          /\ pc'[p] = "reserve"
      BY <1>m, <1>3, FinishFacts
    <2>2. /\ Len(shm') = Len(shm) /\ shm'[g].data[b] = t
          /\ shm'[g].ceiling_msg_size = shm[g].ceiling_msg_size
      BY <1>3, <2>1 DEF BlockIs
    <2>3. t <= writes'
      BY <1>3, <2>1 DEF Stamped
    <2>4. shm[g].ceiling_msg_size # 0
      <3>1. conf_[p] = shm[g].ceiling_msg_size
        BY <1>m, <1>3, <2>1 DEF BuiltInv, Known
      <3>2. conf_[p] \in {1, 2}
        BY BlockFacts DEF BaseInv, SegTypes
      <3>3. QED
        BY <3>1, <3>2
    <2>5. ASSUME NEW w \in Writer
          PROVE  ~At(w, g, b)'
      <3>1. p \in WriteHolders(g, b)
        BY <1>3, <2>1, HolderSets
      <3>2. WriteHolders(g, b) = {p}
        BY <1>m, <2>1, <3>1 DEF LockInv, Exact
      <3>3. ~At(p, g, b)'
        BY <1>3, <2>1, Kinds DEF At, Busy, Where
      <3>4. CASE w # p
        <4>1. ~At(w, g, b)
          BY <3>2, <3>4, HolderSets
        <4>2. QED
          BY <3>4, <4>1, AtOthers, Kinds
      <3>5. QED
        BY <3>3, <3>4
    <2>6. QED
      BY <2>1, <2>2, <2>3, <2>4, <2>5 DEF Good
  <1>4. QED
    BY <1>1, <1>2, <1>3, ClaimsPassed

\* Stamps are given when a block is locked.
LEMMA StampedStep ==
    ASSUME BaseInv, Stamped, NEW p \in Proc, Step(p), LocalOthers(p), BaseInv'
    PROVE  Stamped'
  <1>1. SUFFICES ASSUME NEW w \in Writer, pc'[w] \in {"write", "finish"}
                 PROVE  stamp'[w] <= writes'
    BY DEF Stamped
  <1>t. /\ pc \in [Proc -> Label] /\ stamp \in [Proc -> Nat] /\ w \in Proc
        /\ writes \in Nat /\ writes' \in Nat /\ writes <= writes'
    BY Kinds, WritesGrow DEF BaseInv, LocalTypes
  <1>2. CASE w # p
    <2>1. pc'[w] = pc[w] /\ stamp'[w] = stamp[w]
      BY <1>t, <1>2 DEF LocalOthers
    <2>2. stamp[w] <= writes /\ stamp[w] \in Nat
      BY <1>1, <1>t, <2>1 DEF Stamped
    <2>3. QED
      BY <1>t, <2>1, <2>2
  <1>3. CASE w = p /\ pc'[p] = "write"
    <2>1. LocksToWrite(p)
      BY <1>3, WriterComes
    <2>2. LockBlock(p) /\ ~Go(p, "next")
      BY <1>t, <1>3, <2>1 DEF LocksToWrite, Go
    <2>3. stamp' = [stamp EXCEPT ![p] = writes + 1] /\ writes' = writes + 1
      BY <2>2 DEF LockBlock
    <2>4. QED
      BY <1>t, <1>3, <2>3
  <1>4. CASE w = p /\ pc'[p] = "finish"
    <2>1. WriteBlock(p)
      BY <1>4, WriterComes
    <2>2. pc[p] = "write" /\ UNCHANGED <<stamp, writes>>
      BY <2>1 DEF WriteBlock
    <2>3. QED
      BY <1>4, <2>2 DEF Stamped
  <1>5. QED
    BY <1>1, <1>2, <1>3, <1>4

\* What a reader takes out of a block that it has locked is whole.
LEMMA TakenStep ==
    ASSUME BaseInv, LockInv, Garbled, Claims, Taken, NEW p \in Proc, Step(p),
           SegOthers(p), LocalOthers(p)
    PROVE  Taken'
  <1>1. SUFFICES ASSUME mishap' = {}, NEW r \in Reader, pc'[r] = "release"
                 PROVE  /\ got'[r] # Partial
                        /\ home'[r] = state_'[r] => got'[r] >= stamp'[r]
    BY DEF Taken
  <1>m. mishap = {}
    BY <1>1, MishapGrows
  <1>k. r \in Proc /\ r \notin Writer
    BY Kinds
  <1>2. CASE r # p
    <2>1. /\ pc'[r] = pc[r] /\ got'[r] = got[r] /\ home'[r] = home[r]
          /\ state_'[r] = state_[r] /\ stamp'[r] = stamp[r]
      BY <1>k, <1>2 DEF LocalOthers, SegOthers
    <2>2. QED
      BY <1>1, <1>m, <2>1 DEF Taken
  <1>3. CASE r = p
    <2>1. ReadBlock(r)
      BY <1>1, <1>3, ReaderComes
    <2>2. /\ pc[r] = "read" /\ UNCHANGED <<home, stamp, state_>>
          /\ got' = [got EXCEPT ![r] = Seg(r).data[index[r]]]
      BY <2>1 DEF ReadBlock, segmentVars
    <2>3. state_[r] # 0 /\ got \in [Reader -> Int]
      BY <1>k, <2>2 DEF BaseInv, Placed, Attached, LocalTypes
    <2>4. PICK g \in 1 .. Len(shm), b \in Blocks : g = state_[r] /\ b = index[r]
      BY <1>k, <2>3, BlockTypes
    <2>5. got'[r] = shm[g].data[b]
      BY <2>2, <2>3, <2>4 DEF Seg
    <2>6. r \in ReadHolders(g, b)
      BY <2>2, <2>4 DEF ReadHolders, Holds, Where
    <2>7. WriteHolders(g, b) = {}
      BY <1>m, <2>6 DEF LockInv, Exact
    <2>8. \A w \in Writer : ~At(w, g, b)
      BY <2>7, HolderSets
    <2>9. shm[g].data[b] # Partial
      BY <1>m, <2>8 DEF Garbled, Finishing
    <2>10. ASSUME home[r] = g
           PROVE  shm[g].data[b] >= stamp[r]
      <3>1. Claim(g, b, stamp[r])
        BY <2>2, <2>4, <2>10 DEF Claim
      <3>2. stamp[r] \in Nat /\ g \in Nat
        BY <1>k DEF BaseInv, LocalTypes
      <3>3. Good(g, b, stamp[r])
        BY <1>m, <3>1, <3>2 DEF Claims
      <3>4. QED
        BY <2>9, <3>3 DEF Good
    <2>11. QED
      BY <2>2, <2>4, <2>5, <2>9, <2>10
  <1>4. QED
    BY <1>2, <1>3

\* Messages stay whole at all times.
LEMMA WholeAlways == Spec => []WholeInv
  <1>1. Init => WholeInv
    <2>1. SUFFICES ASSUME Init PROVE WholeInv
      OBVIOUS
    <2>2. /\ shm = <<>>
          /\ infos = [i \in Slots |-> NoInfo]
          /\ pc = [p \in Proc |-> IF p \in Writer THEN "idle" ELSE "off"]
      BY <2>1 DEF Init, SegmentInit, NotifierInit, Slots
    <2>3. \A p \in Proc : pc[p] \in {"idle", "off"}
      BY <2>2
    <2>4. Writer \subseteq Proc /\ Reader \subseteq Proc
      BY Kinds
    <2>5. Garbled
      BY <2>2 DEF Garbled
    <2>6. Claims
      BY <2>2, <2>3, <2>4 DEF Claims, Claim
    <2>7. Stamped /\ Taken
      BY <2>3, <2>4 DEF Stamped, Taken
    <2>8. QED
      BY <2>5, <2>6, <2>7 DEF WholeInv
  <1>2. ASSUME BaseInv, BuiltInv, FitInv, LockInv, LockInv', WholeInv, [Next]_vars
        PROVE  WholeInv'
    <2>1. ASSUME NEW p \in Proc, Step(p)
          PROVE  WholeInv'
      <3>1. BaseInv' /\ SegOthers(p) /\ LocalOthers(p)
        BY <1>2, <2>1, BaseStep
      <3>2. Garbled'
        BY <1>2, <2>1, <3>1, GarbledStep DEF WholeInv
      <3>3. Claims'
        BY <1>2, <2>1, <3>1, ClaimsStep DEF WholeInv
      <3>4. Stamped'
        BY <1>2, <2>1, <3>1, StampedStep DEF WholeInv
      <3>5. Taken'
        BY <1>2, <2>1, <3>1, TakenStep DEF WholeInv
      <3>6. QED
        BY <3>2, <3>3, <3>4, <3>5 DEF WholeInv
    <2>2. CASE UNCHANGED vars
      <3>1. UNCHANGED <<shm, state_, mishap, infos, pc, then, index, stamp, home,
                        got, writes>>
        BY <2>2 DEF vars, segmentVars, notifierVars, transportVars
      <3>2. \A w, g, b : /\ At(w, g, b)' <=> At(w, g, b)
                         /\ Finishing(w, g, b)' <=> Finishing(w, g, b)
        BY <3>1 DEF At, Busy, Where, Finishing
      <3>3. Garbled'
        BY <1>2, <3>1, <3>2 DEF WholeInv, Garbled
      <3>4. \A g, b, t : /\ Claim(g, b, t)' <=> Claim(g, b, t)
                         /\ Good(g, b, t)' <=> Good(g, b, t)
        BY <3>1, <3>2 DEF Claim, Good
      <3>5. Claims'
        BY <1>2, <3>1, <3>4 DEF WholeInv, Claims
      <3>6. Stamped' /\ Taken'
        BY <1>2, <3>1 DEF WholeInv, Stamped, Taken
      <3>7. QED
        BY <3>3, <3>5, <3>6 DEF WholeInv
    <2>3. QED
      BY <1>2, <2>1, <2>2, Actors
  <1>3. QED
    BY <1>1, <1>2, BaseAlways, BuiltAlways, LockAlways, PTL DEF Spec

\* Listeners are handed whole messages only: the one that was announced, or
\* one written into its block afterwards.
THEOREM MessagesWhole == Spec => []WholeMessages
  <1>1. WholeInv => WholeMessages
    BY DEF WholeInv, Taken, WholeMessages
  <1>2. QED
    BY <1>1, WholeAlways, PTL
=============================================================================
