-------------------------- MODULE AtomicRWLockProofs --------------------------
(***************************************************************************)
(* Proofs about AtomicRWLock for every finite set of readers and writers   *)
(* and both values of write_first_.                                        *)
(*                                                                         *)
(* MutualExclusion is not inductive: a reader may hold a stale copy of     *)
(* lock_num_ and exchange it much later.  What makes the exchange safe is  *)
(* that lock_num_ always says who holds the lock (CountersExact), so IInv  *)
(* carries both, with the fact that a reader at its exchange has a copy    *)
(* that is not negative.  NotOvertaken needs in addition that a reader at  *)
(* its exchange was let through before any writer it is behind announced   *)
(* itself.                                                                 *)
(***************************************************************************)
EXTENDS AtomicRWLock, FiniteSetTheorems, TLAPS

Announced == {w \in Writer : pc[w] \in {"write_cas", "write_sub"}}

\* A reader past its test saw no writer.
CopyNotNegative == \A r \in Reader : pc[r] = "read_cas" => lock_num[r] >= 0

IInv == TypeOK /\ MutualExclusion /\ CountersExact /\ CopyNotNegative

\* The sets that the two counters of the lock count are finite.
LEMMA FiniteHolders ==
    /\ IsFiniteSet(Readers)
    /\ IsFiniteSet(Announced)
    /\ Cardinality(Readers) \in Nat
    /\ Cardinality(Announced) \in Nat
<1>1. Readers \in SUBSET Reader /\ Announced \in SUBSET Writer
  BY DEF Readers, Announced
<1>2. IsFiniteSet(Readers) /\ IsFiniteSet(Announced)
  BY <1>1, FS_Subset, ReaderWriterAssumption
<1> QED
  BY <1>2, FS_CardinalityType

\* A new lock has no holder.
LEMMA InitIInv == Init => IInv
<1> SUFFICES ASSUME Init PROVE IInv
  OBVIOUS
<1>1. Readers = {} /\ Writers = {} /\ Announced = {}
  BY DEF Init, Readers, Writers, Announced, Thread
<1>2. TypeOK
  BY DEF Init, TypeOK, Thread, RW_LOCK_FREE
<1>3. CountersExact
  BY <1>1, FS_EmptySet DEF Init, CountersExact, Announced, RW_LOCK_FREE
<1>4. MutualExclusion /\ CopyNotNegative
  BY <1>1 DEF Init, MutualExclusion, CopyNotNegative, Thread
<1> QED
  BY <1>2, <1>3, <1>4 DEF IInv

\* Every step of the lock keeps its counter equal to its holders.
LEMMA NextIInv == IInv /\ [Next]_vars => IInv'
<1> SUFFICES ASSUME IInv, [Next]_vars PROVE IInv'
  OBVIOUS
<1> USE DEF IInv
<1>f. /\ IsFiniteSet(Readers)
      /\ IsFiniteSet(Announced)
      /\ Cardinality(Readers) \in Nat
      /\ Cardinality(Announced) \in Nat
  BY FiniteHolders
<1>c. /\ lock_num_ = IF Writers # {} THEN -1 ELSE Cardinality(Readers)
      /\ write_lock_wait_num_ = Cardinality(Announced)
  BY DEF CountersExact, Announced, WRITE_EXCLUSIVE
<1>d. \A r \in Reader, w \in Writer : r # w
  BY ReaderWriterAssumption
<1>1. ASSUME NEW r \in Reader, ReadLock(r) \/ ReadTest(r) \/ ReadCasFail(r)
      PROVE IInv'
  <2>1. TypeOK'
    <3>1. CASE ReadLock(r)
      BY <3>1, <1>d DEF TypeOK, ReadLock, Thread
    <3>2. CASE ReadTest(r)
      BY <3>2, <1>d DEF TypeOK, ReadTest, Thread
    <3>3. CASE ReadCasFail(r)
      BY <3>3, <1>d DEF TypeOK, ReadCasFail, Thread
    <3> QED BY <1>1, <3>1, <3>2, <3>3
  <2>2. Readers' = Readers /\ Writers' = Writers /\ Announced' = Announced
    BY <1>1, <1>d DEF TypeOK, ReadLock, ReadTest, ReadCasFail, Readers, Writers, Announced, Thread
  <2>3. CountersExact'
    <3>1. lock_num_' = lock_num_ /\ write_lock_wait_num_' = write_lock_wait_num_
      BY <1>1 DEF ReadLock, ReadTest, ReadCasFail
    <3> QED BY <3>1, <2>2, <1>c DEF CountersExact, Announced, WRITE_EXCLUSIVE
  <2>4. MutualExclusion'
    BY <2>2 DEF MutualExclusion
  <2>5. CopyNotNegative'
    BY <1>1 DEF TypeOK, CopyNotNegative, ReadLock, ReadTest, ReadCasFail,
                ReaderHeldOff, RW_LOCK_FREE, WRITE_EXCLUSIVE, Thread
  <2> QED BY <2>1, <2>3, <2>4, <2>5
<1>2. ASSUME NEW r \in Reader, ReadCasOk(r) PROVE IInv'
  <2>1. lock_num_ = lock_num[r] /\ lock_num_ >= 0 /\ lock_num_' = lock_num_ + 1
    BY <1>2 DEF ReadCasOk, CopyNotNegative
  <2>2. Writers = {} /\ lock_num_ = Cardinality(Readers)
    BY <2>1, <1>c, <1>f
  <2>3. Readers' = Readers \cup {r} /\ r \notin Readers
    BY <1>2 DEF ReadCasOk, Readers, TypeOK, Thread
  <2>4. Writers' = Writers /\ Announced' = Announced
    BY <1>2, <1>d DEF ReadCasOk, Writers, Announced, TypeOK, Thread
  <2>5. Cardinality(Readers') = Cardinality(Readers) + 1
    BY <2>3, <1>f, FS_AddElement
  <2>6. CountersExact'
    <3>1. write_lock_wait_num_' = write_lock_wait_num_
      BY <1>2 DEF ReadCasOk
    <3> QED BY <3>1, <2>1, <2>2, <2>4, <2>5, <1>c DEF CountersExact, Announced, WRITE_EXCLUSIVE
  <2>7. TypeOK'
    BY <1>2, <2>1, <1>f, <2>2 DEF ReadCasOk, TypeOK, Thread, WRITE_EXCLUSIVE
  <2>8. MutualExclusion' /\ CopyNotNegative'
    BY <1>2, <2>2, <2>4 DEF ReadCasOk, MutualExclusion, CopyNotNegative, TypeOK, Thread
  <2> QED BY <2>6, <2>7, <2>8
<1>3. ASSUME NEW r \in Reader, ReadUnlock(r) PROVE IInv'
  <2>1. r \in Readers
    BY <1>3 DEF ReadUnlock, Readers
  <2>2. Writers = {}
    BY <2>1 DEF MutualExclusion
  <2>3. Readers' = Readers \ {r}
    BY <1>3 DEF ReadUnlock, Readers, TypeOK, Thread
  <2>4. Writers' = Writers /\ Announced' = Announced
    BY <1>3, <1>d DEF ReadUnlock, Writers, Announced, TypeOK, Thread
  <2>5. Cardinality(Readers') = Cardinality(Readers) - 1
        /\ Cardinality(Readers') \in Nat
    BY <2>1, <2>3, <1>f, FS_RemoveElement, FS_CardinalityType
  <2>6. lock_num_' = Cardinality(Readers')
    BY <1>3, <2>2, <2>5, <1>c DEF ReadUnlock
  <2>7. CountersExact'
    <3>1. write_lock_wait_num_' = write_lock_wait_num_
      BY <1>3 DEF ReadUnlock
    <3> QED BY <3>1, <2>2, <2>4, <2>6, <1>c DEF CountersExact, Announced
  <2>8. TypeOK'
    BY <1>3, <2>5, <2>6 DEF ReadUnlock, TypeOK, Thread
  <2>9. MutualExclusion' /\ CopyNotNegative'
    BY <1>3, <2>2, <2>4 DEF ReadUnlock, MutualExclusion, CopyNotNegative, TypeOK, Thread
  <2> QED BY <2>7, <2>8, <2>9
<1>4. ASSUME NEW w \in Writer, WriteLock(w) PROVE IInv'
  <2>1. Announced' = Announced \cup {w} /\ w \notin Announced
    BY <1>4 DEF WriteLock, Announced, TypeOK, Thread
  <2>2. Writers' = Writers /\ Readers' = Readers
    BY <1>4, <1>d DEF WriteLock, Writers, Readers, TypeOK, Thread
  <2>3. Cardinality(Announced') = Cardinality(Announced) + 1
    BY <2>1, <1>f, FS_AddElement
  <2>4. CountersExact'
    BY <1>4, <2>2, <2>3, <1>c DEF WriteLock, CountersExact, Announced, WRITE_EXCLUSIVE
  <2>5. TypeOK'
    BY <1>4, <1>d DEF WriteLock, TypeOK, Thread
  <2>6. MutualExclusion' /\ CopyNotNegative'
    BY <1>4, <1>d, <2>2 DEF WriteLock, MutualExclusion, CopyNotNegative, TypeOK, Thread
  <2> QED BY <2>4, <2>5, <2>6
<1>5. ASSUME NEW w \in Writer, WriteCasOk(w) PROVE IInv'
  <2>1. Writers = {} /\ Cardinality(Readers) = 0
    BY <1>5, <1>c, <1>f DEF WriteCasOk, RW_LOCK_FREE
  <2>2. Readers = {}
    BY <2>1, <1>f, FS_EmptySet
  <2>3. Writers' = {w} /\ Readers' = {} /\ Announced' = Announced
    BY <1>5, <1>d, <2>1, <2>2 DEF WriteCasOk, Writers, Readers, Announced, TypeOK, Thread
  <2>4. CountersExact'
    BY <1>5, <2>3, <1>c DEF WriteCasOk, CountersExact, Announced, WRITE_EXCLUSIVE
  <2>5. TypeOK'
    BY <1>5, <1>d DEF WriteCasOk, TypeOK, Thread, WRITE_EXCLUSIVE
  <2>6. MutualExclusion' /\ CopyNotNegative'
    BY <1>5, <1>d, <2>3 DEF WriteCasOk, MutualExclusion, CopyNotNegative, TypeOK, Thread
  <2> QED BY <2>4, <2>5, <2>6
<1>6. ASSUME NEW w \in Writer, WriteSub(w) PROVE IInv'
  <2>1. w \in Announced /\ Announced' = Announced \ {w}
    BY <1>6 DEF WriteSub, Announced, TypeOK, Thread
  <2>2. Writers' = Writers /\ Readers' = Readers
    BY <1>6, <1>d DEF WriteSub, Writers, Readers, TypeOK, Thread
  <2>3. Cardinality(Announced') = Cardinality(Announced) - 1
        /\ Cardinality(Announced') \in Nat
    BY <2>1, <1>f, FS_RemoveElement, FS_CardinalityType
  <2>4. CountersExact'
    BY <1>6, <2>2, <2>3, <1>c DEF WriteSub, CountersExact, Announced, WRITE_EXCLUSIVE
  <2>5. TypeOK'
    BY <1>6, <1>d, <1>c, <2>3 DEF WriteSub, TypeOK, Thread
  <2>6. MutualExclusion' /\ CopyNotNegative'
    BY <1>6, <1>d, <2>2 DEF WriteSub, MutualExclusion, CopyNotNegative, TypeOK, Thread
  <2> QED BY <2>4, <2>5, <2>6
<1>7. ASSUME NEW w \in Writer, WriteUnlock(w) PROVE IInv'
  <2>1. Writers = {w} /\ Readers = {}
    BY <1>7 DEF WriteUnlock, MutualExclusion, Writers
  <2>2. Writers' = {} /\ Readers' = {} /\ Announced' = Announced
    BY <1>7, <1>d, <2>1 DEF WriteUnlock, Writers, Readers, Announced, TypeOK, Thread
  <2>3. lock_num_' = 0 /\ Cardinality(Readers') = 0
    BY <1>7, <1>c, <2>1, <2>2, FS_EmptySet DEF WriteUnlock
  <2>4. CountersExact'
    BY <1>7, <2>2, <2>3, <1>c DEF WriteUnlock, CountersExact, Announced
  <2>5. TypeOK'
    BY <1>7, <1>d, <2>3 DEF WriteUnlock, TypeOK, Thread
  <2>6. MutualExclusion' /\ CopyNotNegative'
    BY <1>7, <1>d, <2>2 DEF WriteUnlock, MutualExclusion, CopyNotNegative, TypeOK, Thread
  <2> QED BY <2>4, <2>5, <2>6
<1>8. CASE UNCHANGED vars
  BY <1>8 DEF vars, TypeOK, MutualExclusion, CountersExact, CopyNotNegative,
              Readers, Writers, Thread
<1> QED
  BY <1>1, <1>2, <1>3, <1>4, <1>5, <1>6, <1>7, <1>8
     DEF Next, ReaderStep, WriterStep

-----------------------------------------------------------------------------
(* NotOvertaken.  A reader that is behind a waiting writer cannot even be at *)
(* its exchange: the announcement it came after still counts.                *)

HeldBack ==
    /\ \A w \in Writer : w \notin Waiting => behind[w] = {}
    /\ write_first_ =>
         \A w \in Waiting : \A r \in behind[w] : pc[r] = "read_test"

\* Nobody waits when the lock is built.
LEMMA InitHeldBack == Init => HeldBack
BY DEF Init, HeldBack, Waiting, Thread

\* Every step keeps the readers behind a waiting writer at their test.
LEMMA NextHeldBack == IInv /\ HeldBack /\ [Next]_vars => HeldBack'
<1> SUFFICES ASSUME IInv, HeldBack, [Next]_vars PROVE HeldBack'
  OBVIOUS
<1>t. TypeOK /\ write_lock_wait_num_ = Cardinality(Announced)
  BY DEF IInv, CountersExact, Announced
<1>d. \A r \in Reader, w \in Writer : r # w
  BY ReaderWriterAssumption
<1>1. ASSUME NEW r \in Reader, ReadLock(r) PROVE HeldBack'
  BY <1>1, <1>t, <1>d DEF ReadLock, HeldBack, Waiting, TypeOK, Thread
<1>2. ASSUME NEW r \in Reader, ReadTest(r) PROVE HeldBack'
  <2>1. CASE Waiting = {}
    BY <1>2, <1>t, <1>d, <2>1 DEF ReadTest, HeldBack, Waiting, TypeOK, Thread
  <2>2. CASE Waiting # {} /\ write_first_
    <3>1. Announced # {}
      BY <2>2 DEF Waiting, Announced
    <3>2. write_lock_wait_num_ > 0
      BY <3>1, <1>t, FiniteHolders, FS_EmptySet
    <3>3. pc' = pc /\ behind' = behind
      BY <1>2, <2>2, <3>2 DEF ReadTest, ReaderHeldOff
    <3> QED BY <3>3 DEF HeldBack, Waiting
  <2>3. CASE ~write_first_
    BY <1>2, <1>t, <1>d, <2>3 DEF ReadTest, HeldBack, Waiting, TypeOK, Thread
  <2> QED BY <2>1, <2>2, <2>3
<1>3. ASSUME NEW r \in Reader, ReadCasOk(r) \/ ReadCasFail(r) PROVE HeldBack'
  BY <1>3, <1>t, <1>d DEF ReadCasOk, ReadCasFail, HeldBack, Waiting, TypeOK, Thread
<1>4. ASSUME NEW r \in Reader, ReadUnlock(r) PROVE HeldBack'
  BY <1>4, <1>t, <1>d DEF ReadUnlock, HeldBack, Waiting, TypeOK, Thread
<1>5. ASSUME NEW w \in Writer, WriteLock(w) PROVE HeldBack'
  BY <1>5, <1>t, <1>d DEF WriteLock, HeldBack, Waiting, TypeOK, Thread
<1>6. ASSUME NEW w \in Writer, WriteCasOk(w) PROVE HeldBack'
  BY <1>6, <1>t, <1>d DEF WriteCasOk, HeldBack, Waiting, TypeOK, Thread
<1>7. ASSUME NEW w \in Writer, WriteSub(w) \/ WriteUnlock(w) PROVE HeldBack'
  BY <1>7, <1>t, <1>d DEF WriteSub, WriteUnlock, HeldBack, Waiting, TypeOK, Thread
<1>8. CASE UNCHANGED vars
  BY <1>8 DEF vars, HeldBack, Waiting
<1> QED
  BY <1>1, <1>2, <1>3, <1>4, <1>5, <1>6, <1>7, <1>8
     DEF Next, ReaderStep, WriterStep

-----------------------------------------------------------------------------
(* ReadLock() and WriteLock() exclude each other, for any number of threads. *)
THEOREM LockIsExclusive == Spec => []MutualExclusion
<1>1. IInv => MutualExclusion
  BY DEF IInv
<1> QED
  BY InitIInv, NextIInv, <1>1, PTL DEF Spec

(* lock_num_ and write_lock_wait_num_ always count the threads they stand   *)
(* for, so neither a reader nor an announcement is ever left behind.        *)
THEOREM LockCountersExact == Spec => [](TypeOK /\ CountersExact)
<1>1. IInv => TypeOK /\ CountersExact
  BY DEF IInv
<1> QED
  BY InitIInv, NextIInv, <1>1, PTL DEF Spec

(* With write_first_, a reader that came after a waiting writer's           *)
(* announcement never gets the lock before it.                              *)
THEOREM WriterNotOvertaken == Spec => []NotOvertaken
<1>1. IInv /\ HeldBack => NotOvertaken
  BY DEF IInv, TypeOK, HeldBack, NotOvertaken, Readers, Waiting
<1> QED
  BY InitIInv, NextIInv, InitHeldBack, NextHeldBack, <1>1, PTL DEF Spec
=============================================================================
