---------------------------- MODULE AtomicRWLock ----------------------------
(***************************************************************************)
(* base::AtomicRWLock (code/cyber/base/atomic_rw_lock.h): a spinning       *)
(* reader/writer lock made of two atomics.                                 *)
(*                                                                         *)
(*   lock_num_            -1 while a writer holds it, else the number of   *)
(*                        readers that hold it                             *)
(*   write_lock_wait_num_ writers inside WriteLock()                       *)
(*   write_first_         readers stand back while a writer waits          *)
(*                                                                         *)
(* Every atomic access of ReadLock() and WriteLock() is a step of its own, *)
(* since any other thread may run between two of them.  Both methods use   *)
(* compare_exchange_weak, which may fail although the values agree.        *)
(***************************************************************************)
EXTENDS Integers, FiniteSets

CONSTANTS
    Reader,        \* threads that take the lock through ReadLockGuard
    Writer,        \* threads that take the lock through WriteLockGuard
    write_first_   \* the constructor's argument

ASSUME ReaderWriterAssumption ==
    /\ IsFiniteSet(Reader)
    /\ IsFiniteSet(Writer)
    /\ Reader \cap Writer = {}
    /\ write_first_ \in BOOLEAN

RW_LOCK_FREE == 0
WRITE_EXCLUSIVE == -1

VARIABLES
    lock_num_,
    write_lock_wait_num_,
    pc,            \* where each thread is
    lock_num,      \* ReadLock()'s local copy of lock_num_
    behind         \* history: behind[w] is the set of readers that entered
                   \* ReadLock() after w announced itself, while w waits

vars == <<lock_num_, write_lock_wait_num_, pc, lock_num, behind>>

Thread == Reader \cup Writer

\* Writers that have announced themselves and do not hold the lock yet.
Waiting == {w \in Writer : pc[w] = "write_cas"}

\* Threads that hold the lock; "write_sub" is a writer whose exchange has
\* succeeded and that still has to take back its announcement.
Readers == {r \in Reader : pc[r] = "reading"}
Writers == {w \in Writer : pc[w] \in {"write_sub", "writing"}}

Init ==
    /\ lock_num_ = RW_LOCK_FREE
    /\ write_lock_wait_num_ = 0
    /\ pc = [t \in Thread |-> "idle"]
    /\ lock_num = [r \in Reader |-> 0]
    /\ behind = [w \in Writer |-> {}]

-----------------------------------------------------------------------------
(* ReadLock() and ReadUnlock().                                            *)

\* ReadLock() entered: the first load of lock_num_.
ReadLock(r) ==
    /\ pc[r] = "idle"
    /\ pc' = [pc EXCEPT ![r] = "read_test"]
    /\ lock_num' = [lock_num EXCEPT ![r] = lock_num_]
    /\ behind' = [w \in Writer |->
                    IF w \in Waiting THEN behind[w] \cup {r} ELSE behind[w]]
    /\ UNCHANGED <<lock_num_, write_lock_wait_num_>>

\* A reader that looks at lock_num_ alone.
ReaderHeldOff_IgnoresWaiters(r) == lock_num[r] < RW_LOCK_FREE

\* What keeps a reader in its inner while loop.
ReaderHeldOff(r) ==
    \/ lock_num[r] < RW_LOCK_FREE
    \/ write_first_ /\ write_lock_wait_num_ > 0

\* The test of the inner loop; a reader that is held off loads again.
ReadTest(r) ==
    /\ pc[r] = "read_test"
    /\ IF ReaderHeldOff(r)
         THEN lock_num' = [lock_num EXCEPT ![r] = lock_num_] /\ pc' = pc
         ELSE pc' = [pc EXCEPT ![r] = "read_cas"] /\ lock_num' = lock_num
    /\ UNCHANGED <<lock_num_, write_lock_wait_num_, behind>>

\* A reader that stores the incremented copy instead of exchanging it.
ReadCasOk_BlindStore(r) ==
    /\ pc[r] = "read_cas"
    /\ lock_num_' = lock_num[r] + 1
    /\ pc' = [pc EXCEPT ![r] = "reading"]
    /\ UNCHANGED <<write_lock_wait_num_, lock_num, behind>>

ReadCasOk(r) ==
    /\ pc[r] = "read_cas"
    /\ lock_num_ = lock_num[r]
    /\ lock_num_' = lock_num[r] + 1
    /\ pc' = [pc EXCEPT ![r] = "reading"]
    /\ UNCHANGED <<write_lock_wait_num_, lock_num, behind>>

\* The exchange failed, rightly or spuriously: lock_num holds what it saw.
ReadCasFail(r) ==
    /\ pc[r] = "read_cas"
    /\ lock_num' = [lock_num EXCEPT ![r] = lock_num_]
    /\ pc' = [pc EXCEPT ![r] = "read_test"]
    /\ UNCHANGED <<lock_num_, write_lock_wait_num_, behind>>

ReadUnlock(r) ==
    /\ pc[r] = "reading"
    /\ lock_num_' = lock_num_ - 1
    /\ pc' = [pc EXCEPT ![r] = "idle"]
    /\ behind' = [w \in Writer |-> behind[w] \ {r}]
    /\ UNCHANGED <<write_lock_wait_num_, lock_num>>

-----------------------------------------------------------------------------
(* WriteLock() and WriteUnlock().  A failed exchange of WriteLock() changes *)
(* nothing, since the expected value is set to RW_LOCK_FREE again.          *)

WriteLock(w) ==
    /\ pc[w] = "idle"
    /\ write_lock_wait_num_' = write_lock_wait_num_ + 1
    /\ pc' = [pc EXCEPT ![w] = "write_cas"]
    /\ UNCHANGED <<lock_num_, lock_num, behind>>

WriteCasOk(w) ==
    /\ pc[w] = "write_cas"
    /\ lock_num_ = RW_LOCK_FREE
    /\ lock_num_' = WRITE_EXCLUSIVE
    /\ pc' = [pc EXCEPT ![w] = "write_sub"]
    /\ behind' = [behind EXCEPT ![w] = {}]
    /\ UNCHANGED <<write_lock_wait_num_, lock_num>>

\* A writer that forgets to take back its announcement.
WriteSub_Forgotten(w) ==
    /\ pc[w] = "write_sub"
    /\ pc' = [pc EXCEPT ![w] = "writing"]
    /\ UNCHANGED <<lock_num_, write_lock_wait_num_, lock_num, behind>>

WriteSub(w) ==
    /\ pc[w] = "write_sub"
    /\ write_lock_wait_num_' = write_lock_wait_num_ - 1
    /\ pc' = [pc EXCEPT ![w] = "writing"]
    /\ UNCHANGED <<lock_num_, lock_num, behind>>

WriteUnlock(w) ==
    /\ pc[w] = "writing"
    /\ lock_num_' = lock_num_ + 1
    /\ pc' = [pc EXCEPT ![w] = "idle"]
    /\ UNCHANGED <<write_lock_wait_num_, lock_num, behind>>

-----------------------------------------------------------------------------
ReaderStep(r) ==
    \/ ReadLock(r)
    \/ ReadTest(r)
    \/ ReadCasOk(r)
    \/ ReadCasFail(r)
    \/ ReadUnlock(r)

WriterStep(w) ==
    \/ WriteLock(w)
    \/ WriteCasOk(w)
    \/ WriteSub(w)
    \/ WriteUnlock(w)

Next == \/ \E r \in Reader : ReaderStep(r)
        \/ \E w \in Writer : WriterStep(w)

Spec == Init /\ [][Next]_vars

\* A thread inside a method of the lock, or inside the critical section the
\* guard protects, keeps running; nobody has to ask for the lock.
Fairness ==
    /\ \A r \in Reader : /\ WF_vars(ReadTest(r))
                         /\ WF_vars(ReadCasOk(r) \/ ReadCasFail(r))
                         /\ WF_vars(ReadUnlock(r))
    /\ \A w \in Writer : /\ WF_vars(WriteCasOk(w))
                         /\ WF_vars(WriteSub(w))
                         /\ WF_vars(WriteUnlock(w))

FairSpec == Spec /\ Fairness

-----------------------------------------------------------------------------
(* Properties.                                                             *)

\* The counters stay in range: nothing is released that is not held.
TypeOK ==
    /\ lock_num_ \in Nat \cup {WRITE_EXCLUSIVE}
    /\ write_lock_wait_num_ \in Nat
    /\ pc \in [Thread -> {"idle", "read_test", "read_cas", "reading",
                          "write_cas", "write_sub", "writing"}]
    /\ \A r \in Reader : pc[r] \in {"idle", "read_test", "read_cas", "reading"}
    /\ \A w \in Writer : pc[w] \in {"idle", "write_cas", "write_sub", "writing"}
    /\ lock_num \in [Reader -> Nat \cup {WRITE_EXCLUSIVE}]
    /\ behind \in [Writer -> SUBSET Reader]

\* Mutual exclusion of ReadLock() and WriteLock(): a writer that holds the
\* lock holds it alone, whatever stale copy of lock_num_ a reader exchanges.
MutualExclusion ==
    \A w \in Writers : Writers = {w} /\ Readers = {}

\* The two counters say what the threads have done: lock_num_ is the number
\* of readers or marks the one writer, and write_lock_wait_num_ counts the
\* writers inside WriteLock().  An announcement that is not taken back would
\* keep every reader out for good.
CountersExact ==
    /\ lock_num_ = IF Writers # {} THEN WRITE_EXCLUSIVE
                                  ELSE Cardinality(Readers)
    /\ write_lock_wait_num_ =
         Cardinality({w \in Writer : pc[w] \in {"write_cas", "write_sub"}})

\* write_first_: a reader that calls ReadLock() after a writer announced
\* itself in WriteLock() never gets the lock before that writer does.
NotOvertaken ==
    write_first_ => \A w \in Waiting : behind[w] \cap Readers = {}

\* Readers that come and go cannot keep the writers out: with write_first_,
\* when writers wait in WriteLock() one of them gets the lock.  Which one is
\* not promised: two writers may keep a third waiting.
WriterGetsLock ==
    (\E w \in Writer : pc[w] = "write_cas") ~> Writers # {}
=============================================================================
