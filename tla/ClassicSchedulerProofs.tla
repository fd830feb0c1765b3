------------------------ MODULE ClassicSchedulerProofs ------------------------
(***************************************************************************)
(* Proofs about ClassicScheduler: that a routine is never held by two      *)
(* processors, that the registry of ids and the run queues agree, that a   *)
(* removed routine is idle, and that no wake-up is lost.                   *)
(*                                                                         *)
(* The invariants are proved in layers, each from those before it:         *)
(*   TypeInv       types, with the places of every thread;                 *)
(*   HoldInv       what a processor holds is locked, and by it alone;      *)
(*   MutexInv      who is inside a critical section of an id;              *)
(*   QueueInv      what is queued, registered and being removed;           *)
(*   WakeInv       who will look at a message that has not been read.      *)
(***************************************************************************)
EXTENDS ClassicScheduler, NaturalsInduction, WellFoundedInduction, TLAPS

PLabel == {"loop", "exit", "wait", "level", "scan", "update", "skip", "resume",
           "release", "body", "fetch", "call"}
CLabel == {"new", "failed", "mutex", "insert", "enqueue", "notify", "register",
           "created"}
NLabel == {"idle", "filled", "state", "flag", "count"}
RLabel == {"idle", "done", "mutex", "erase", "rqlock", "acquire", "contexts",
           "list"}

State == {"READY", "FINISHED", "SLEEP", "IO_WAIT", "DATA_WAIT"}
HoldingAt == {"update", "skip", "resume", "release", "body", "fetch", "call"}
Using == {"mutex", "erase", "rqlock", "acquire"}

\* The places of the threads, and what their locals may hold.
Labels ==
    /\ ppc \in [Proc -> PLabel] /\ cpc \in [CRoutine -> CLabel]
    /\ npc \in [Source -> NLabel] /\ rpc \in [Rem -> RLabel]
    /\ rid \in [Rem -> Id \cup {None}] /\ removed \subseteq CRoutine
    /\ \A s \in Source : npc[s] \in {"state", "flag"} => target[s] \in CRoutine
    /\ \A r \in Rem : rpc[r] \in Using => rid[r] \in Id
    /\ \A r \in Rem : rpc[r] \in {"rqlock", "acquire"} => victim[r] \in CRoutine

TypeInv == TypeOK /\ Labels

\* A processor holds the lock of its routine, and no other processor has it.
HoldInv ==
    /\ \A p \in Proc : Holding(p) => cur[p] \in CRoutine /\ lock_[cur[p]]
    /\ RunExclusive

Dispatching(cr) == cpc[cr] \in {"insert", "enqueue", "notify"}
Removing(r) == rpc[r] \in {"erase", "rqlock", "acquire"}

\* Whoever adds or removes an id holds the id's mutex.
MutexInv ==
    /\ \A cr \in CRoutine : Dispatching(cr) => id_mutex[IdOf[cr]] = cr
    /\ \A r \in Rem : Removing(r) => id_mutex[rid[r]] = r

Entered == {"notify", "register", "created"}
Erased(r) == rpc[r] \in {"rqlock", "acquire"}

\* The routines in the run queue of a level, and that none is there twice.
In(i) == {multi_pri_rq_[i][k] : k \in 1 .. Len(multi_pri_rq_[i])}
NoTwins(q) == \A k, l \in 1 .. Len(q) : q[k] = q[l] => k = l

\* What is in a run queue has been put there, at the level of its priority,
\* once, and has not been removed.
QueuedOnce ==
    /\ \A i \in Prio : \A cr \in In(i) :
         PrioOf[cr] = i /\ cpc[cr] \in Entered /\ cr \notin removed
    /\ \A i \in Prio : NoTwins(multi_pri_rq_[i])
    /\ \A cr \in removed : cpc[cr] \in Entered

\* What is queued, or about to be, is registered; or somebody is about to
\* remove it.
QueuedIsKnown ==
    /\ \A i \in Prio : \A cr \in In(i) :
         \/ id_cr_[IdOf[cr]] = cr
         \/ \E r \in Rem : Erased(r) /\ rid[r] = IdOf[cr] /\ victim[r] = cr
    /\ \A cr \in CRoutine : cpc[cr] = "enqueue" => id_cr_[IdOf[cr]] = cr

\* What is registered, and what is being removed, is queued.
KnownIsQueued ==
    /\ \A id \in Id : id_cr_[id] # None =>
         /\ IdOf[id_cr_[id]] = id
         /\ id_cr_[id] \in In(PrioOf[id_cr_[id]]) \/ cpc[id_cr_[id]] = "enqueue"
    /\ \A r \in Rem : Erased(r) =>
         /\ IdOf[victim[r]] = rid[r]
         /\ id_cr_[rid[r]] = None
         /\ victim[r] \in In(PrioOf[victim[r]])

QueueInv == QueuedOnce /\ QueuedIsKnown /\ KnownIsQueued

\* A task that was created and not stopped is registered, and its callback
\* is known only then.
RegInv ==
    \A cr \in CRoutine :
      /\ cpc[cr] \in {"enqueue"} \cup Entered /\ ~force_stop_[cr]
           => id_cr_[IdOf[cr]] = cr
      /\ registered[cr] => cpc[cr] = "created"

\* Who will look at the messages of a routine: somebody who raises its flag,
\* the routine itself when it is run again, or the processor that runs it.
Handled(cr) ==
    \/ Awaited(cr)
    \/ state_[cr] # "DATA_WAIT"
    \/ \E p \in Proc : cur[p] = cr /\ ppc[p] \in {"fetch", "call"}

WakeInv ==
    /\ \A s \in Source : npc[s] = "filled" => registered[Feeds[s]]
    /\ \A cr \in CRoutine :
         unread[cr] > 0 /\ ~stop_ /\ ~force_stop_[cr] => Handled(cr)

-----------------------------------------------------------------------------
(* Types.                                                                  *)

\* The id of a routine.
LEMMA IdType == \A cr \in CRoutine : IdOf[cr] \in Id
  BY DEF Id

\* The levels are the numbers up to the highest one.
LEMMA PrioFacts ==
    /\ Prio \subseteq Nat /\ 0 \in Prio /\ MaxPrio \in Prio
    /\ \A i \in Prio : i # 0 => i - 1 \in Prio
  <1>1. PICK n \in Nat : Prio = 0 .. n
    BY SchedulerAssumption
  <1>2. \E i \in Prio : \A j \in Prio : j <= i
    BY <1>1
  <1>3. MaxPrio \in Prio
    BY <1>2 DEF MaxPrio
  <1>4. QED
    BY <1>1, <1>3

\* A set of natural numbers has a least element.
LEMMA LeastNat ==
    ASSUME NEW T, T \subseteq Nat, T # {}
    PROVE  \E x \in T : \A y \in T : x <= y
  <1> DEFINE Less == OpToRel(<, Nat)
  <1>1. IsWellFoundedOn(Less, Nat)
    BY NatLessThanWellFounded
  <1>2. \A x, y \in Nat : y < x => <<y, x>> \in Less
    BY DEF OpToRel
  <1> HIDE DEF Less
  <1>3. PICK x \in T : \A y \in T : ~(<<y, x>> \in Less)
    BY <1>1, WFMin
  <1>4. \A y \in T : ~(y < x)
    BY <1>2, <1>3
  <1>5. QED
    BY <1>4

\* The first place of an id that is queued.
LEMMA FirstPlace ==
    ASSUME NEW q \in Seq(CRoutine), NEW id,
           \E k \in 1 .. Len(q) : IdOf[q[k]] = id
    PROVE  FirstWithId(q, id) \in 1 .. Len(q) /\ IdOf[q[FirstWithId(q, id)]] = id
  <1> DEFINE T == {k \in 1 .. Len(q) : IdOf[q[k]] = id}
  <1>1. PICK x \in T : \A y \in T : x <= y
    <2>1. T # {} /\ T \subseteq Nat
      OBVIOUS
    <2>2. QED
      BY <2>1, LeastNat
  <1>2. x \in 1 .. Len(q) /\ IdOf[q[x]] = id
    OBVIOUS
  <1>3. \A l \in 1 .. x - 1 : IdOf[q[l]] # id
    BY <1>1, <1>2
  <1>4. QED
    BY <1>2, <1>3 DEF FirstWithId

\* What erasing one place of a sequence leaves.
LEMMA RemoveAtFacts ==
    ASSUME NEW S, NEW q \in Seq(S), NEW k \in 1 .. Len(q)
    PROVE  /\ RemoveAt(q, k) \in Seq(S)
           /\ Len(RemoveAt(q, k)) = Len(q) - 1
           /\ \A j \in 1 .. Len(q) - 1 :
                RemoveAt(q, k)[j] = IF j < k THEN q[j] ELSE q[j + 1]
  <1> DEFINE l == SubSeq(q, 1, k - 1)
             m == SubSeq(q, k + 1, Len(q))
  <1>1. /\ l \in Seq(S) /\ Len(l) = k - 1
        /\ \A j \in 1 .. k - 1 : l[j] = q[j]
    OBVIOUS
  <1>2. /\ m \in Seq(S) /\ Len(m) = Len(q) - k
        /\ \A j \in 1 .. Len(q) - k : m[j] = q[k + j]
    OBVIOUS
  <1>3. RemoveAt(q, k) = l \o m
    BY DEF RemoveAt
  <1> HIDE DEF l, m
  <1>4. /\ l \o m \in Seq(S) /\ Len(l \o m) = Len(q) - 1
        /\ \A j \in 1 .. Len(q) - 1 :
             (l \o m)[j] = IF j <= k - 1 THEN l[j] ELSE m[j - (k - 1)]
    BY <1>1, <1>2
  <1>5. ASSUME NEW j \in 1 .. Len(q) - 1
        PROVE  (l \o m)[j] = IF j < k THEN q[j] ELSE q[j + 1]
    <2>1. CASE j < k
      BY <2>1, <1>1, <1>4
    <2>2. CASE j >= k
      <3>1. j - (k - 1) \in 1 .. Len(q) - k /\ k + (j - (k - 1)) = j + 1
        BY <2>2
      <3>2. (l \o m)[j] = m[j - (k - 1)]
        BY <2>2, <1>4
      <3>3. QED
        BY <3>1, <3>2, <1>2, <2>2
    <2>3. j < k \/ j >= k
      OBVIOUS
    <2>4. QED
      BY <2>1, <2>2, <2>3
  <1>6. QED
    BY <1>3, <1>4, <1>5

\* Types are preserved.  The erasing of a routine's place needs to know that
\* there is one.
LEMMA TypeStep == TypeInv /\ KnownIsQueued /\ [Next]_vars => TypeInv'
  <1> SUFFICES ASSUME TypeInv, KnownIsQueued, [Next]_vars PROVE TypeInv'
    OBVIOUS
  <1>state. state_ \in [CRoutine -> State]
    BY DEF TypeInv, TypeOK, Labels, State
  <1>lock. lock_ \in [CRoutine -> BOOLEAN]
    BY DEF TypeInv, TypeOK, Labels, State
  <1>updated. updated_ \in [CRoutine -> BOOLEAN]
    BY DEF TypeInv, TypeOK, Labels, State
  <1>forcestop. force_stop_ \in [CRoutine -> BOOLEAN]
    BY DEF TypeInv, TypeOK, Labels, State
  <1>due. due \in [CRoutine -> BOOLEAN]
    BY DEF TypeInv, TypeOK, Labels, State
  <1>inCallback. inCallback \in [CRoutine -> BOOLEAN]
    BY DEF TypeInv, TypeOK, Labels, State
  <1>idcr. id_cr_ \in [Id -> CRoutine \cup {None}]
    BY DEF TypeInv, TypeOK, Labels, State
  <1>idmutex. id_mutex \in [Id -> CRoutine \cup Rem \cup {None}]
    BY DEF TypeInv, TypeOK, Labels, State
  <1>multiprirq. multi_pri_rq_ \in [Prio -> Seq(CRoutine)]
    BY DEF TypeInv, TypeOK, Labels, State
  <1>rqwriter. rq_writer \in [Prio -> Rem \cup {None}]
    BY DEF TypeInv, TypeOK, Labels, State
  <1>notifygrp. notify_grp_ \in Nat
    BY DEF TypeInv, TypeOK, Labels, State
  <1>stop. stop_ \in BOOLEAN
    BY DEF TypeInv, TypeOK, Labels, State
  <1>ctxstop. ctx_stop \in SUBSET Proc
    BY DEF TypeInv, TypeOK, Labels, State
  <1>running. running_ \in SUBSET Proc
    BY DEF TypeInv, TypeOK, Labels, State
  <1>unread. unread \in [CRoutine -> Nat]
    BY DEF TypeInv, TypeOK, Labels, State
  <1>registered. registered \in [CRoutine -> BOOLEAN]
    BY DEF TypeInv, TypeOK, Labels, State
  <1>sent. sent \in [Source -> 0 .. MaxMsg]
    BY DEF TypeInv, TypeOK, Labels, State
  <1>ppc. ppc \in [Proc -> PLabel]
    BY DEF TypeInv, TypeOK, Labels, State
  <1>cur. cur \in [Proc -> CRoutine \cup {None}]
    BY DEF TypeInv, TypeOK, Labels, State
  <1>pri. pri \in [Proc -> Prio]
    BY DEF TypeInv, TypeOK, Labels, State
  <1>idx. idx \in [Proc -> Nat \ {0}]
    BY DEF TypeInv, TypeOK, Labels, State
  <1>cpc. cpc \in [CRoutine -> CLabel]
    BY DEF TypeInv, TypeOK, Labels, State
  <1>npc. npc \in [Source -> NLabel]
    BY DEF TypeInv, TypeOK, Labels, State
  <1>target. target \in [Source -> CRoutine \cup {None}]
    BY DEF TypeInv, TypeOK, Labels, State
  <1>rpc. rpc \in [Rem -> RLabel]
    BY DEF TypeInv, TypeOK, Labels, State
  <1>rid. rid \in [Rem -> Id \cup {None}]
    BY DEF TypeInv, TypeOK, Labels, State
  <1>victim. victim \in [Rem -> CRoutine \cup {None}]
    BY DEF TypeInv, TypeOK, Labels, State
  <1>removed. removed \in SUBSET CRoutine
    BY DEF TypeInv, TypeOK, Labels, State
  <1>tH. \A q \in Proc : (cur[q] # None) = (ppc[q] \in HoldingAt)
    BY DEF TypeInv, TypeOK, Labels, Holding, HoldingAt, Using
  <1>tN. \A q \in Source : npc[q] \in {"state", "flag"} => target[q] \in CRoutine
    BY DEF TypeInv, TypeOK, Labels, Holding, HoldingAt, Using
  <1>tI. \A q \in Rem : rpc[q] \in Using => rid[q] \in Id
    BY DEF TypeInv, TypeOK, Labels, Holding, HoldingAt, Using
  <1>tV. \A q \in Rem : rpc[q] \in {"rqlock", "acquire"} => victim[q] \in CRoutine
    BY DEF TypeInv, TypeOK, Labels, Holding, HoldingAt, Using
  <1>1. ASSUME NEW cr \in CRoutine, CreateTask(cr) PROVE TypeInv'
    <2>0. UNCHANGED <<state_, lock_, updated_, force_stop_, due, inCallback,
                      id_cr_, id_mutex, multi_pri_rq_, rq_writer, notify_grp_,
                      stop_, ctx_stop, running_, unread, registered, sent,
                      ppc, cur, pri, idx, npc, target, rpc, rid, victim,
                      removed>>
      BY <1>1 DEF CreateTask, crVars, regVars, rqVars, stopVars, dataVars, procVars, srcVars, remVars
    <2>1. cpc' \in [CRoutine -> CLabel]
      BY <1>1, <1>cpc
      DEF CreateTask, CLabel
    <2> QED
      BY <2>0, <2>1
      DEF TypeInv, TypeOK, Labels, Holding, HoldingAt, State, Using
  <1>2. ASSUME NEW cr \in CRoutine, DispatchLock(cr) PROVE TypeInv'
    <2>0. UNCHANGED <<state_, lock_, updated_, force_stop_, due, inCallback,
                      id_cr_, multi_pri_rq_, rq_writer, notify_grp_, stop_,
                      ctx_stop, running_, unread, registered, sent, ppc, cur,
                      pri, idx, npc, target, rpc, rid, victim, removed>>
      BY <1>2 DEF DispatchLock, crVars, rqVars, stopVars, dataVars, procVars, srcVars, remVars
    <2>1. cpc' \in [CRoutine -> CLabel]
      BY <1>2, <1>cpc, IdType
      DEF DispatchLock, CLabel
    <2>2. id_mutex' \in [Id -> CRoutine \cup Rem \cup {None}]
      BY <1>2, <1>idmutex, IdType
      DEF DispatchLock, Id
    <2> QED
      BY <2>0, <2>1, <2>2
      DEF TypeInv, TypeOK, Labels, Holding, HoldingAt, State, Using
  <1>3. ASSUME NEW cr \in CRoutine, DispatchInsert(cr) PROVE TypeInv'
    <2>0. UNCHANGED <<state_, lock_, updated_, force_stop_, due, inCallback,
                      multi_pri_rq_, rq_writer, notify_grp_, stop_, ctx_stop,
                      running_, unread, registered, sent, ppc, cur, pri, idx,
                      npc, target, rpc, rid, victim, removed>>
      BY <1>3 DEF DispatchInsert, crVars, rqVars, stopVars, dataVars, procVars, srcVars, remVars
    <2>1. cpc' \in [CRoutine -> CLabel]
      BY <1>3, <1>cpc, IdType
      DEF DispatchInsert, CLabel
    <2>2. id_cr_' \in [Id -> CRoutine \cup {None}]
      BY <1>3, <1>idcr, IdType
      DEF DispatchInsert
    <2>3. id_mutex' \in [Id -> CRoutine \cup Rem \cup {None}]
      BY <1>3, <1>idmutex, IdType
      DEF DispatchInsert
    <2> QED
      BY <2>0, <2>1, <2>2, <2>3
      DEF TypeInv, TypeOK, Labels, Holding, HoldingAt, State, Using
  <1>4. ASSUME NEW cr \in CRoutine, DispatchEnqueue(cr) PROVE TypeInv'
    <2>0. UNCHANGED <<state_, lock_, updated_, force_stop_, due, inCallback,
                      id_cr_, id_mutex, rq_writer, notify_grp_, stop_,
                      ctx_stop, running_, unread, registered, sent, ppc, cur,
                      pri, idx, npc, target, rpc, rid, victim, removed>>
      BY <1>4 DEF DispatchEnqueue, crVars, regVars, stopVars, dataVars, procVars, srcVars, remVars
    <2>1. cpc' \in [CRoutine -> CLabel]
      BY <1>4, <1>cpc
      DEF DispatchEnqueue, CLabel
    <2>2. multi_pri_rq_' \in [Prio -> Seq(CRoutine)]
      BY <1>4, <1>multiprirq, SchedulerAssumption
      DEF DispatchEnqueue
    <2> QED
      BY <2>0, <2>1, <2>2
      DEF TypeInv, TypeOK, Labels, Holding, HoldingAt, State, Using
  <1>5. ASSUME NEW cr \in CRoutine, DispatchNotify(cr) PROVE TypeInv'
    <2>0. UNCHANGED <<state_, lock_, updated_, force_stop_, due, inCallback,
                      id_cr_, multi_pri_rq_, rq_writer, stop_, ctx_stop,
                      running_, unread, registered, sent, ppc, cur, pri, idx,
                      npc, target, rpc, rid, victim, removed>>
      BY <1>5 DEF DispatchNotify, crVars, rqVars, stopVars, dataVars, procVars, srcVars, remVars
    <2>1. cpc' \in [CRoutine -> CLabel]
      BY <1>5, <1>cpc, IdType
      DEF DispatchNotify, CLabel
    <2>2. id_mutex' \in [Id -> CRoutine \cup Rem \cup {None}]
      BY <1>5, <1>idmutex, IdType
      DEF DispatchNotify
    <2>3. notify_grp_' \in Nat
      BY <1>5, <1>notifygrp, IdType
      DEF DispatchNotify
    <2> QED
      BY <2>0, <2>1, <2>2, <2>3
      DEF TypeInv, TypeOK, Labels, Holding, HoldingAt, State, Using
  <1>6. ASSUME NEW cr \in CRoutine, RegisterCallback(cr) PROVE TypeInv'
    <2>0. UNCHANGED <<state_, lock_, updated_, force_stop_, due, inCallback,
                      id_cr_, id_mutex, multi_pri_rq_, rq_writer, notify_grp_,
                      stop_, ctx_stop, running_, unread, sent, ppc, cur, pri,
                      idx, npc, target, rpc, rid, victim, removed>>
      BY <1>6 DEF RegisterCallback, crVars, regVars, rqVars, stopVars, procVars, srcVars, remVars
    <2>1. cpc' \in [CRoutine -> CLabel]
      BY <1>6, <1>cpc
      DEF RegisterCallback, CLabel
    <2>2. registered' \in [CRoutine -> BOOLEAN]
      BY <1>6, <1>registered
      DEF RegisterCallback
    <2> QED
      BY <2>0, <2>1, <2>2
      DEF TypeInv, TypeOK, Labels, Holding, HoldingAt, State, Using
  <1>7. ASSUME NEW cr \in CRoutine, WakeTime(cr) PROVE TypeInv'
    <2>0. UNCHANGED <<state_, lock_, updated_, force_stop_, inCallback,
                      id_cr_, id_mutex, multi_pri_rq_, rq_writer, notify_grp_,
                      stop_, ctx_stop, running_, unread, registered, sent,
                      ppc, cur, pri, idx, cpc, npc, target, rpc, rid, victim,
                      removed>>
      BY <1>7 DEF WakeTime, regVars, rqVars, stopVars, dataVars, procVars, srcVars, remVars
    <2>1. due' \in [CRoutine -> BOOLEAN]
      BY <1>7, <1>due
      DEF WakeTime
    <2> QED
      BY <2>0, <2>1
      DEF TypeInv, TypeOK, Labels, Holding, HoldingAt, State, Using
  <1>8. ASSUME NEW s \in Source, Fill(s) PROVE TypeInv'
    <2>0. UNCHANGED <<state_, lock_, updated_, force_stop_, due, inCallback,
                      id_cr_, id_mutex, multi_pri_rq_, rq_writer, notify_grp_,
                      stop_, ctx_stop, running_, registered, ppc, cur, pri,
                      idx, cpc, target, rpc, rid, victim, removed>>
      BY <1>8 DEF Fill, crVars, regVars, rqVars, stopVars, procVars, remVars
    <2>1. npc' \in [Source -> NLabel]
      BY <1>8, <1>npc
      DEF Fill, NLabel
    <2>2. sent' \in [Source -> 0 .. MaxMsg]
      BY <1>8, <1>sent, SchedulerAssumption
      DEF Fill
    <2>3. unread' \in [CRoutine -> Nat]
      BY <1>8, <1>unread, SchedulerAssumption
      DEF Fill
    <2>4. \A q \in Source : npc'[q] \in {"state", "flag"} => target'[q] \in CRoutine
      BY <1>8, <1>tN, <1>npc, <1>target
      DEF Fill
    <2> QED
      BY <2>0, <2>1, <2>2, <2>3, <2>4
      DEF TypeInv, TypeOK, Labels, Holding, HoldingAt, State, Using
  <1>9. ASSUME NEW s \in Source, NotifyLookup(s) PROVE TypeInv'
    <2>0. UNCHANGED <<state_, lock_, updated_, force_stop_, due, inCallback,
                      id_cr_, id_mutex, multi_pri_rq_, rq_writer, notify_grp_,
                      stop_, ctx_stop, running_, unread, registered, sent,
                      ppc, cur, pri, idx, cpc, rpc, rid, victim, removed>>
      BY <1>9 DEF NotifyLookup, crVars, regVars, rqVars, stopVars, dataVars, procVars, remVars
    <2>1. npc' \in [Source -> NLabel]
      BY <1>9, <1>npc, IdType
      DEF NotifyLookup, NLabel
    <2>2. target' \in [Source -> CRoutine \cup {None}]
      BY <1>9, <1>target, IdType, <1>idcr, SchedulerAssumption
      DEF NotifyLookup
    <2>3. \A q \in Source : npc'[q] \in {"state", "flag"} => target'[q] \in CRoutine
      BY <1>9, <1>tN, <1>npc, <1>target, <1>idcr, SchedulerAssumption, IdType
      DEF NotifyLookup
    <2> QED
      BY <2>0, <2>1, <2>2, <2>3
      DEF TypeInv, TypeOK, Labels, Holding, HoldingAt, State, Using
  <1>10. ASSUME NEW s \in Source, NotifyState(s) PROVE TypeInv'
    <2>0. UNCHANGED <<state_, lock_, updated_, force_stop_, due, inCallback,
                      id_cr_, id_mutex, multi_pri_rq_, rq_writer, notify_grp_,
                      stop_, ctx_stop, running_, unread, registered, sent,
                      ppc, cur, pri, idx, cpc, target, rpc, rid, victim,
                      removed>>
      BY <1>10 DEF NotifyState, crVars, regVars, rqVars, stopVars, dataVars, procVars, remVars
    <2>1. npc' \in [Source -> NLabel]
      BY <1>10, <1>npc
      DEF NotifyState, NLabel
    <2>2. \A q \in Source : npc'[q] \in {"state", "flag"} => target'[q] \in CRoutine
      BY <1>10, <1>tN, <1>npc, <1>target
      DEF NotifyState
    <2> QED
      BY <2>0, <2>1, <2>2
      DEF TypeInv, TypeOK, Labels, Holding, HoldingAt, State, Using
  <1>11. ASSUME NEW s \in Source, NotifyFlag(s) PROVE TypeInv'
    <2>0. UNCHANGED <<state_, lock_, force_stop_, due, inCallback, id_cr_,
                      id_mutex, multi_pri_rq_, rq_writer, notify_grp_, stop_,
                      ctx_stop, running_, unread, registered, sent, ppc, cur,
                      pri, idx, cpc, target, rpc, rid, victim, removed>>
      BY <1>11 DEF NotifyFlag, regVars, rqVars, stopVars, dataVars, procVars, remVars
    <2>1. npc' \in [Source -> NLabel]
      BY <1>11, <1>npc
      DEF NotifyFlag, NLabel
    <2>2. updated_' \in [CRoutine -> BOOLEAN]
      BY <1>11, <1>updated
      DEF NotifyFlag
    <2>3. \A q \in Source : npc'[q] \in {"state", "flag"} => target'[q] \in CRoutine
      BY <1>11, <1>tN, <1>npc, <1>target
      DEF NotifyFlag
    <2> QED
      BY <2>0, <2>1, <2>2, <2>3
      DEF TypeInv, TypeOK, Labels, Holding, HoldingAt, State, Using
  <1>12. ASSUME NEW s \in Source, NotifyCount(s) PROVE TypeInv'
    <2>0. UNCHANGED <<state_, lock_, updated_, force_stop_, due, inCallback,
                      id_cr_, id_mutex, multi_pri_rq_, rq_writer, stop_,
                      ctx_stop, running_, unread, registered, sent, ppc, cur,
                      pri, idx, cpc, rpc, rid, victim, removed>>
      BY <1>12 DEF NotifyCount, crVars, regVars, rqVars, stopVars, dataVars, procVars, remVars
    <2>1. npc' \in [Source -> NLabel]
      BY <1>12, <1>npc
      DEF NotifyCount, NLabel
    <2>2. target' \in [Source -> CRoutine \cup {None}]
      BY <1>12, <1>target
      DEF NotifyCount
    <2>3. notify_grp_' \in Nat
      BY <1>12, <1>notifygrp
      DEF NotifyCount
    <2>4. \A q \in Source : npc'[q] \in {"state", "flag"} => target'[q] \in CRoutine
      BY <1>12, <1>tN, <1>npc, <1>target
      DEF NotifyCount
    <2> QED
      BY <2>0, <2>1, <2>2, <2>3, <2>4
      DEF TypeInv, TypeOK, Labels, Holding, HoldingAt, State, Using
  <1>13. ASSUME NEW p \in Proc, ProcLoop(p) PROVE TypeInv'
    <2>0. UNCHANGED <<state_, lock_, updated_, force_stop_, due, inCallback,
                      id_cr_, id_mutex, multi_pri_rq_, rq_writer, notify_grp_,
                      stop_, ctx_stop, running_, unread, registered, sent,
                      cur, idx, cpc, npc, target, rpc, rid, victim, removed>>
      BY <1>13 DEF ProcLoop, crVars, regVars, rqVars, stopVars, dataVars, srcVars, remVars
    <2>1. ppc' \in [Proc -> PLabel]
      BY <1>13, <1>ppc
      DEF ProcLoop, ProcGoto, PLabel
    <2>2. pri' \in [Proc -> Prio]
      BY <1>13, <1>pri, PrioFacts
      DEF ProcLoop, ProcGoto
    <2>3. \A q \in Proc : (cur'[q] # None) = (ppc'[q] \in HoldingAt)
      BY <1>13, <1>tH, <1>ppc, <1>cur
      DEF ProcLoop, ProcGoto, HoldingAt, PLabel
    <2> QED
      BY <2>0, <2>1, <2>2, <2>3
      DEF TypeInv, TypeOK, Labels, Holding, HoldingAt, State, Using
  <1>14. ASSUME NEW p \in Proc, ProcLevel(p) PROVE TypeInv'
    <2>0. UNCHANGED <<state_, lock_, updated_, force_stop_, due, inCallback,
                      id_cr_, id_mutex, multi_pri_rq_, rq_writer, notify_grp_,
                      stop_, ctx_stop, running_, unread, registered, sent,
                      cur, pri, cpc, npc, target, rpc, rid, victim, removed>>
      BY <1>14 DEF ProcLevel, crVars, regVars, rqVars, stopVars, dataVars, srcVars, remVars
    <2>1. ppc' \in [Proc -> PLabel]
      BY <1>14, <1>ppc
      DEF ProcLevel, ProcGoto, PLabel
    <2>2. idx' \in [Proc -> Nat \ {0}]
      BY <1>14, <1>idx
      DEF ProcLevel, ProcGoto
    <2>3. \A q \in Proc : (cur'[q] # None) = (ppc'[q] \in HoldingAt)
      BY <1>14, <1>tH, <1>ppc, <1>cur
      DEF ProcLevel, ProcGoto, HoldingAt, PLabel
    <2> QED
      BY <2>0, <2>1, <2>2, <2>3
      DEF TypeInv, TypeOK, Labels, Holding, HoldingAt, State, Using
  <1>15. ASSUME NEW p \in Proc, ProcLevelEnd(p) PROVE TypeInv'
    <2>0. UNCHANGED <<state_, lock_, updated_, force_stop_, due, inCallback,
                      id_cr_, id_mutex, multi_pri_rq_, rq_writer, notify_grp_,
                      stop_, ctx_stop, running_, unread, registered, sent,
                      cur, idx, cpc, npc, target, rpc, rid, victim, removed>>
      BY <1>15 DEF ProcLevelEnd, crVars, regVars, rqVars, stopVars, dataVars, srcVars, remVars
    <2>1. ppc' \in [Proc -> PLabel]
      BY <1>15, <1>ppc
      DEF ProcLevelEnd, ProcGoto, PLabel
    <2>2. pri' \in [Proc -> Prio]
      BY <1>15, <1>pri, PrioFacts
      DEF ProcLevelEnd, ProcGoto
    <2>3. \A q \in Proc : (cur'[q] # None) = (ppc'[q] \in HoldingAt)
      BY <1>15, <1>tH, <1>ppc, <1>cur
      DEF ProcLevelEnd, ProcGoto, HoldingAt, PLabel
    <2> QED
      BY <2>0, <2>1, <2>2, <2>3
      DEF TypeInv, TypeOK, Labels, Holding, HoldingAt, State, Using
  <1>16. ASSUME NEW p \in Proc, ProcAcquire(p) PROVE TypeInv'
    <2>q. multi_pri_rq_[pri[p]][idx[p]] \in CRoutine
      BY <1>16, <1>multiprirq, <1>pri, <1>idx DEF ProcAcquire
    <2>0. UNCHANGED <<state_, updated_, force_stop_, due, inCallback, id_cr_,
                      id_mutex, multi_pri_rq_, rq_writer, notify_grp_, stop_,
                      ctx_stop, running_, unread, registered, sent, pri, cpc,
                      npc, target, rpc, rid, victim, removed>>
      BY <1>16 DEF ProcAcquire, regVars, rqVars, stopVars, dataVars, srcVars, remVars
    <2>1. ppc' \in [Proc -> PLabel]
      BY <1>16, <1>ppc
      DEF ProcAcquire, ProcGoto, PLabel
    <2>2. cur' \in [Proc -> CRoutine \cup {None}]
      BY <1>16, <1>cur, <2>q
      DEF ProcAcquire, ProcGoto
    <2>3. lock_' \in [CRoutine -> BOOLEAN]
      BY <1>16, <1>lock, <2>q
      DEF ProcAcquire, ProcGoto
    <2>4. idx' \in [Proc -> Nat \ {0}]
      BY <1>16, <1>idx
      DEF ProcAcquire, ProcGoto
    <2>5. \A q \in Proc : (cur'[q] # None) = (ppc'[q] \in HoldingAt)
      BY <1>16, <1>tH, <1>ppc, <1>cur, <2>q, SchedulerAssumption
      DEF ProcAcquire, ProcGoto, HoldingAt, PLabel
    <2> QED
      BY <2>0, <2>1, <2>2, <2>3, <2>4, <2>5
      DEF TypeInv, TypeOK, Labels, Holding, HoldingAt, State, Using
  <1>17. ASSUME NEW p \in Proc, ProcUpdate(p) PROVE TypeInv'
    <2>0. UNCHANGED <<lock_, force_stop_, due, inCallback, id_cr_, id_mutex,
                      multi_pri_rq_, rq_writer, notify_grp_, stop_, ctx_stop,
                      running_, unread, registered, sent, cur, pri, idx, cpc,
                      npc, target, rpc, rid, victim, removed>>
      BY <1>17 DEF ProcUpdate, regVars, rqVars, stopVars, dataVars, srcVars, remVars
    <2>1. ppc' \in [Proc -> PLabel]
      BY <1>17, <1>ppc
      DEF ProcUpdate, ProcGoto, UpdateState, PLabel
    <2>2. state_' \in [CRoutine -> State]
      BY <1>17, <1>state
      DEF ProcUpdate, ProcGoto, UpdateState, State
    <2>3. updated_' \in [CRoutine -> BOOLEAN]
      BY <1>17, <1>updated
      DEF ProcUpdate, ProcGoto, UpdateState
    <2>4. \A q \in Proc : (cur'[q] # None) = (ppc'[q] \in HoldingAt)
      BY <1>17, <1>tH, <1>ppc, <1>cur
      DEF ProcUpdate, ProcGoto, UpdateState, HoldingAt, PLabel
    <2> QED
      BY <2>0, <2>1, <2>2, <2>3, <2>4
      DEF TypeInv, TypeOK, Labels, Holding, HoldingAt, State, Using
  <1>18. ASSUME NEW p \in Proc, ProcSkip(p) PROVE TypeInv'
    <2>0. UNCHANGED <<state_, updated_, force_stop_, due, inCallback, id_cr_,
                      id_mutex, multi_pri_rq_, rq_writer, notify_grp_, stop_,
                      ctx_stop, running_, unread, registered, sent, pri, cpc,
                      npc, target, rpc, rid, victim, removed>>
      BY <1>18 DEF ProcSkip, regVars, rqVars, stopVars, dataVars, srcVars, remVars
    <2>1. ppc' \in [Proc -> PLabel]
      BY <1>18, <1>ppc
      DEF ProcSkip, ProcGoto, PLabel
    <2>2. cur' \in [Proc -> CRoutine \cup {None}]
      BY <1>18, <1>cur
      DEF ProcSkip, ProcGoto
    <2>3. lock_' \in [CRoutine -> BOOLEAN]
      BY <1>18, <1>lock
      DEF ProcSkip, ProcGoto
    <2>4. idx' \in [Proc -> Nat \ {0}]
      BY <1>18, <1>idx
      DEF ProcSkip, ProcGoto
    <2>5. \A q \in Proc : (cur'[q] # None) = (ppc'[q] \in HoldingAt)
      BY <1>18, <1>tH, <1>ppc, <1>cur, SchedulerAssumption
      DEF ProcSkip, ProcGoto, HoldingAt, PLabel
    <2> QED
      BY <2>0, <2>1, <2>2, <2>3, <2>4, <2>5
      DEF TypeInv, TypeOK, Labels, Holding, HoldingAt, State, Using
  <1>19. ASSUME NEW p \in Proc, ProcResume(p) PROVE TypeInv'
    <2>0. UNCHANGED <<lock_, updated_, force_stop_, due, inCallback, id_cr_,
                      id_mutex, multi_pri_rq_, rq_writer, notify_grp_, stop_,
                      ctx_stop, running_, unread, registered, sent, cur, pri,
                      idx, cpc, npc, target, rpc, rid, victim, removed>>
      BY <1>19 DEF ProcResume, regVars, rqVars, stopVars, dataVars, srcVars, remVars
    <2>1. ppc' \in [Proc -> PLabel]
      BY <1>19, <1>ppc
      DEF ProcResume, ProcGoto, PLabel
    <2>2. state_' \in [CRoutine -> State]
      BY <1>19, <1>state
      DEF ProcResume, ProcGoto, State
    <2>3. \A q \in Proc : (cur'[q] # None) = (ppc'[q] \in HoldingAt)
      BY <1>19, <1>tH, <1>ppc, <1>cur
      DEF ProcResume, ProcGoto, HoldingAt, PLabel
    <2> QED
      BY <2>0, <2>1, <2>2, <2>3
      DEF TypeInv, TypeOK, Labels, Holding, HoldingAt, State, Using
  <1>20. ASSUME NEW p \in Proc, ProcRelease(p) PROVE TypeInv'
    <2>0. UNCHANGED <<state_, updated_, force_stop_, due, inCallback, id_cr_,
                      id_mutex, multi_pri_rq_, rq_writer, notify_grp_, stop_,
                      ctx_stop, running_, unread, registered, sent, pri, idx,
                      cpc, npc, target, rpc, rid, victim, removed>>
      BY <1>20 DEF ProcRelease, regVars, rqVars, stopVars, dataVars, srcVars, remVars
    <2>1. ppc' \in [Proc -> PLabel]
      BY <1>20, <1>ppc
      DEF ProcRelease, ProcGoto, PLabel
    <2>2. cur' \in [Proc -> CRoutine \cup {None}]
      BY <1>20, <1>cur
      DEF ProcRelease, ProcGoto
    <2>3. lock_' \in [CRoutine -> BOOLEAN]
      BY <1>20, <1>lock
      DEF ProcRelease, ProcGoto
    <2>4. \A q \in Proc : (cur'[q] # None) = (ppc'[q] \in HoldingAt)
      BY <1>20, <1>tH, <1>ppc, <1>cur
      DEF ProcRelease, ProcGoto, HoldingAt, PLabel
    <2> QED
      BY <2>0, <2>1, <2>2, <2>3, <2>4
      DEF TypeInv, TypeOK, Labels, Holding, HoldingAt, State, Using
  <1>21. ASSUME NEW p \in Proc, ProcWait(p) PROVE TypeInv'
    <2>0. UNCHANGED <<state_, lock_, updated_, force_stop_, due, inCallback,
                      id_cr_, id_mutex, multi_pri_rq_, rq_writer, stop_,
                      ctx_stop, running_, unread, registered, sent, cur, pri,
                      idx, cpc, npc, target, rpc, rid, victim, removed>>
      BY <1>21 DEF ProcWait, crVars, regVars, rqVars, stopVars, dataVars, srcVars, remVars
    <2>1. ppc' \in [Proc -> PLabel]
      BY <1>21, <1>ppc
      DEF ProcWait, ProcGoto, PLabel
    <2>2. notify_grp_' \in Nat
      BY <1>21, <1>notifygrp
      DEF ProcWait, ProcGoto
    <2>3. \A q \in Proc : (cur'[q] # None) = (ppc'[q] \in HoldingAt)
      BY <1>21, <1>tH, <1>ppc, <1>cur
      DEF ProcWait, ProcGoto, HoldingAt, PLabel
    <2> QED
      BY <2>0, <2>1, <2>2, <2>3
      DEF TypeInv, TypeOK, Labels, Holding, HoldingAt, State, Using
  <1>22. ASSUME NEW p \in Proc, ProcWaitTimeout(p) PROVE TypeInv'
    <2>0. UNCHANGED <<state_, lock_, updated_, force_stop_, due, inCallback,
                      id_cr_, id_mutex, multi_pri_rq_, rq_writer, notify_grp_,
                      stop_, ctx_stop, running_, unread, registered, sent,
                      cur, pri, idx, cpc, npc, target, rpc, rid, victim,
                      removed>>
      BY <1>22 DEF ProcWaitTimeout, crVars, regVars, rqVars, stopVars, dataVars, srcVars, remVars
    <2>1. ppc' \in [Proc -> PLabel]
      BY <1>22, <1>ppc
      DEF ProcWaitTimeout, ProcGoto, PLabel
    <2>2. \A q \in Proc : (cur'[q] # None) = (ppc'[q] \in HoldingAt)
      BY <1>22, <1>tH, <1>ppc, <1>cur
      DEF ProcWaitTimeout, ProcGoto, HoldingAt, PLabel
    <2> QED
      BY <2>0, <2>1, <2>2
      DEF TypeInv, TypeOK, Labels, Holding, HoldingAt, State, Using
  <1>23. ASSUME NEW p \in Proc, Body(p) PROVE TypeInv'
    <2>0. UNCHANGED <<lock_, updated_, force_stop_, due, inCallback, id_cr_,
                      id_mutex, multi_pri_rq_, rq_writer, notify_grp_, stop_,
                      ctx_stop, running_, unread, registered, sent, cur, pri,
                      idx, cpc, npc, target, rpc, rid, victim, removed>>
      BY <1>23 DEF Body, regVars, rqVars, stopVars, dataVars, srcVars, remVars
    <2>1. ppc' \in [Proc -> PLabel]
      BY <1>23, <1>ppc
      DEF Body, ProcGoto, PLabel
    <2>2. state_' \in [CRoutine -> State]
      BY <1>23, <1>state
      DEF Body, ProcGoto, State
    <2>3. \A q \in Proc : (cur'[q] # None) = (ppc'[q] \in HoldingAt)
      BY <1>23, <1>tH, <1>ppc, <1>cur
      DEF Body, ProcGoto, HoldingAt, PLabel
    <2> QED
      BY <2>0, <2>1, <2>2, <2>3
      DEF TypeInv, TypeOK, Labels, Holding, HoldingAt, State, Using
  <1>24. ASSUME NEW p \in Proc, BodyFetch(p) PROVE TypeInv'
    <2>0. UNCHANGED <<state_, lock_, updated_, force_stop_, due, id_cr_,
                      id_mutex, multi_pri_rq_, rq_writer, notify_grp_, stop_,
                      ctx_stop, running_, registered, sent, cur, pri, idx,
                      cpc, npc, target, rpc, rid, victim, removed>>
      BY <1>24 DEF BodyFetch, regVars, rqVars, stopVars, srcVars, remVars
    <2>1. ppc' \in [Proc -> PLabel]
      BY <1>24, <1>ppc
      DEF BodyFetch, ProcGoto, PLabel
    <2>2. unread' \in [CRoutine -> Nat]
      BY <1>24, <1>unread
      DEF BodyFetch, ProcGoto
    <2>3. inCallback' \in [CRoutine -> BOOLEAN]
      BY <1>24, <1>inCallback
      DEF BodyFetch, ProcGoto
    <2>4. \A q \in Proc : (cur'[q] # None) = (ppc'[q] \in HoldingAt)
      BY <1>24, <1>tH, <1>ppc, <1>cur
      DEF BodyFetch, ProcGoto, HoldingAt, PLabel
    <2> QED
      BY <2>0, <2>1, <2>2, <2>3, <2>4
      DEF TypeInv, TypeOK, Labels, Holding, HoldingAt, State, Using
  <1>25. ASSUME NEW p \in Proc, BodyHandled(p) PROVE TypeInv'
    <2>0. UNCHANGED <<lock_, updated_, force_stop_, due, id_cr_, id_mutex,
                      multi_pri_rq_, rq_writer, notify_grp_, stop_, ctx_stop,
                      running_, unread, registered, sent, cur, pri, idx, cpc,
                      npc, target, rpc, rid, victim, removed>>
      BY <1>25 DEF BodyHandled, regVars, rqVars, stopVars, dataVars, srcVars, remVars
    <2>1. ppc' \in [Proc -> PLabel]
      BY <1>25, <1>ppc
      DEF BodyHandled, ProcGoto, PLabel
    <2>2. state_' \in [CRoutine -> State]
      BY <1>25, <1>state
      DEF BodyHandled, ProcGoto, State
    <2>3. inCallback' \in [CRoutine -> BOOLEAN]
      BY <1>25, <1>inCallback
      DEF BodyHandled, ProcGoto
    <2>4. \A q \in Proc : (cur'[q] # None) = (ppc'[q] \in HoldingAt)
      BY <1>25, <1>tH, <1>ppc, <1>cur
      DEF BodyHandled, ProcGoto, HoldingAt, PLabel
    <2> QED
      BY <2>0, <2>1, <2>2, <2>3, <2>4
      DEF TypeInv, TypeOK, Labels, Holding, HoldingAt, State, Using
  <1>26. ASSUME NEW p \in Proc, BodySleep(p) PROVE TypeInv'
    <2>0. UNCHANGED <<lock_, updated_, force_stop_, inCallback, id_cr_,
                      id_mutex, multi_pri_rq_, rq_writer, notify_grp_, stop_,
                      ctx_stop, running_, unread, registered, sent, cur, pri,
                      idx, cpc, npc, target, rpc, rid, victim, removed>>
      BY <1>26 DEF BodySleep, regVars, rqVars, stopVars, dataVars, srcVars, remVars
    <2>1. ppc' \in [Proc -> PLabel]
      BY <1>26, <1>ppc
      DEF BodySleep, ProcGoto, PLabel
    <2>2. state_' \in [CRoutine -> State]
      BY <1>26, <1>state
      DEF BodySleep, ProcGoto, State
    <2>3. due' \in [CRoutine -> BOOLEAN]
      BY <1>26, <1>due
      DEF BodySleep, ProcGoto
    <2>4. \A q \in Proc : (cur'[q] # None) = (ppc'[q] \in HoldingAt)
      BY <1>26, <1>tH, <1>ppc, <1>cur
      DEF BodySleep, ProcGoto, HoldingAt, PLabel
    <2> QED
      BY <2>0, <2>1, <2>2, <2>3, <2>4
      DEF TypeInv, TypeOK, Labels, Holding, HoldingAt, State, Using
  <1>27. ASSUME NEW r \in Remover, RemoveTask(r) PROVE TypeInv'
    <2>0. UNCHANGED <<state_, lock_, updated_, force_stop_, due, inCallback,
                      id_cr_, id_mutex, multi_pri_rq_, rq_writer, notify_grp_,
                      stop_, ctx_stop, running_, unread, registered, sent,
                      ppc, cur, pri, idx, cpc, npc, target, victim, removed>>
      BY <1>27 DEF RemoveTask, crVars, regVars, rqVars, stopVars, dataVars, procVars, srcVars
    <2>1. rpc' \in [Rem -> RLabel]
      BY <1>27, <1>rpc
      DEF RemoveTask, RLabel, Rem
    <2>2. rid' \in [Rem -> Id \cup {None}]
      BY <1>27, <1>rid, SchedulerAssumption
      DEF RemoveTask, Rem
    <2>3. \A q \in Rem : rpc'[q] \in Using => rid'[q] \in Id
      BY <1>27, <1>tI, <1>rpc, <1>rid, SchedulerAssumption
      DEF RemoveTask, Using, Rem
    <2>4. \A q \in Rem : rpc'[q] \in {"rqlock", "acquire"} => victim'[q] \in CRoutine
      BY <1>27, <1>tV, <1>rpc, <1>victim
      DEF RemoveTask, Rem
    <2> QED
      BY <2>0, <2>1, <2>2, <2>3, <2>4
      DEF TypeInv, TypeOK, Labels, Holding, HoldingAt, State, Using
  <1>28. ASSUME NEW r \in Rem, RemoveLock(r) PROVE TypeInv'
    <2>0. UNCHANGED <<state_, lock_, updated_, force_stop_, due, inCallback,
                      id_cr_, multi_pri_rq_, rq_writer, notify_grp_, stop_,
                      ctx_stop, running_, unread, registered, sent, ppc, cur,
                      pri, idx, cpc, npc, target, rid, victim, removed>>
      BY <1>28 DEF RemoveLock, crVars, rqVars, stopVars, dataVars, procVars, srcVars
    <2>1. rpc' \in [Rem -> RLabel]
      BY <1>28, <1>rpc
      DEF RemoveLock, RLabel
    <2>2. id_mutex' \in [Id -> CRoutine \cup Rem \cup {None}]
      BY <1>28, <1>idmutex
      DEF RemoveLock
    <2>3. \A q \in Rem : rpc'[q] \in Using => rid'[q] \in Id
      BY <1>28, <1>tI, <1>rpc, <1>rid
      DEF RemoveLock, Using
    <2>4. \A q \in Rem : rpc'[q] \in {"rqlock", "acquire"} => victim'[q] \in CRoutine
      BY <1>28, <1>tV, <1>rpc, <1>victim
      DEF RemoveLock
    <2> QED
      BY <2>0, <2>1, <2>2, <2>3, <2>4
      DEF TypeInv, TypeOK, Labels, Holding, HoldingAt, State, Using
  <1>29. ASSUME NEW r \in Rem, RemoveErase(r) PROVE TypeInv'
    <2>0. UNCHANGED <<state_, lock_, updated_, due, inCallback, multi_pri_rq_,
                      rq_writer, notify_grp_, stop_, ctx_stop, running_,
                      unread, registered, sent, ppc, cur, pri, idx, cpc, npc,
                      target, rid, removed>>
      BY <1>29 DEF RemoveErase, rqVars, stopVars, dataVars, procVars, srcVars
    <2>1. rpc' \in [Rem -> RLabel]
      BY <1>29, <1>rpc
      DEF RemoveErase, Returned, RLabel
    <2>2. id_cr_' \in [Id -> CRoutine \cup {None}]
      BY <1>29, <1>idcr, <1>tI
      DEF RemoveErase, Returned, Using
    <2>3. id_mutex' \in [Id -> CRoutine \cup Rem \cup {None}]
      BY <1>29, <1>idmutex, <1>tI
      DEF RemoveErase, Returned, Using
    <2>4. victim' \in [Rem -> CRoutine \cup {None}]
      BY <1>29, <1>victim, <1>idcr, <1>tI
      DEF RemoveErase, Returned, Using
    <2>5. force_stop_' \in [CRoutine -> BOOLEAN]
      BY <1>29, <1>forcestop, <1>idcr, <1>tI
      DEF RemoveErase, Returned, Using
    <2>6. \A q \in Rem : rpc'[q] \in Using => rid'[q] \in Id
      BY <1>29, <1>tI, <1>rpc, <1>rid
      DEF RemoveErase, Returned, Using
    <2>7. \A q \in Rem : rpc'[q] \in {"rqlock", "acquire"} => victim'[q] \in CRoutine
      BY <1>29, <1>tV, <1>rpc, <1>victim, <1>idcr, <1>tI
      DEF RemoveErase, Returned, Using
    <2> QED
      BY <2>0, <2>1, <2>2, <2>3, <2>4, <2>5, <2>6, <2>7
      DEF TypeInv, TypeOK, Labels, Holding, HoldingAt, State, Using
  <1>30. ASSUME NEW r \in Rem, RemoveRqLock(r) PROVE TypeInv'
    <2>q. ASSUME ~\A k \in 1 .. Len(multi_pri_rq_[PrioOf[victim[r]]]) :
                     IdOf[multi_pri_rq_[PrioOf[victim[r]]][k]] # rid[r]
          PROVE  multi_pri_rq_[PrioOf[victim[r]]][FirstWithId(
                   multi_pri_rq_[PrioOf[victim[r]]], rid[r])] \in CRoutine
      <3>1. multi_pri_rq_[PrioOf[victim[r]]] \in Seq(CRoutine)
        BY <1>30, <1>multiprirq, <1>tV, SchedulerAssumption DEF RemoveRqLock
      <3>2. QED
        BY <3>1, <2>q, FirstPlace
    <2>0. UNCHANGED <<state_, lock_, updated_, due, inCallback, id_cr_,
                      multi_pri_rq_, notify_grp_, stop_, ctx_stop, running_,
                      unread, registered, sent, ppc, cur, pri, idx, cpc, npc,
                      target, rid, removed>>
      BY <1>30 DEF RemoveRqLock, stopVars, dataVars, procVars, srcVars
    <2>1. rpc' \in [Rem -> RLabel]
      BY <1>30, <1>rpc, IdType
      DEF RemoveRqLock, Returned, RLabel
    <2>2. rq_writer' \in [Prio -> Rem \cup {None}]
      BY <1>30, <1>rqwriter, IdType
      DEF RemoveRqLock, Returned, Rem
    <2>3. id_mutex' \in [Id -> CRoutine \cup Rem \cup {None}]
      BY <1>30, <1>idmutex, IdType
      DEF RemoveRqLock, Returned
    <2>4. victim' \in [Rem -> CRoutine \cup {None}]
      BY <1>30, <1>victim, IdType, <2>q
      DEF RemoveRqLock, Returned
    <2>5. force_stop_' \in [CRoutine -> BOOLEAN]
      BY <1>30, <1>forcestop, IdType, <2>q
      DEF RemoveRqLock, Returned
    <2>6. \A q \in Rem : rpc'[q] \in Using => rid'[q] \in Id
      BY <1>30, <1>tI, <1>rpc, <1>rid
      DEF RemoveRqLock, Returned, Using
    <2>7. \A q \in Rem : rpc'[q] \in {"rqlock", "acquire"} => victim'[q] \in CRoutine
      BY <1>30, <1>tV, <1>rpc, <1>victim, <2>q
      DEF RemoveRqLock, Returned
    <2> QED
      BY <2>0, <2>1, <2>2, <2>3, <2>4, <2>5, <2>6, <2>7
      DEF TypeInv, TypeOK, Labels, Holding, HoldingAt, State, Using
  <1>31. ASSUME NEW r \in Rem, RemoveAcquire(r) PROVE TypeInv'
    <2>q. RemoveAt(multi_pri_rq_[PrioOf[victim[r]]],
                   FirstWithId(multi_pri_rq_[PrioOf[victim[r]]], rid[r]))
            \in Seq(CRoutine)
      <3>1. multi_pri_rq_[PrioOf[victim[r]]] \in Seq(CRoutine)
        BY <1>31, <1>multiprirq, <1>tV, SchedulerAssumption DEF RemoveAcquire
      <3>2. \E k \in 1 .. Len(multi_pri_rq_[PrioOf[victim[r]]]) :
              IdOf[multi_pri_rq_[PrioOf[victim[r]]][k]] = rid[r]
        BY <1>31 DEF RemoveAcquire, KnownIsQueued, Erased, In
      <3>3. QED
        BY <3>1, <3>2, FirstPlace, RemoveAtFacts
    <2>0. UNCHANGED <<state_, lock_, updated_, force_stop_, due, inCallback,
                      id_cr_, notify_grp_, stop_, ctx_stop, running_, unread,
                      registered, sent, ppc, cur, pri, idx, cpc, npc, target,
                      rid, victim>>
      BY <1>31 DEF RemoveAcquire, crVars, stopVars, dataVars, procVars, srcVars
    <2>1. rpc' \in [Rem -> RLabel]
      BY <1>31, <1>rpc
      DEF RemoveAcquire, Returned, RLabel
    <2>2. multi_pri_rq_' \in [Prio -> Seq(CRoutine)]
      BY <1>31, <1>multiprirq, <2>q
      DEF RemoveAcquire, Returned
    <2>3. rq_writer' \in [Prio -> Rem \cup {None}]
      BY <1>31, <1>rqwriter
      DEF RemoveAcquire, Returned, Rem
    <2>4. id_mutex' \in [Id -> CRoutine \cup Rem \cup {None}]
      BY <1>31, <1>idmutex
      DEF RemoveAcquire, Returned
    <2>5. removed' \in SUBSET CRoutine
      BY <1>31, <1>removed, <1>tV
      DEF RemoveAcquire, Returned
    <2>6. \A q \in Rem : rpc'[q] \in Using => rid'[q] \in Id
      BY <1>31, <1>tI, <1>rpc, <1>rid
      DEF RemoveAcquire, Returned, Using
    <2>7. \A q \in Rem : rpc'[q] \in {"rqlock", "acquire"} => victim'[q] \in CRoutine
      BY <1>31, <1>tV, <1>rpc, <1>victim
      DEF RemoveAcquire, Returned
    <2> QED
      BY <2>0, <2>1, <2>2, <2>3, <2>4, <2>5, <2>6, <2>7
      DEF TypeInv, TypeOK, Labels, Holding, HoldingAt, State, Using
  <1>32. ASSUME Shutdown PROVE TypeInv'
    <2>0. UNCHANGED <<state_, lock_, updated_, force_stop_, due, inCallback,
                      id_cr_, id_mutex, multi_pri_rq_, rq_writer, notify_grp_,
                      ctx_stop, running_, unread, registered, sent, ppc, cur,
                      pri, idx, cpc, npc, target, rid, victim, removed>>
      BY <1>32 DEF Shutdown, crVars, regVars, rqVars, dataVars, procVars, srcVars
    <2>1. rpc' \in [Rem -> RLabel]
      BY <1>32, <1>rpc
      DEF Shutdown, RLabel, Rem
    <2>2. stop_' \in BOOLEAN
      BY <1>32, <1>stop
      DEF Shutdown
    <2>3. \A q \in Rem : rpc'[q] \in Using => rid'[q] \in Id
      BY <1>32, <1>tI, <1>rpc, <1>rid
      DEF Shutdown, Using, Rem
    <2>4. \A q \in Rem : rpc'[q] \in {"rqlock", "acquire"} => victim'[q] \in CRoutine
      BY <1>32, <1>tV, <1>rpc, <1>victim
      DEF Shutdown
    <2> QED
      BY <2>0, <2>1, <2>2, <2>3, <2>4
      DEF TypeInv, TypeOK, Labels, Holding, HoldingAt, State, Using
  <1>33. ASSUME ShutdownList PROVE TypeInv'
    <2>0. UNCHANGED <<state_, lock_, updated_, force_stop_, due, inCallback,
                      id_cr_, id_mutex, multi_pri_rq_, rq_writer, notify_grp_,
                      stop_, ctx_stop, running_, unread, registered, sent,
                      ppc, cur, pri, idx, cpc, npc, target, rid, victim,
                      removed>>
      BY <1>33 DEF ShutdownList, crVars, regVars, rqVars, dataVars, procVars, srcVars
    <2>1. rpc' \in [Rem -> RLabel]
      BY <1>33, <1>rpc
      DEF ShutdownList, RLabel
    <2>2. \A q \in Rem : rpc'[q] \in Using => rid'[q] \in Id
      BY <1>33, <1>tI, <1>rpc, <1>rid
      DEF ShutdownList, Using
    <2>3. \A q \in Rem : rpc'[q] \in {"rqlock", "acquire"} => victim'[q] \in CRoutine
      BY <1>33, <1>tV, <1>rpc, <1>victim
      DEF ShutdownList
    <2> QED
      BY <2>0, <2>1, <2>2, <2>3
      DEF TypeInv, TypeOK, Labels, Holding, HoldingAt, State, Using
  <1>34. ASSUME ShutdownDone PROVE TypeInv'
    <2>0. UNCHANGED <<state_, lock_, updated_, force_stop_, due, inCallback,
                      id_cr_, id_mutex, multi_pri_rq_, rq_writer, notify_grp_,
                      stop_, ctx_stop, running_, unread, registered, sent,
                      ppc, cur, pri, idx, cpc, npc, target, rid, victim,
                      removed>>
      BY <1>34 DEF ShutdownDone, crVars, regVars, rqVars, stopVars, dataVars, procVars, srcVars
    <2>1. rpc' \in [Rem -> RLabel]
      BY <1>34, <1>rpc
      DEF ShutdownDone, RLabel
    <2>2. \A q \in Rem : rpc'[q] \in Using => rid'[q] \in Id
      BY <1>34, <1>tI, <1>rpc, <1>rid
      DEF ShutdownDone, Using
    <2>3. \A q \in Rem : rpc'[q] \in {"rqlock", "acquire"} => victim'[q] \in CRoutine
      BY <1>34, <1>tV, <1>rpc, <1>victim
      DEF ShutdownDone
    <2> QED
      BY <2>0, <2>1, <2>2, <2>3
      DEF TypeInv, TypeOK, Labels, Holding, HoldingAt, State, Using
  <1>35. ASSUME NEW p \in Proc, ShutdownContext(p) PROVE TypeInv'
    <2>0. UNCHANGED <<state_, lock_, updated_, force_stop_, due, inCallback,
                      id_cr_, id_mutex, multi_pri_rq_, rq_writer, stop_,
                      running_, unread, registered, sent, ppc, cur, pri, idx,
                      cpc, npc, target, rpc, rid, victim, removed>>
      BY <1>35 DEF ShutdownContext, crVars, regVars, rqVars, dataVars, procVars, srcVars, remVars
    <2>1. ctx_stop' \in SUBSET Proc
      BY <1>35, <1>ctxstop
      DEF ShutdownContext
    <2>2. notify_grp_' \in Nat
      BY <1>35, <1>notifygrp, SchedulerAssumption
      DEF ShutdownContext
    <2> QED
      BY <2>0, <2>1, <2>2
      DEF TypeInv, TypeOK, Labels, Holding, HoldingAt, State, Using
  <1>36. ASSUME NEW p \in Proc, ShutdownStop(p) PROVE TypeInv'
    <2>0. UNCHANGED <<state_, lock_, updated_, force_stop_, due, inCallback,
                      id_cr_, id_mutex, multi_pri_rq_, rq_writer, stop_,
                      unread, registered, sent, ppc, cur, pri, idx, cpc, npc,
                      target, rpc, rid, victim, removed>>
      BY <1>36 DEF ShutdownStop, crVars, regVars, rqVars, dataVars, procVars, srcVars, remVars
    <2>1. ctx_stop' \in SUBSET Proc
      BY <1>36, <1>ctxstop
      DEF ShutdownStop
    <2>2. running_' \in SUBSET Proc
      BY <1>36, <1>running
      DEF ShutdownStop
    <2>3. notify_grp_' \in Nat
      BY <1>36, <1>notifygrp, SchedulerAssumption
      DEF ShutdownStop
    <2> QED
      BY <2>0, <2>1, <2>2, <2>3
      DEF TypeInv, TypeOK, Labels, Holding, HoldingAt, State, Using
  <1>37. ASSUME NEW id \in Id, ShutdownRemove(id) PROVE TypeInv'
    <2>0. UNCHANGED <<state_, lock_, updated_, force_stop_, due, inCallback,
                      id_cr_, id_mutex, multi_pri_rq_, rq_writer, notify_grp_,
                      stop_, ctx_stop, running_, unread, registered, sent,
                      ppc, cur, pri, idx, cpc, npc, target, victim, removed>>
      BY <1>37 DEF ShutdownRemove, crVars, regVars, rqVars, dataVars, procVars, srcVars
    <2>1. rpc' \in [Rem -> RLabel]
      BY <1>37, <1>rpc
      DEF ShutdownRemove, RLabel, Rem
    <2>2. rid' \in [Rem -> Id \cup {None}]
      BY <1>37, <1>rid
      DEF ShutdownRemove, Rem
    <2>3. \A q \in Rem : rpc'[q] \in Using => rid'[q] \in Id
      BY <1>37, <1>tI, <1>rpc, <1>rid
      DEF ShutdownRemove, Using, Rem
    <2>4. \A q \in Rem : rpc'[q] \in {"rqlock", "acquire"} => victim'[q] \in CRoutine
      BY <1>37, <1>tV, <1>rpc, <1>victim
      DEF ShutdownRemove
    <2> QED
      BY <2>0, <2>1, <2>2, <2>3, <2>4
      DEF TypeInv, TypeOK, Labels, Holding, HoldingAt, State, Using
  <1>38. CASE UNCHANGED vars
    BY <1>38 DEF TypeInv, TypeOK, Labels, Holding, vars, crVars, regVars, rqVars,
      stopVars, dataVars, procVars, srcVars, remVars
  <1> QED
    BY <1>1, <1>2, <1>3, <1>4, <1>5, <1>6, <1>7, <1>8, <1>9, <1>10, <1>11,
       <1>12, <1>13, <1>14, <1>15, <1>16, <1>17, <1>18, <1>19, <1>20, <1>21,
       <1>22, <1>23, <1>24, <1>25, <1>26, <1>27, <1>28, <1>29, <1>30, <1>31,
       <1>32, <1>33, <1>34, <1>35, <1>36, <1>37, <1>38
    DEF Next, CreatorStep, NotifierStep, ProcStep, RemoveStep, ShutdownStep,
        Stopped

-----------------------------------------------------------------------------
(* The registry.                                                           *)

\* What adding and removing tasks works on.
registryVars == <<id_cr_, id_mutex, multi_pri_rq_, cpc, victim, removed,
                  force_stop_, registered>>

\* A step that nobody takes inside a critical section of an id.
Aside ==
    /\ UNCHANGED registryVars
    /\ \A r \in Rem : /\ Removing(r)' = Removing(r)
                      /\ Erased(r)' = Erased(r)
                      /\ Removing(r) => rid'[r] = rid[r]

\* Every step is aside of the registry or is one of these.
LEMMA RegistrySteps ==
    ASSUME TypeInv, [Next]_vars
    PROVE  \/ Aside
           \/ \E cr \in CRoutine : CreatorStep(cr)
           \/ \E r \in Rem : RemoveStep(r)
  <1> USE DEF Aside, registryVars, Removing, Erased
  <1>1. rpc \in [Rem -> RLabel]
    BY DEF TypeInv, Labels
  <1>2. ASSUME NEW cr \in CRoutine, WakeTime(cr) PROVE Aside
    BY <1>2 DEF WakeTime, regVars, rqVars, dataVars, remVars
  <1>3. ASSUME NEW s \in Source, Fill(s) \/ NotifierStep(s) PROVE Aside
    BY <1>3 DEF Fill, NotifierStep, NotifyLookup, NotifyState, NotifyFlag,
                NotifyCount, crVars, regVars, rqVars, dataVars, remVars
  <1>4. ASSUME NEW p \in Proc, ProcStep(p) PROVE Aside
    <2>1. CASE ProcLoop(p) \/ ProcLevel(p) \/ ProcLevelEnd(p) \/ ProcAcquire(p)
               \/ ProcUpdate(p)
      BY <2>1 DEF ProcLoop, ProcLevel, ProcLevelEnd, ProcAcquire, ProcUpdate,
                  crVars, regVars, rqVars, dataVars, remVars
    <2>2. CASE ProcSkip(p) \/ ProcResume(p) \/ ProcRelease(p) \/ ProcWait(p)
               \/ ProcWaitTimeout(p)
      BY <2>2 DEF ProcSkip, ProcResume, ProcRelease, ProcWait, ProcWaitTimeout,
                  crVars, regVars, rqVars, dataVars, remVars
    <2>3. CASE Body(p) \/ BodyFetch(p) \/ BodyHandled(p) \/ BodySleep(p)
      BY <2>3 DEF Body, BodyFetch, BodyHandled, BodySleep, regVars, rqVars,
                  dataVars, remVars
    <2>4. QED
      BY <1>4, <2>1, <2>2, <2>3 DEF ProcStep
  <1>5. ASSUME NEW r \in Remover, RemoveTask(r) PROVE Aside
    BY <1>1, <1>5 DEF RemoveTask, Rem, RLabel, crVars, regVars, rqVars, dataVars
  <1>6. CASE Shutdown
    BY <1>1, <1>6 DEF Shutdown, Rem, RLabel, crVars, regVars, rqVars, dataVars
  <1>7. CASE ShutdownStep
    <2>1. ASSUME NEW p \in Proc, ShutdownContext(p) \/ ShutdownStop(p) PROVE Aside
      BY <2>1 DEF ShutdownContext, ShutdownStop, crVars, regVars, rqVars,
                  dataVars, remVars
    <2>2. CASE ShutdownList \/ ShutdownDone
      BY <1>1, <2>2 DEF ShutdownList, ShutdownDone, Rem, RLabel, crVars, regVars,
                        rqVars, dataVars
    <2>3. ASSUME NEW id \in Id, ShutdownRemove(id) PROVE Aside
      BY <1>1, <2>3 DEF ShutdownRemove, Rem, RLabel, crVars, regVars, rqVars,
                        dataVars
    <2>4. QED
      BY <1>7, <2>1, <2>2, <2>3 DEF ShutdownStep
  <1>8. CASE UNCHANGED vars
    BY <1>8 DEF vars, crVars, regVars, rqVars, dataVars, remVars
  <1>9. QED
    BY <1>2, <1>3, <1>4, <1>5, <1>6, <1>7, <1>8 DEF Next, Stopped

\* Nobody but the owner of an id's mutex is inside: a mutex that is free is
\* taken, one that is held is given back by its owner.
LEMMA MutexStep == TypeInv /\ MutexInv /\ [Next]_vars => MutexInv'
  <1> SUFFICES ASSUME TypeInv, MutexInv, [Next]_vars PROVE MutexInv'
    OBVIOUS
  <1>1. /\ cpc \in [CRoutine -> CLabel] /\ rpc \in [Rem -> RLabel]
        /\ id_mutex \in [Id -> CRoutine \cup Rem \cup {None}]
        /\ \A r \in Rem : rpc[r] \in Using => rid[r] \in Id
    BY DEF TypeInv, TypeOK, Labels
  <1>2. /\ None \notin CRoutine /\ None \notin Rem
        /\ \A cr \in CRoutine : cr \notin Rem
    BY SchedulerAssumption DEF Rem
  <1> USE IdType DEF MutexInv, Dispatching, Removing
  <1>3. CASE Aside
    BY <1>3 DEF Aside, registryVars
  <1>4. ASSUME NEW cr \in CRoutine, CreatorStep(cr) PROVE MutexInv'
    <2>0. UNCHANGED <<rpc, rid>>
      BY <1>4 DEF CreatorStep, CreateTask, DispatchLock, DispatchInsert,
                  DispatchEnqueue, DispatchNotify, RegisterCallback, remVars
    <2>1. CASE CreateTask(cr)
      BY <1>1, <2>0, <2>1 DEF CreateTask, regVars
    <2>2. CASE DispatchLock(cr)
      BY <1>1, <1>2, <2>0, <2>2 DEF DispatchLock, Using
    <2>3. CASE DispatchInsert(cr)
      <3>1. CASE id_cr_[IdOf[cr]] # None
        BY <1>1, <1>2, <2>0, <2>3, <3>1 DEF DispatchInsert, Using
      <3>2. CASE id_cr_[IdOf[cr]] = None
        BY <1>1, <1>2, <2>0, <2>3, <3>2 DEF DispatchInsert
      <3>3. QED
        BY <3>1, <3>2
    <2>4. CASE DispatchEnqueue(cr)
      BY <1>1, <2>0, <2>4 DEF DispatchEnqueue, regVars
    <2>5. CASE DispatchNotify(cr)
      BY <1>1, <1>2, <2>0, <2>5 DEF DispatchNotify, Using
    <2>6. CASE RegisterCallback(cr)
      BY <1>1, <2>0, <2>6 DEF RegisterCallback, regVars
    <2>7. QED
      BY <1>4, <2>1, <2>2, <2>3, <2>4, <2>5, <2>6 DEF CreatorStep
  <1>5. ASSUME NEW r \in Rem, RemoveStep(r) PROVE MutexInv'
    <2>0. UNCHANGED <<cpc, rid>>
      BY <1>5 DEF RemoveStep, RemoveLock, RemoveErase, RemoveRqLock,
                  RemoveAcquire
    <2>1. CASE RemoveLock(r)
      BY <1>1, <1>2, <2>0, <2>1 DEF RemoveLock, Using
    <2>2. CASE RemoveErase(r)
      BY <1>1, <1>2, <2>0, <2>2 DEF RemoveErase, Using, Returned
    <2>3. CASE RemoveRqLock(r)
      <3>1. \/ rpc' = [rpc EXCEPT ![r] = "acquire"] /\ id_mutex' = id_mutex
            \/ /\ rpc' = [rpc EXCEPT ![r] = Returned(r)]
               /\ id_mutex' = [id_mutex EXCEPT ![rid[r]] = None]
        BY <2>3 DEF RemoveRqLock
      <3>2. rpc[r] = "rqlock"
        BY <2>3 DEF RemoveRqLock
      <3>3. QED
        BY <1>1, <1>2, <2>0, <3>1, <3>2 DEF Using, Returned
    <2>4. CASE RemoveAcquire(r)
      BY <1>1, <1>2, <2>0, <2>4 DEF RemoveAcquire, Using, Returned
    <2>5. QED
      BY <1>5, <2>1, <2>2, <2>3, <2>4 DEF RemoveStep
  <1>6. QED
    BY <1>3, <1>4, <1>5, RegistrySteps

-----------------------------------------------------------------------------
(* The run queues.                                                         *)

\* A routine is put at the end of a level.
LEMMA AppendIn ==
    ASSUME TypeInv, NEW cr \in CRoutine, NEW i \in Prio,
           multi_pri_rq_' = [multi_pri_rq_ EXCEPT ![i] = Append(@, cr)]
    PROVE  /\ \A j \in Prio : In(j)' = IF j = i THEN In(j) \cup {cr} ELSE In(j)
           /\ cr \notin In(i) /\ NoTwins(multi_pri_rq_[i])
                => NoTwins(multi_pri_rq_'[i])
  <1>1. multi_pri_rq_ \in [Prio -> Seq(CRoutine)]
    BY DEF TypeInv, TypeOK
  <1> DEFINE q == multi_pri_rq_[i]
             n == multi_pri_rq_'[i]
  <1>2. q \in Seq(CRoutine) /\ n = Append(q, cr)
    BY <1>1
  <1>3. \A j \in Prio : j # i => multi_pri_rq_'[j] = multi_pri_rq_[j]
    BY <1>1
  <1>4. /\ Len(n) = Len(q) + 1 /\ n[Len(q) + 1] = cr /\ Len(q) \in Nat
        /\ \A k \in 1 .. Len(q) : n[k] = q[k]
    BY <1>2
  <1>5. \A j \in Prio : j # i => In(j)' = In(j)
    BY <1>3 DEF In
  <1>6. In(i)' = {n[k] : k \in 1 .. Len(n)} /\ In(i) = {q[k] : k \in 1 .. Len(q)}
    BY DEF In
  <1> HIDE DEF q, n
  <1>7. {n[k] : k \in 1 .. Len(n)} = {q[k] : k \in 1 .. Len(q)} \cup {cr}
    <2>1. \A k \in 1 .. Len(n) : k \in 1 .. Len(q) \/ k = Len(q) + 1
      BY <1>4
    <2>2. \A k \in 1 .. Len(q) : k \in 1 .. Len(n)
      BY <1>4
    <2>3. Len(q) + 1 \in 1 .. Len(n)
      BY <1>4
    <2>4. QED
      BY <1>4, <2>1, <2>2, <2>3
  <1>8. ASSUME cr \notin In(i), NoTwins(q) PROVE NoTwins(n)
    <2>1. \A k \in 1 .. Len(q) : q[k] # cr
      BY <1>6, <1>8
    <2>2. QED
      BY <1>4, <1>8, <2>1 DEF NoTwins
  <1>9. QED
    BY <1>5, <1>6, <1>7, <1>8 DEF q, n

\* A routine's place in a level is erased.
LEMMA EraseIn ==
    ASSUME TypeInv, NEW i \in Prio, NEW f \in 1 .. Len(multi_pri_rq_[i]),
           NoTwins(multi_pri_rq_[i]),
           multi_pri_rq_' = [multi_pri_rq_ EXCEPT ![i] = RemoveAt(@, f)]
    PROVE  /\ \A j \in Prio : In(j)' = IF j = i THEN In(j) \ {multi_pri_rq_[i][f]}
                                       ELSE In(j)
           /\ NoTwins(multi_pri_rq_'[i])
  <1>1. multi_pri_rq_ \in [Prio -> Seq(CRoutine)]
    BY DEF TypeInv, TypeOK
  <1> DEFINE q == multi_pri_rq_[i]
             n == multi_pri_rq_'[i]
  <1>2. q \in Seq(CRoutine) /\ n = RemoveAt(q, f)
    BY <1>1
  <1>3. \A j \in Prio : j # i => multi_pri_rq_'[j] = multi_pri_rq_[j]
    BY <1>1
  <1>4. \A j \in Prio : j # i => In(j)' = In(j)
    BY <1>3 DEF In
  <1>5. In(i)' = {n[k] : k \in 1 .. Len(n)} /\ In(i) = {q[k] : k \in 1 .. Len(q)}
    BY DEF In
  <1> HIDE DEF q, n
  <1>6. f \in 1 .. Len(q) /\ Len(q) \in Nat /\ NoTwins(q)
    BY <1>2 DEF q
  <1>7. /\ Len(n) = Len(q) - 1
        /\ \A k \in 1 .. Len(q) - 1 : n[k] = IF k < f THEN q[k] ELSE q[k + 1]
    BY <1>2, <1>6, RemoveAtFacts
  <1>8. {n[k] : k \in 1 .. Len(n)} = {q[k] : k \in 1 .. Len(q)} \ {q[f]}
    <2>1. ASSUME NEW k \in 1 .. Len(n)
          PROVE  \E l \in 1 .. Len(q) : l # f /\ n[k] = q[l]
      <3>1. CASE k < f
        BY <1>6, <1>7, <3>1
      <3>2. CASE k >= f
        <4>1. n[k] = q[k + 1] /\ k + 1 \in 1 .. Len(q) /\ k + 1 # f
          BY <1>6, <1>7, <3>2
        <4>2. QED
          BY <4>1
      <3>3. k < f \/ k >= f
        BY <1>6, <1>7
      <3>4. QED
        BY <3>1, <3>2, <3>3
    <2>2. ASSUME NEW l \in 1 .. Len(q), l # f
          PROVE  \E k \in 1 .. Len(n) : n[k] = q[l]
      <3>1. CASE l < f
        BY <1>6, <1>7, <3>1
      <3>2. CASE l > f
        <4>1. l - 1 \in 1 .. Len(n) /\ n[l - 1] = q[(l - 1) + 1]
              /\ (l - 1) + 1 = l
          BY <1>6, <1>7, <3>2
        <4>2. QED
          BY <4>1
      <3>3. l < f \/ l > f
        BY <1>6, <2>2
      <3>4. QED
        BY <3>1, <3>2, <3>3
    <2>3. \A l \in 1 .. Len(q) : q[l] = q[f] => l = f
      BY <1>6 DEF NoTwins
    <2>4. ASSUME NEW x \in {n[k] : k \in 1 .. Len(n)}
          PROVE  x \in {q[k] : k \in 1 .. Len(q)} \ {q[f]}
      <3>1. PICK k \in 1 .. Len(n) : x = n[k]
        OBVIOUS
      <3>2. PICK l \in 1 .. Len(q) : l # f /\ x = q[l]
        BY <2>1, <3>1
      <3>3. QED
        BY <2>3, <3>2
    <2>5. ASSUME NEW x \in {q[k] : k \in 1 .. Len(q)} \ {q[f]}
          PROVE  x \in {n[k] : k \in 1 .. Len(n)}
      <3>1. PICK l \in 1 .. Len(q) : l # f /\ x = q[l]
        OBVIOUS
      <3>2. QED
        BY <2>2, <3>1
    <2>6. QED
      BY <2>4, <2>5
  <1>9. NoTwins(n)
    <2> SUFFICES ASSUME NEW k \in 1 .. Len(n), NEW l \in 1 .. Len(n), n[k] = n[l]
                 PROVE  k = l
      BY DEF NoTwins
    <2> DEFINE m(x) == IF x < f THEN x ELSE x + 1
    <2>1. \A x \in 1 .. Len(n) : m(x) \in 1 .. Len(q) /\ n[x] = q[m(x)]
      BY <1>6, <1>7
    <2>2. m(k) = m(l)
      <3> HIDE DEF m
      <3> QED
        BY <1>6, <2>1 DEF NoTwins
    <2>3. k \in Int /\ l \in Int /\ f \in Int
      BY <1>6, <1>7
    <2>4. QED
      BY <2>2, <2>3
  <1>10. QED
    BY <1>4, <1>5, <1>8, <1>9 DEF q, n

\* A remover finds the routine that it has erased from the registry, and no
\* other, under the id.
LEMMA VictimPlace ==
    ASSUME TypeInv, MutexInv, QueueInv, NEW r \in Rem, Erased(r),
           NEW q, q = multi_pri_rq_[PrioOf[victim[r]]]
    PROVE  /\ PrioOf[victim[r]] \in Prio /\ q \in Seq(CRoutine)
           /\ FirstWithId(q, rid[r]) \in 1 .. Len(q)
           /\ q[FirstWithId(q, rid[r])] = victim[r]
  <1>1. /\ victim[r] \in CRoutine /\ rid[r] \in Id
        /\ multi_pri_rq_ \in [Prio -> Seq(CRoutine)]
    BY DEF TypeInv, TypeOK, Labels, Erased, Using
  <1>2. PrioOf[victim[r]] \in Prio /\ q \in Seq(CRoutine)
    BY <1>1, SchedulerAssumption
  <1>3. /\ IdOf[victim[r]] = rid[r] /\ id_cr_[rid[r]] = None
        /\ victim[r] \in In(PrioOf[victim[r]])
    BY DEF QueueInv, KnownIsQueued
  <1>4. In(PrioOf[victim[r]]) = {q[k] : k \in 1 .. Len(q)}
    BY DEF In
  <1>5. \E k \in 1 .. Len(q) : IdOf[q[k]] = rid[r]
    BY <1>3, <1>4
  <1> DEFINE f == FirstWithId(q, rid[r])
  <1>6. f \in 1 .. Len(q) /\ IdOf[q[f]] = rid[r]
    BY <1>2, <1>5, FirstPlace
  <1> HIDE DEF f
  <1>7. q[f] \in In(PrioOf[victim[r]]) /\ q[f] \in CRoutine
    BY <1>2, <1>4, <1>6
  <1>8. q[f] # None
    BY <1>7, SchedulerAssumption
  <1>9. PICK o \in Rem : Erased(o) /\ rid[o] = rid[r] /\ victim[o] = q[f]
    BY <1>2, <1>3, <1>6, <1>7, <1>8 DEF QueueInv, QueuedIsKnown
  <1>10. o = r
    BY <1>9 DEF MutexInv, Removing, Erased
  <1>11. QED
    BY <1>2, <1>6, <1>9, <1>10 DEF f

\* The run queues, the registry and the removers stay in step.
LEMMA QueueStep == TypeInv /\ MutexInv /\ QueueInv /\ [Next]_vars => QueueInv'
  <1> SUFFICES ASSUME TypeInv, MutexInv, QueueInv, [Next]_vars PROVE QueueInv'
    OBVIOUS
  <1>1. /\ cpc \in [CRoutine -> CLabel] /\ rpc \in [Rem -> RLabel]
        /\ \A r \in Rem : Removing(r) => rid[r] \in Id
        /\ id_cr_ \in [Id -> CRoutine \cup {None}]
        /\ removed \subseteq CRoutine
        /\ \A r \in Rem : Erased(r) => victim[r] \in CRoutine
        /\ victim \in [Rem -> CRoutine \cup {None}]
    BY DEF TypeInv, TypeOK, Labels, Using, Removing, Erased
  <1>2. \A i \in Prio : \A cr \in In(i) : cr \in CRoutine
    BY DEF TypeInv, TypeOK, In
  <1>3. /\ None \notin CRoutine /\ \A cr \in CRoutine : cr \notin Rem
        /\ PrioOf \in [CRoutine -> Prio]
    BY SchedulerAssumption DEF Rem
  <1>4. CASE Aside
    <2>1. \A i \in Prio : In(i)' = In(i)
      BY <1>4 DEF Aside, registryVars, In
    <2>2. \A r \in Rem : Erased(r)' = Erased(r) /\ (Erased(r) => rid'[r] = rid[r])
      BY <1>4 DEF Aside, Erased, Removing
    <2>3. UNCHANGED <<id_cr_, multi_pri_rq_, cpc, victim, removed>>
      BY <1>4 DEF Aside, registryVars
    <2>4. QED
      BY <1>1, <1>3, <2>1, <2>2, <2>3
      DEF QueueInv, QueuedOnce, QueuedIsKnown, KnownIsQueued
  <1>5. ASSUME NEW cr \in CRoutine, CreatorStep(cr) PROVE QueueInv'
    <2>1. UNCHANGED <<rpc, rid, victim, removed>>
      BY <1>5 DEF CreatorStep, CreateTask, DispatchLock, DispatchInsert,
                  DispatchEnqueue, DispatchNotify, RegisterCallback, remVars
    <2>2. \A r \in Rem : Erased(r)' = Erased(r)
      BY <2>1 DEF Erased
    <2>3. ASSUME cpc[cr] \in {"new", "mutex", "insert"},
                 \E l \in {"failed", "mutex", "insert"} : cpc' = [cpc EXCEPT ![cr] = l],
                 UNCHANGED <<id_cr_, multi_pri_rq_>>
          PROVE  QueueInv'
      <3>1. \A i \in Prio : In(i)' = In(i)
        BY <2>3 DEF In
      <3>2. \A i \in Prio : cr \notin In(i)
        BY <2>3 DEF QueueInv, QueuedOnce, Entered
      <3>3. cr \notin removed
        BY <2>3 DEF QueueInv, QueuedOnce, Entered
      <3>4. /\ cpc'[cr] \in {"failed", "mutex", "insert"}
            /\ \A o \in CRoutine : o # cr => cpc'[o] = cpc[o]
        BY <1>1, <2>3
      <3>5. QueuedOnce'
        BY <1>1, <1>2, <2>1, <2>3, <3>1, <3>2, <3>3, <3>4 DEF QueueInv, QueuedOnce
      <3>6. QueuedIsKnown'
        BY <1>1, <2>1, <2>2, <2>3, <3>1, <3>4 DEF QueueInv, QueuedIsKnown
      <3>7. KnownIsQueued'
        <4>1. ASSUME NEW id \in Id, id_cr_[id] # None
              PROVE  /\ IdOf[id_cr_[id]] = id /\ id_cr_[id] \in CRoutine
                     /\ \/ id_cr_[id] \in In(PrioOf[id_cr_[id]])
                        \/ id_cr_[id] # cr /\ cpc[id_cr_[id]] = "enqueue"
          BY <1>1, <2>3, <4>1 DEF QueueInv, KnownIsQueued
        <4>2. \A r \in Rem : Erased(r) =>
                /\ IdOf[victim[r]] = rid[r] /\ id_cr_[rid[r]] = None
                /\ victim[r] \in In(PrioOf[victim[r]])
          BY DEF QueueInv, KnownIsQueued
        <4>3. \A o \in CRoutine : PrioOf[o] \in Prio
          BY <1>3
        <4>4. QED
          BY <1>1, <2>1, <2>2, <2>3, <3>1, <3>4, <4>1, <4>2, <4>3
          DEF KnownIsQueued
      <3>8. QED
        BY <3>5, <3>6, <3>7 DEF QueueInv
    <2>4. ASSUME cpc[cr] \in {"notify", "register"},
                 \E l \in {"register", "created"} : cpc' = [cpc EXCEPT ![cr] = l],
                 UNCHANGED <<id_cr_, multi_pri_rq_>>
          PROVE  QueueInv'
      <3>1. \A i \in Prio : In(i)' = In(i)
        BY <2>4 DEF In
      <3>2. /\ cpc'[cr] \in {"register", "created"}
            /\ \A o \in CRoutine : o # cr => cpc'[o] = cpc[o]
        BY <1>1, <2>4
      <3>3. QueuedOnce'
        BY <1>1, <1>2, <2>1, <2>4, <3>1, <3>2 DEF QueueInv, QueuedOnce, Entered
      <3>4. QueuedIsKnown'
        BY <1>1, <2>1, <2>2, <2>4, <3>1, <3>2 DEF QueueInv, QueuedIsKnown
      <3>5. KnownIsQueued'
        <4>1. ASSUME NEW id \in Id, id_cr_[id] # None
              PROVE  /\ IdOf[id_cr_[id]] = id /\ id_cr_[id] \in CRoutine
                     /\ \/ id_cr_[id] \in In(PrioOf[id_cr_[id]])
                        \/ id_cr_[id] # cr /\ cpc[id_cr_[id]] = "enqueue"
          BY <1>1, <2>4, <4>1 DEF QueueInv, KnownIsQueued
        <4>2. \A r \in Rem : Erased(r) =>
                /\ IdOf[victim[r]] = rid[r] /\ id_cr_[rid[r]] = None
                /\ victim[r] \in In(PrioOf[victim[r]])
          BY DEF QueueInv, KnownIsQueued
        <4>3. \A o \in CRoutine : PrioOf[o] \in Prio
          BY <1>3
        <4>4. QED
          BY <1>1, <2>1, <2>2, <2>4, <3>1, <3>2, <4>1, <4>2, <4>3
          DEF KnownIsQueued
      <3>6. QED
        BY <3>3, <3>4, <3>5 DEF QueueInv
    <2>5. CASE CreateTask(cr)
      BY <2>3, <2>5 DEF CreateTask, regVars, rqVars
    <2>6. CASE DispatchLock(cr)
      BY <2>3, <2>6 DEF DispatchLock, rqVars
    <2>7. CASE DispatchInsert(cr)
      <3>1. CASE id_cr_[IdOf[cr]] # None
        BY <2>3, <2>7, <3>1 DEF DispatchInsert, rqVars
      <3>2. CASE id_cr_[IdOf[cr]] = None
        <4>1. /\ cpc[cr] = "insert" /\ cpc' = [cpc EXCEPT ![cr] = "enqueue"]
              /\ id_cr_' = [id_cr_ EXCEPT ![IdOf[cr]] = cr]
              /\ multi_pri_rq_' = multi_pri_rq_
          BY <2>7, <3>2 DEF DispatchInsert, rqVars
        <4>2. \A i \in Prio : In(i)' = In(i) /\ cr \notin In(i)
          BY <4>1 DEF In, QueueInv, QueuedOnce, Entered
        <4>3. /\ cpc'[cr] = "enqueue" /\ cr \notin removed
              /\ \A o \in CRoutine : o # cr => cpc'[o] = cpc[o]
          BY <1>1, <4>1 DEF QueueInv, QueuedOnce, Entered
        <4>4. \A r \in Rem : Erased(r) => rid[r] # IdOf[cr]
          BY <1>3, <4>1 DEF MutexInv, Dispatching, Removing, Erased
        <4>5. /\ id_cr_'[IdOf[cr]] = cr
              /\ \A id \in Id : id # IdOf[cr] => id_cr_'[id] = id_cr_[id]
          BY <1>1, <4>1, IdType
        <4>6. QueuedOnce'
          BY <1>1, <1>2, <2>1, <4>1, <4>2, <4>3 DEF QueueInv, QueuedOnce
        <4>7. QueuedIsKnown'
          <5>1. ASSUME NEW i \in Prio, NEW o \in In(i)
                PROVE  \/ id_cr_'[IdOf[o]] = o
                       \/ \E r \in Rem : /\ Erased(r)' /\ rid'[r] = IdOf[o]
                                         /\ victim'[r] = o
            BY <1>2, <1>3, <2>1, <2>2, <3>2, <4>4, <4>5, IdType
            DEF QueueInv, QueuedIsKnown
          <5>2. ASSUME NEW o \in CRoutine, cpc'[o] = "enqueue"
                PROVE  id_cr_'[IdOf[o]] = o
            <6>1. CASE o = cr
              BY <4>5, <6>1
            <6>2. CASE o # cr
              <7>1. id_cr_[IdOf[o]] = o
                BY <4>3, <5>2, <6>2 DEF QueueInv, QueuedIsKnown
              <7>2. QED
                BY <1>3, <3>2, <4>5, <7>1, IdType
            <6>3. QED
              BY <6>1, <6>2
          <5>3. QED
            BY <4>2, <5>1, <5>2 DEF QueuedIsKnown
        <4>8. KnownIsQueued'
          <5>1. \A o \in CRoutine : PrioOf[o] \in Prio
            BY <1>3
          <5>2. ASSUME NEW id \in Id, id_cr_'[id] # None
                PROVE  (/\ IdOf[id_cr_[id]] = id
                        /\ \/ id_cr_[id] \in In(PrioOf[id_cr_[id]])
                           \/ cpc[id_cr_[id]] = "enqueue")'
            <6>1. CASE id = IdOf[cr]
              BY <4>3, <4>5, <6>1
            <6>2. CASE id # IdOf[cr]
              <7>1. PICK o \in CRoutine : o = id_cr_[id]
                BY <1>1, <4>5, <5>2, <6>2
              <7>2. /\ IdOf[o] = id
                    /\ o \in In(PrioOf[o]) \/ cpc[o] = "enqueue"
                BY <4>5, <5>2, <6>2, <7>1 DEF QueueInv, KnownIsQueued
              <7>3. cpc'[o] = cpc[o] /\ id_cr_'[id] = o /\ In(PrioOf[o])' = In(PrioOf[o])
                BY <4>2, <4>3, <4>5, <5>1, <6>2, <7>1, <7>2
              <7>4. QED
                BY <7>2, <7>3
            <6>3. QED
              BY <6>1, <6>2
          <5>3. ASSUME NEW r \in Rem, Erased(r)'
                PROVE  (/\ IdOf[victim[r]] = rid[r] /\ id_cr_[rid[r]] = None
                        /\ victim[r] \in In(PrioOf[victim[r]]))'
            <6>1. PICK o \in CRoutine : o = victim[r]
              BY <1>1, <2>2, <5>3
            <6>2. /\ Erased(r) /\ IdOf[o] = rid[r] /\ id_cr_[rid[r]] = None
                  /\ o \in In(PrioOf[o]) /\ rid[r] \in Id
              BY <1>1, <2>2, <5>3, <6>1 DEF QueueInv, KnownIsQueued, Erased, Removing
            <6>3. o \in In(PrioOf[o])' /\ id_cr_'[rid[r]] = None
              BY <4>2, <4>4, <4>5, <5>1, <6>2
            <6>4. QED
              BY <2>1, <6>1, <6>2, <6>3
          <5>4. QED
            BY <5>2, <5>3 DEF KnownIsQueued
        <4>9. QED
          BY <4>6, <4>7, <4>8 DEF QueueInv
      <3>3. QED
        BY <3>1, <3>2
    <2>8. CASE DispatchEnqueue(cr)
      <3>1. /\ cpc[cr] = "enqueue" /\ cpc' = [cpc EXCEPT ![cr] = "notify"]
            /\ multi_pri_rq_' = [multi_pri_rq_ EXCEPT ![PrioOf[cr]] = Append(@, cr)]
            /\ id_cr_' = id_cr_ /\ PrioOf[cr] \in Prio
        BY <1>3, <2>8 DEF DispatchEnqueue, regVars
      <3>2. \A i \in Prio : cr \notin In(i)
        BY <3>1 DEF QueueInv, QueuedOnce, Entered
      <3>3. \A j \in Prio : In(j)' = IF j = PrioOf[cr] THEN In(j) \cup {cr} ELSE In(j)
        BY <3>1, AppendIn
      <3>4. NoTwins(multi_pri_rq_'[PrioOf[cr]])
        BY <3>1, <3>2, AppendIn DEF QueueInv, QueuedOnce
      <3>5. \A j \in Prio : j # PrioOf[cr] => multi_pri_rq_'[j] = multi_pri_rq_[j]
        BY <3>1 DEF TypeInv, TypeOK
      <3>6. /\ cpc'[cr] = "notify" /\ cr \notin removed
            /\ \A o \in CRoutine : o # cr => cpc'[o] = cpc[o]
        BY <1>1, <3>1 DEF QueueInv, QueuedOnce, Entered
      <3>7. id_cr_[IdOf[cr]] = cr
        BY <3>1 DEF QueueInv, QueuedIsKnown
      <3>8. QueuedOnce'
        <4>1. ASSUME NEW i \in Prio, NEW o \in In(i)'
              PROVE  PrioOf[o] = i /\ cpc'[o] \in Entered /\ o \notin removed'
          BY <1>2, <2>1, <3>1, <3>3, <3>6, <4>1 DEF QueueInv, QueuedOnce, Entered
        <4>2. \A i \in Prio : NoTwins(multi_pri_rq_'[i])
          BY <3>1, <3>4, <3>5 DEF QueueInv, QueuedOnce
        <4>3. \A o \in removed' : cpc'[o] \in Entered
          BY <1>1, <2>1, <3>6 DEF QueueInv, QueuedOnce
        <4>4. QED
          BY <4>1, <4>2, <4>3 DEF QueuedOnce, NoTwins
      <3>9. QueuedIsKnown'
        <4>1. ASSUME NEW i \in Prio, NEW o \in In(i)'
              PROVE  \/ id_cr_'[IdOf[o]] = o
                     \/ \E r \in Rem : /\ Erased(r)' /\ rid'[r] = IdOf[o]
                                       /\ victim'[r] = o
          BY <2>1, <2>2, <3>1, <3>3, <3>7, <4>1 DEF QueueInv, QueuedIsKnown
        <4>2. \A o \in CRoutine : cpc'[o] = "enqueue" => id_cr_'[IdOf[o]] = o
          BY <3>1, <3>6 DEF QueueInv, QueuedIsKnown
        <4>3. QED
          BY <4>1, <4>2 DEF QueuedIsKnown
      <3>10. KnownIsQueued'
        <4>1. \A o \in CRoutine : PrioOf[o] \in Prio
          BY <1>3
        <4>2. ASSUME NEW id \in Id, id_cr_[id] # None
              PROVE  /\ IdOf[id_cr_[id]] = id /\ id_cr_[id] \in CRoutine
                     /\ (\/ id_cr_[id] \in In(PrioOf[id_cr_[id]])
                         \/ cpc[id_cr_[id]] = "enqueue")'
          <5>1. PICK o \in CRoutine : o = id_cr_[id]
            BY <1>1, <4>2
          <5>2. IdOf[o] = id /\ (o \in In(PrioOf[o]) \/ cpc[o] = "enqueue")
            BY <4>2, <5>1 DEF QueueInv, KnownIsQueued
          <5>3. o \in In(PrioOf[o])' \/ cpc'[o] = "enqueue"
            BY <3>1, <3>3, <3>6, <4>1, <5>2
          <5>4. QED
            BY <5>1, <5>2, <5>3, <3>1
        <4>3. ASSUME NEW r \in Rem, Erased(r)
              PROVE  /\ IdOf[victim[r]] = rid[r] /\ id_cr_[rid[r]] = None
                     /\ (victim[r] \in In(PrioOf[victim[r]]))'
          <5>1. PICK o \in CRoutine : o = victim[r]
            BY <1>1, <4>3
          <5>2. IdOf[o] = rid[r] /\ id_cr_[rid[r]] = None /\ o \in In(PrioOf[o])
            BY <4>3, <5>1 DEF QueueInv, KnownIsQueued
          <5>3. o \in In(PrioOf[o])'
            BY <3>3, <4>1, <5>2
          <5>4. QED
            BY <2>1, <5>1, <5>2, <5>3
        <4>4. QED
          BY <2>1, <2>2, <3>1, <4>2, <4>3 DEF KnownIsQueued
      <3>11. QED
        BY <3>8, <3>9, <3>10 DEF QueueInv
    <2>9. CASE DispatchNotify(cr)
      BY <2>4, <2>9 DEF DispatchNotify, rqVars
    <2>10. CASE RegisterCallback(cr)
      BY <2>4, <2>10 DEF RegisterCallback, regVars, rqVars
    <2>11. QED
      BY <1>5, <2>5, <2>6, <2>7, <2>8, <2>9, <2>10 DEF CreatorStep
  <1>6. ASSUME NEW r \in Rem, RemoveStep(r) PROVE QueueInv'
    <2>1. UNCHANGED <<cpc, rid>>
      BY <1>6 DEF RemoveStep, RemoveLock, RemoveErase, RemoveRqLock,
                  RemoveAcquire
    <2>2. Returned(r) \in {"list", "done"}
      BY DEF Returned
    <2>3. ASSUME UNCHANGED <<id_cr_, multi_pri_rq_, victim, removed>>,
                 \A o \in Rem : Erased(o)' = Erased(o)
          PROVE  QueueInv'
      <3>1. \A i \in Prio : In(i)' = In(i)
        BY <2>3 DEF In
      <3>2. QED
        BY <1>1, <1>3, <2>1, <2>3, <3>1
        DEF QueueInv, QueuedOnce, QueuedIsKnown, KnownIsQueued
    <2>4. CASE RemoveLock(r)
      BY <1>1, <2>3, <2>4 DEF RemoveLock, Erased, rqVars
    <2>5. CASE RemoveErase(r)
      <3>1. CASE id_cr_[rid[r]] = None
        BY <1>1, <2>2, <2>3, <2>5, <3>1 DEF RemoveErase, Erased, rqVars
      <3>2. CASE id_cr_[rid[r]] # None
        <4>1. /\ rpc[r] = "erase" /\ rpc' = [rpc EXCEPT ![r] = "rqlock"]
              /\ victim' = [victim EXCEPT ![r] = id_cr_[rid[r]]]
              /\ id_cr_' = [id_cr_ EXCEPT ![rid[r]] = None]
              /\ UNCHANGED <<multi_pri_rq_, removed>>
          BY <2>5, <3>2 DEF RemoveErase, rqVars
        <4>2. rid[r] \in Id /\ id_mutex[rid[r]] = r
          BY <1>1, <4>1 DEF MutexInv, Removing
        <4>3. PICK v \in CRoutine : v = id_cr_[rid[r]]
          BY <1>1, <3>2, <4>2
        <4>4. IdOf[v] = rid[r] /\ v \in In(PrioOf[v])
          <5>1. IdOf[v] = rid[r] /\ (v \in In(PrioOf[v]) \/ cpc[v] = "enqueue")
            BY <3>2, <4>2, <4>3 DEF QueueInv, KnownIsQueued
          <5>2. cpc[v] # "enqueue"
            BY <1>3, <4>2, <5>1 DEF MutexInv, Dispatching
          <5>3. QED
            BY <5>1, <5>2
        <4>5. /\ victim'[r] = v /\ Erased(r)' /\ ~Erased(r)
              /\ \A o \in Rem : o # r =>
                   victim'[o] = victim[o] /\ Erased(o)' = Erased(o)
          BY <1>1, <4>1, <4>3 DEF Erased
        <4>6. /\ id_cr_'[rid[r]] = None
              /\ \A id \in Id : id # rid[r] => id_cr_'[id] = id_cr_[id]
          BY <1>1, <4>1, <4>2
        <4>7. \A i \in Prio : In(i)' = In(i)
          BY <4>1 DEF In
        <4>8. QueuedOnce'
          BY <2>1, <4>1, <4>7 DEF QueueInv, QueuedOnce
        <4>9. QueuedIsKnown'
          <5>1. ASSUME NEW i \in Prio, NEW o \in In(i)
                PROVE  \/ id_cr_'[IdOf[o]] = o
                       \/ \E u \in Rem : /\ Erased(u)' /\ rid'[u] = IdOf[o]
                                         /\ victim'[u] = o
            <6>1. CASE id_cr_[IdOf[o]] = o
              <7>1. CASE IdOf[o] = rid[r]
                BY <2>1, <4>3, <4>5, <6>1, <7>1
              <7>2. CASE IdOf[o] # rid[r]
                BY <1>2, <4>6, <6>1, <7>2, IdType
              <7>3. QED
                BY <7>1, <7>2
            <6>2. CASE \E u \in Rem : Erased(u) /\ rid[u] = IdOf[o] /\ victim[u] = o
              BY <2>1, <4>5, <6>2
            <6>3. QED
              BY <6>1, <6>2 DEF QueueInv, QueuedIsKnown
          <5>2. ASSUME NEW o \in CRoutine, cpc[o] = "enqueue"
                PROVE  id_cr_'[IdOf[o]] = o
            <6>1. IdOf[o] # rid[r]
              BY <1>3, <4>2, <5>2 DEF MutexInv, Dispatching
            <6>2. QED
              BY <4>6, <5>2, <6>1, IdType DEF QueueInv, QueuedIsKnown
          <5>3. QED
            BY <2>1, <4>7, <5>1, <5>2 DEF QueuedIsKnown
        <4>10. KnownIsQueued'
          <5>1. \A o \in CRoutine : PrioOf[o] \in Prio
            BY <1>3
          <5>2. ASSUME NEW id \in Id, id_cr_'[id] # None
                PROVE  (/\ IdOf[id_cr_[id]] = id
                        /\ \/ id_cr_[id] \in In(PrioOf[id_cr_[id]])
                           \/ cpc[id_cr_[id]] = "enqueue")'
            <6>1. id_cr_'[id] = id_cr_[id]
              BY <4>6, <5>2
            <6>2. PICK o \in CRoutine : o = id_cr_[id]
              BY <1>1, <5>2, <6>1
            <6>3. IdOf[o] = id /\ (o \in In(PrioOf[o]) \/ cpc[o] = "enqueue")
              BY <5>2, <6>1, <6>2 DEF QueueInv, KnownIsQueued
            <6>4. o \in In(PrioOf[o])' \/ cpc'[o] = "enqueue"
              BY <2>1, <4>7, <5>1, <6>3
            <6>5. QED
              BY <6>1, <6>2, <6>3, <6>4
          <5>3. ASSUME NEW u \in Rem, Erased(u)'
                PROVE  (/\ IdOf[victim[u]] = rid[u] /\ id_cr_[rid[u]] = None
                        /\ victim[u] \in In(PrioOf[victim[u]]))'
            <6>1. CASE u = r
              BY <2>1, <4>4, <4>5, <4>6, <4>7, <5>1, <6>1
            <6>2. CASE u # r
              <7>1. Erased(u) /\ victim'[u] = victim[u]
                BY <4>5, <5>3, <6>2
              <7>2. PICK o \in CRoutine : o = victim[u]
                BY <1>1, <7>1
              <7>3. IdOf[o] = rid[u] /\ id_cr_[rid[u]] = None /\ o \in In(PrioOf[o])
                BY <7>1, <7>2 DEF QueueInv, KnownIsQueued
              <7>4. id_cr_'[rid[u]] = None /\ o \in In(PrioOf[o])'
                BY <4>6, <4>7, <5>1, <7>2, <7>3, IdType
              <7>5. QED
                BY <2>1, <7>1, <7>2, <7>3, <7>4
            <6>3. QED
              BY <6>1, <6>2
          <5>4. QED
            BY <5>2, <5>3 DEF KnownIsQueued
        <4>11. QED
          BY <4>8, <4>9, <4>10 DEF QueueInv
      <3>3. QED
        BY <3>1, <3>2
    <2>6. CASE RemoveRqLock(r)
      <3>1. Erased(r)
        BY <2>6 DEF RemoveRqLock, Erased
      <3> DEFINE q == multi_pri_rq_[PrioOf[victim[r]]]
      <3>2. /\ FirstWithId(q, rid[r]) \in 1 .. Len(q)
            /\ q[FirstWithId(q, rid[r])] = victim[r]
        BY <3>1, VictimPlace
      <3>3. IdOf[q[FirstWithId(q, rid[r])]] = rid[r]
        BY <3>1, <3>2 DEF QueueInv, KnownIsQueued
      <3>4. /\ rpc' = [rpc EXCEPT ![r] = "acquire"]
            /\ victim' = [victim EXCEPT ![r] = q[FirstWithId(q, rid[r])]]
            /\ UNCHANGED <<id_cr_, multi_pri_rq_, removed>>
        BY <2>6, <3>2, <3>3 DEF RemoveRqLock
      <3> HIDE DEF q
      <3>5. victim' = victim
        BY <1>1, <3>2, <3>4
      <3>6. \A o \in Rem : Erased(o)' = Erased(o)
        BY <1>1, <3>1, <3>4 DEF Erased
      <3>7. QED
        BY <2>3, <3>4, <3>5, <3>6
    <2>7. CASE RemoveAcquire(r)
      <3>1. Erased(r) /\ rpc[r] = "acquire"
        BY <2>7 DEF RemoveAcquire, Erased
      <3>2. PICK v \in CRoutine : v = victim[r]
        BY <1>1, <3>1
      <3>3. /\ IdOf[v] = rid[r] /\ id_cr_[rid[r]] = None /\ v \in In(PrioOf[v])
            /\ PrioOf[v] \in Prio /\ id_mutex[rid[r]] = r
        BY <1>3, <3>1, <3>2
        DEF QueueInv, KnownIsQueued, MutexInv, Removing, Erased
      <3>4. PICK f \in 1 .. Len(multi_pri_rq_[PrioOf[v]]) :
              /\ multi_pri_rq_[PrioOf[v]][f] = v
              /\ multi_pri_rq_' = [multi_pri_rq_ EXCEPT ![PrioOf[v]] = RemoveAt(@, f)]
        <4> DEFINE q == multi_pri_rq_[PrioOf[v]]
        <4>1. FirstWithId(q, rid[r]) \in 1 .. Len(q) /\ q[FirstWithId(q, rid[r])] = v
          BY <3>1, <3>2, VictimPlace
        <4>2. multi_pri_rq_' = [multi_pri_rq_ EXCEPT ![PrioOf[v]] =
                                  RemoveAt(@, FirstWithId(q, rid[r]))]
          BY <2>7, <3>2 DEF RemoveAcquire
        <4>3. QED
          BY <4>1, <4>2
      <3>5. \A i \in Prio : NoTwins(multi_pri_rq_[i])
        BY DEF QueueInv, QueuedOnce
      <3>6. /\ \A j \in Prio : In(j)' = IF j = PrioOf[v] THEN In(j) \ {v} ELSE In(j)
            /\ NoTwins(multi_pri_rq_'[PrioOf[v]])
        BY <3>3, <3>4, <3>5, EraseIn
      <3>7. \A j \in Prio : j # PrioOf[v] => multi_pri_rq_'[j] = multi_pri_rq_[j]
        BY <3>3, <3>4 DEF TypeInv, TypeOK
      <3>8. \A j \in Prio : \A o \in In(j)' : o \in In(j) /\ o # v
        BY <3>6 DEF QueueInv, QueuedOnce
      <3>9. \A j \in Prio : \A o \in In(j) : o # v => o \in In(j)'
        BY <3>6
      <3>10. /\ UNCHANGED <<id_cr_, victim>> /\ removed' = removed \cup {v}
             /\ rpc' = [rpc EXCEPT ![r] = Returned(r)]
        BY <2>7, <3>2 DEF RemoveAcquire
      <3>11. ~Erased(r)' /\ \A o \in Rem : o # r => Erased(o)' = Erased(o)
        BY <1>1, <2>2, <3>10 DEF Erased
      <3>12. \A o \in Rem : Erased(o) /\ o # r => rid[o] # rid[r]
        BY <3>3 DEF MutexInv, Removing, Erased
      <3>13. QueuedOnce'
        <4>1. \A i \in Prio : \A o \in In(i)' :
                PrioOf[o] = i /\ cpc'[o] \in Entered /\ o \notin removed'
          BY <2>1, <3>8, <3>10 DEF QueueInv, QueuedOnce
        <4>2. \A i \in Prio : NoTwins(multi_pri_rq_'[i])
          BY <3>5, <3>6, <3>7
        <4>3. \A o \in removed' : cpc'[o] \in Entered
          BY <2>1, <3>3, <3>10 DEF QueueInv, QueuedOnce
        <4>4. QED
          BY <4>1, <4>2, <4>3 DEF QueuedOnce, NoTwins
      <3>14. QueuedIsKnown'
        <4>1. ASSUME NEW i \in Prio, NEW o \in In(i)'
              PROVE  \/ id_cr_'[IdOf[o]] = o
                     \/ \E u \in Rem : /\ Erased(u)' /\ rid'[u] = IdOf[o]
                                       /\ victim'[u] = o
          <5>1. o \in In(i) /\ o # v
            BY <3>8, <4>1
          <5>2. CASE id_cr_[IdOf[o]] = o
            BY <3>10, <5>2
          <5>3. CASE \E u \in Rem : Erased(u) /\ rid[u] = IdOf[o] /\ victim[u] = o
            BY <2>1, <3>2, <3>10, <3>11, <5>1, <5>3
          <5>4. QED
            BY <5>1, <5>2, <5>3 DEF QueueInv, QueuedIsKnown
        <4>2. \A o \in CRoutine : cpc'[o] = "enqueue" => id_cr_'[IdOf[o]] = o
          BY <2>1, <3>10 DEF QueueInv, QueuedIsKnown
        <4>3. QED
          BY <4>1, <4>2 DEF QueuedIsKnown
      <3>15. KnownIsQueued'
        <4>1. \A o \in CRoutine : PrioOf[o] \in Prio
          BY <1>3
        <4>2. ASSUME NEW id \in Id, id_cr_'[id] # None
              PROVE  (/\ IdOf[id_cr_[id]] = id
                      /\ \/ id_cr_[id] \in In(PrioOf[id_cr_[id]])
                         \/ cpc[id_cr_[id]] = "enqueue")'
          <5>1. id_cr_'[id] = id_cr_[id]
            BY <3>10
          <5>2. PICK o \in CRoutine : o = id_cr_[id]
            BY <1>1, <4>2, <5>1
          <5>3. IdOf[o] = id /\ (o \in In(PrioOf[o]) \/ cpc[o] = "enqueue")
            BY <4>2, <5>1, <5>2 DEF QueueInv, KnownIsQueued
          <5>4. o # v
            BY <1>3, <3>3, <5>2, <5>3
          <5>5. o \in In(PrioOf[o])' \/ cpc'[o] = "enqueue"
            BY <2>1, <3>9, <4>1, <5>3, <5>4
          <5>6. QED
            BY <5>1, <5>2, <5>3, <5>5
        <4>3. ASSUME NEW u \in Rem, Erased(u)'
              PROVE  (/\ IdOf[victim[u]] = rid[u] /\ id_cr_[rid[u]] = None
                      /\ victim[u] \in In(PrioOf[victim[u]]))'
          <5>1. u # r /\ Erased(u) /\ rid[u] # rid[r]
            BY <3>11, <3>12, <4>3
          <5>2. PICK o \in CRoutine : o = victim[u]
            BY <1>1, <5>1
          <5>3. IdOf[o] = rid[u] /\ id_cr_[rid[u]] = None /\ o \in In(PrioOf[o])
            BY <5>1, <5>2 DEF QueueInv, KnownIsQueued
          <5>4. o # v
            BY <3>3, <5>1, <5>3
          <5>5. o \in In(PrioOf[o])'
            BY <3>9, <4>1, <5>3, <5>4
          <5>6. QED
            BY <2>1, <3>10, <5>2, <5>3, <5>5
        <4>4. QED
          BY <4>2, <4>3 DEF KnownIsQueued
      <3>16. QED
        BY <3>13, <3>14, <3>15 DEF QueueInv
    <2>8. QED
      BY <1>6, <2>4, <2>5, <2>6, <2>7 DEF RemoveStep
  <1>7. QED
    BY <1>4, <1>5, <1>6, RegistrySteps

-----------------------------------------------------------------------------
(* The processors.                                                         *)

\* Only a processor's own steps change what processors hold.
LEMMA HoldFrame ==
    ASSUME [Next]_vars
    PROVE  UNCHANGED <<lock_, ppc, cur>> \/ \E p \in Proc : ProcStep(p)
  <1>1. ASSUME NEW cr \in CRoutine, CreatorStep(cr) \/ WakeTime(cr)
        PROVE  UNCHANGED <<lock_, ppc, cur>>
    BY <1>1 DEF CreatorStep, CreateTask, DispatchLock, DispatchInsert,
                DispatchEnqueue, DispatchNotify, RegisterCallback, WakeTime,
                crVars, procVars
  <1>2. ASSUME NEW s \in Source, Fill(s) \/ NotifierStep(s)
        PROVE  UNCHANGED <<lock_, ppc, cur>>
    BY <1>2 DEF Fill, NotifierStep, NotifyLookup, NotifyState, NotifyFlag,
                NotifyCount, crVars, procVars
  <1>3. ASSUME NEW r \in Rem, RemoveStep(r) PROVE UNCHANGED <<lock_, ppc, cur>>
    BY <1>3 DEF RemoveStep, RemoveLock, RemoveErase, RemoveRqLock,
                RemoveAcquire, crVars, procVars
  <1>4. ASSUME NEW r \in Remover, RemoveTask(r) PROVE UNCHANGED <<lock_, ppc, cur>>
    BY <1>4 DEF RemoveTask, crVars, procVars
  <1>5. CASE Shutdown \/ ShutdownStep
    BY <1>5 DEF Shutdown, ShutdownStep, ShutdownContext, ShutdownStop,
                ShutdownList, ShutdownRemove, ShutdownDone, crVars, procVars
  <1>6. CASE UNCHANGED vars
    BY <1>6 DEF vars, crVars, procVars
  <1>7. QED
    BY <1>1, <1>2, <1>3, <1>4, <1>5, <1>6 DEF Next, Stopped

\* What a processor's step does to what it holds: nothing, it takes a routine
\* that is free, or it gives its routine back.
LEMMA ProcHolds ==
    ASSUME TypeInv, NEW p \in Proc, ProcStep(p)
    PROVE  /\ \A q \in Proc : q # p => cur'[q] = cur[q] /\ ppc'[q] = ppc[q]
           /\ \/ /\ UNCHANGED lock_ /\ cur'[p] = cur[p]
                 /\ Holding(p)' = Holding(p)
              \/ /\ \E i \in Prio : cur'[p] \in In(i)
                 /\ ppc[p] = "scan" /\ ppc'[p] = "update"
                 /\ cur'[p] \in CRoutine /\ ~lock_[cur'[p]]
                 /\ lock_' = [lock_ EXCEPT ![cur'[p]] = TRUE]
              \/ /\ Holding(p) /\ ~Holding(p)' /\ cur'[p] = None
                 /\ lock_' = [lock_ EXCEPT ![cur[p]] = FALSE]
                 /\ ppc[p] \in {"skip", "release"}
  <1>1. /\ ppc \in [Proc -> PLabel] /\ cur \in [Proc -> CRoutine \cup {None}]
        /\ pri \in [Proc -> Prio] /\ idx \in [Proc -> Nat \ {0}]
        /\ multi_pri_rq_ \in [Prio -> Seq(CRoutine)]
    BY DEF TypeInv, TypeOK, Labels
  <1>2. CASE ProcLoop(p) \/ ProcLevel(p) \/ ProcLevelEnd(p) \/ ProcWait(p)
             \/ ProcWaitTimeout(p)
    BY <1>1, <1>2 DEF ProcLoop, ProcLevel, ProcLevelEnd, ProcWait,
                      ProcWaitTimeout, ProcGoto, Holding, crVars
  <1>3. CASE ProcUpdate(p) \/ ProcResume(p)
    <2>1. /\ UNCHANGED <<lock_, cur>> /\ ppc[p] \in {"update", "resume"}
          /\ \E l \in {"resume", "skip", "release", "call", "body"} :
               ppc' = [ppc EXCEPT ![p] = l]
      BY <1>3 DEF ProcUpdate, ProcResume, ProcGoto
    <2>2. QED
      BY <1>1, <2>1 DEF Holding
  <1>4. CASE Body(p) \/ BodyFetch(p) \/ BodyHandled(p) \/ BodySleep(p)
    <2>1. /\ UNCHANGED <<lock_, cur>> /\ ppc[p] \in {"body", "fetch", "call"}
          /\ \E l \in {"fetch", "call", "release"} : ppc' = [ppc EXCEPT ![p] = l]
      BY <1>4 DEF Body, BodyFetch, BodyHandled, BodySleep, ProcGoto
    <2>2. QED
      BY <1>1, <2>1 DEF Holding
  <1>5. CASE ProcSkip(p) \/ ProcRelease(p)
    BY <1>1, <1>5 DEF ProcSkip, ProcRelease, ProcGoto, Holding
  <1>6. CASE ProcAcquire(p)
    <2>1. PICK cr : cr = multi_pri_rq_[pri[p]][idx[p]]
      OBVIOUS
    <2>2. cr \in CRoutine /\ cr \in In(pri[p])
      BY <1>1, <1>6, <2>1 DEF ProcAcquire, In
    <2>3. CASE lock_[cr]
      BY <1>6, <2>1, <2>3 DEF ProcAcquire, Holding
    <2>4. CASE ~lock_[cr]
      <3>1. /\ lock_' = [lock_ EXCEPT ![cr] = TRUE] /\ ppc[p] = "scan"
            /\ cur' = [cur EXCEPT ![p] = cr] /\ ppc' = [ppc EXCEPT ![p] = "update"]
        BY <1>6, <2>1, <2>4 DEF ProcAcquire, ProcGoto
      <3>2. QED
        BY <1>1, <2>2, <2>4, <3>1
    <2>5. QED
      BY <2>3, <2>4
  <1>7. QED
    BY <1>2, <1>3, <1>4, <1>5, <1>6 DEF ProcStep

\* A routine that is held is locked, so it is not taken a second time.
LEMMA HoldStep == TypeInv /\ HoldInv /\ [Next]_vars => HoldInv'
  <1> SUFFICES ASSUME TypeInv, HoldInv, [Next]_vars PROVE HoldInv'
    OBVIOUS
  <1>1. lock_ \in [CRoutine -> BOOLEAN]
    BY DEF TypeInv, TypeOK
  <1>2. CASE UNCHANGED <<lock_, ppc, cur>>
    BY <1>2 DEF HoldInv, RunExclusive, Holding
  <1>3. ASSUME NEW p \in Proc, ProcStep(p) PROVE HoldInv'
    <2>1. \A q \in Proc : q # p => cur'[q] = cur[q] /\ Holding(q)' = Holding(q)
      BY <1>3, ProcHolds DEF Holding
    <2>2. CASE UNCHANGED lock_ /\ cur'[p] = cur[p] /\ Holding(p)' = Holding(p)
      BY <2>1, <2>2 DEF HoldInv, RunExclusive
    <2>3. CASE /\ cur'[p] \in CRoutine /\ ~lock_[cur'[p]]
               /\ lock_' = [lock_ EXCEPT ![cur'[p]] = TRUE]
      BY <1>1, <2>1, <2>3 DEF HoldInv, RunExclusive
    <2>4. CASE /\ Holding(p) /\ ~Holding(p)'
               /\ lock_' = [lock_ EXCEPT ![cur[p]] = FALSE]
      BY <1>1, <2>1, <2>4 DEF HoldInv, RunExclusive
    <2>5. QED
      BY <1>3, <2>2, <2>3, <2>4, ProcHolds
  <1>4. QED
    BY <1>2, <1>3, HoldFrame

\* A removed routine is not held: it was free when it was removed, and it is
\* in no queue that a processor could take it from.
IdleInv == \A cr \in removed : \A p \in Proc : cur[p] # cr

\* Every step keeps a removed routine idle.
LEMMA IdleStep ==
    TypeInv /\ HoldInv /\ MutexInv /\ QueueInv /\ IdleInv /\ [Next]_vars => IdleInv'
  <1> SUFFICES ASSUME TypeInv, HoldInv, MutexInv, QueueInv, IdleInv, [Next]_vars
               PROVE  IdleInv'
    OBVIOUS
  <1>1. CASE UNCHANGED <<lock_, ppc, cur>> /\ UNCHANGED removed
    BY <1>1 DEF IdleInv
  <1>2. ASSUME NEW p \in Proc, ProcStep(p) PROVE IdleInv'
    <2>1. UNCHANGED removed
      BY <1>2 DEF ProcStep, ProcLoop, ProcLevel, ProcLevelEnd, ProcAcquire,
                  ProcUpdate, ProcSkip, ProcResume, ProcRelease, ProcWait,
                  ProcWaitTimeout, Body, BodyFetch, BodyHandled, BodySleep, remVars
    <2>2. cur'[p] = cur[p] \/ cur'[p] = None \/ \E i \in Prio : cur'[p] \in In(i)
      BY <1>2, ProcHolds
    <2>3. None \notin removed
      BY SchedulerAssumption DEF TypeInv, Labels
    <2>4. \A q \in Proc : q # p => cur'[q] = cur[q]
      BY <1>2, ProcHolds
    <2>5. \A i \in Prio : \A cr \in In(i) : cr \notin removed
      BY DEF QueueInv, QueuedOnce
    <2>6. QED
      BY <2>1, <2>2, <2>3, <2>4, <2>5 DEF IdleInv
  <1>3. ASSUME NEW r \in Rem, RemoveStep(r), UNCHANGED <<lock_, ppc, cur>>
        PROVE  IdleInv'
    <2>1. CASE RemoveAcquire(r)
      <3>1. /\ ~lock_[victim[r]] /\ removed' = removed \cup {victim[r]}
            /\ victim[r] \in CRoutine
        BY <2>1 DEF RemoveAcquire, TypeInv, Labels
      <3>2. ASSUME NEW p \in Proc PROVE cur[p] # victim[r]
        <4>1. victim[r] # None
          BY <3>1, SchedulerAssumption
        <4>2. cur[p] # None => Holding(p)
          BY DEF TypeInv, TypeOK
        <4>3. QED
          BY <3>1, <4>1, <4>2 DEF HoldInv
      <3>3. QED
        BY <1>3, <3>1, <3>2 DEF IdleInv
    <2>2. CASE ~RemoveAcquire(r)
      <3>1. UNCHANGED removed
        BY <1>3, <2>2 DEF RemoveStep, RemoveLock, RemoveErase, RemoveRqLock
      <3>2. QED
        BY <1>1, <1>3, <3>1
    <2>3. QED
      BY <2>1, <2>2
  <1>4. CASE Aside /\ UNCHANGED <<lock_, ppc, cur>>
    BY <1>1, <1>4 DEF Aside, registryVars
  <1>5. ASSUME NEW cr \in CRoutine, CreatorStep(cr), UNCHANGED <<lock_, ppc, cur>>
        PROVE  IdleInv'
    BY <1>1, <1>5 DEF CreatorStep, CreateTask, DispatchLock, DispatchInsert,
                      DispatchEnqueue, DispatchNotify, RegisterCallback, remVars
  <1>6. QED
    BY <1>2, <1>3, <1>4, <1>5, HoldFrame, RegistrySteps

\* Shutdown() has joined every processor when it returns.
JoinInv == rpc[Main] = "done" => \A p \in Proc : ppc[p] = "exit"

\* Only ShutdownDone takes Main to its end, and a processor that has left its
\* loop takes no further step.
LEMMA JoinStep == TypeInv /\ JoinInv /\ [Next]_vars => JoinInv'
  <1> SUFFICES ASSUME TypeInv, JoinInv, [Next]_vars PROVE JoinInv'
    OBVIOUS
  <1>1. rpc \in [Rem -> RLabel] /\ Main \in Rem /\ Main \notin Remover
    BY SchedulerAssumption DEF TypeInv, Labels, Rem
  <1>2. ASSUME NEW p \in Proc, ProcStep(p) PROVE JoinInv'
    <2>1. UNCHANGED rpc
      BY <1>2 DEF ProcStep, ProcLoop, ProcLevel, ProcLevelEnd, ProcAcquire,
                  ProcUpdate, ProcSkip, ProcResume, ProcRelease, ProcWait,
                  ProcWaitTimeout, Body, BodyFetch, BodyHandled, BodySleep, remVars
    <2>2. ppc[p] # "exit"
      BY <1>2 DEF ProcStep, ProcLoop, ProcLevel, ProcLevelEnd, ProcAcquire,
                  ProcUpdate, ProcSkip, ProcResume, ProcRelease, ProcWait,
                  ProcWaitTimeout, Body, BodyFetch, BodyHandled, BodySleep
    <2>3. QED
      BY <2>1, <2>2 DEF JoinInv
  <1>3. CASE UNCHANGED <<lock_, ppc, cur>>
    <2>1. CASE UNCHANGED rpc
      BY <1>3, <2>1 DEF JoinInv
    <2>2. ASSUME NEW r \in Rem, RemoveStep(r) PROVE rpc'[Main] # "done"
                                                    \/ rpc'[Main] = rpc[Main]
      BY <1>1, <2>2 DEF RemoveStep, RemoveLock, RemoveErase, RemoveRqLock,
                        RemoveAcquire, Returned
    <2>3. ASSUME NEW r \in Remover, RemoveTask(r) PROVE rpc'[Main] = rpc[Main]
      BY <1>1, <2>3 DEF RemoveTask
    <2>4. CASE Shutdown
      BY <1>1, <2>4 DEF Shutdown, JoinInv
    <2>5. CASE ShutdownStep
      BY <1>1, <1>3, <2>5 DEF ShutdownStep, ShutdownContext, ShutdownStop,
                ShutdownList, ShutdownRemove, ShutdownDone, remVars, procVars,
                JoinInv
    <2>6. ASSUME NEW cr \in CRoutine, CreatorStep(cr) \/ WakeTime(cr)
          PROVE  UNCHANGED rpc
      BY <2>6 DEF CreatorStep, CreateTask, DispatchLock, DispatchInsert,
                  DispatchEnqueue, DispatchNotify, RegisterCallback, WakeTime,
                  remVars
    <2>7. ASSUME NEW s \in Source, Fill(s) \/ NotifierStep(s) PROVE UNCHANGED rpc
      BY <2>7 DEF Fill, NotifierStep, NotifyLookup, NotifyState, NotifyFlag,
                  NotifyCount, remVars
    <2>8. CASE UNCHANGED vars
      BY <2>1, <2>8 DEF vars, remVars
    <2>9. CASE rpc'[Main] # "done" \/ rpc'[Main] = rpc[Main]
      BY <1>3, <2>9 DEF JoinInv
    <2>10. QED
      BY <1>2, <2>1, <2>2, <2>3, <2>4, <2>5, <2>6, <2>7, <2>8, <2>9
      DEF Next, Stopped
  <1>4. QED
    BY <1>2, <1>3, HoldFrame

-----------------------------------------------------------------------------
(* Wake-ups.                                                               *)

\* A task that is created and not stopped stays registered.
LEMMA RegStep ==
    TypeInv /\ MutexInv /\ QueueInv /\ RegInv /\ [Next]_vars => RegInv'
  <1> SUFFICES ASSUME TypeInv, MutexInv, QueueInv, RegInv, [Next]_vars
               PROVE  RegInv'
    OBVIOUS
  <1>1. /\ cpc \in [CRoutine -> CLabel] /\ id_cr_ \in [Id -> CRoutine \cup {None}]
        /\ registered \in [CRoutine -> BOOLEAN]
        /\ force_stop_ \in [CRoutine -> BOOLEAN]
    BY DEF TypeInv, TypeOK, Labels
  <1>2. None \notin CRoutine
    BY SchedulerAssumption
  <1> USE IdType DEF RegInv, Entered
  <1>3. CASE Aside
    BY <1>3 DEF Aside, registryVars
  <1>4. ASSUME NEW cr \in CRoutine, CreatorStep(cr) PROVE RegInv'
    <2>1. UNCHANGED force_stop_
      BY <1>4 DEF CreatorStep, CreateTask, DispatchLock, DispatchInsert,
                  DispatchEnqueue, DispatchNotify, RegisterCallback, crVars
    <2>2. CASE CreateTask(cr) \/ DispatchLock(cr)
      BY <1>1, <2>1, <2>2 DEF CreateTask, DispatchLock, regVars, dataVars
    <2>3. CASE DispatchInsert(cr)
      <3>1. CASE id_cr_[IdOf[cr]] # None
        BY <1>1, <2>1, <2>3, <3>1 DEF DispatchInsert, dataVars
      <3>2. CASE id_cr_[IdOf[cr]] = None
        <4>1. /\ cpc[cr] = "insert" /\ cpc' = [cpc EXCEPT ![cr] = "enqueue"]
              /\ id_cr_' = [id_cr_ EXCEPT ![IdOf[cr]] = cr]
              /\ UNCHANGED registered
          BY <2>3, <3>2 DEF DispatchInsert, dataVars
        <4>2. QED
          BY <1>1, <1>2, <2>1, <3>2, <4>1
      <3>3. QED
        BY <3>1, <3>2
    <2>4. CASE DispatchEnqueue(cr) \/ DispatchNotify(cr)
      BY <1>1, <2>1, <2>4 DEF DispatchEnqueue, DispatchNotify, regVars, dataVars
    <2>5. CASE RegisterCallback(cr)
      BY <1>1, <2>1, <2>5 DEF RegisterCallback, regVars
    <2>6. QED
      BY <1>4, <2>2, <2>3, <2>4, <2>5 DEF CreatorStep
  <1>5. ASSUME NEW r \in Rem, RemoveStep(r) PROVE RegInv'
    <2>1. UNCHANGED <<cpc, registered>>
      BY <1>5 DEF RemoveStep, RemoveLock, RemoveErase, RemoveRqLock,
                  RemoveAcquire, dataVars
    <2>2. CASE RemoveLock(r) \/ RemoveAcquire(r)
      BY <2>1, <2>2 DEF RemoveLock, RemoveAcquire, crVars
    <2>3. CASE RemoveErase(r)
      <3>1. CASE id_cr_[rid[r]] = None
        BY <2>1, <2>3, <3>1 DEF RemoveErase
      <3>2. CASE id_cr_[rid[r]] # None
        <4>1. /\ force_stop_' = [force_stop_ EXCEPT ![id_cr_[rid[r]]] = TRUE]
              /\ id_cr_' = [id_cr_ EXCEPT ![rid[r]] = None]
              /\ rid[r] \in Id
          BY <2>3, <3>2 DEF RemoveErase, TypeInv, Labels, Using
        <4>2. QED
          BY <1>1, <2>1, <3>2, <4>1
      <3>3. QED
        BY <3>1, <3>2
    <2>4. CASE RemoveRqLock(r)
      <3>1. /\ UNCHANGED id_cr_
            /\ \/ UNCHANGED force_stop_
               \/ \E v : force_stop_' = [force_stop_ EXCEPT ![v] = TRUE]
        BY <2>4 DEF RemoveRqLock
      <3>2. \A cr \in CRoutine : ~force_stop_'[cr] => ~force_stop_[cr]
        BY <1>1, <3>1
      <3>3. QED
        BY <2>1, <3>1, <3>2
    <2>5. QED
      BY <1>5, <2>2, <2>3, <2>4 DEF RemoveStep
  <1>6. QED
    BY <1>3, <1>4, <1>5, RegistrySteps

\* Steps of other threads do not touch the wake-up protocol, except that a
\* callback is registered, a task is stopped or the scheduler is.
LEMMA WakeFrame ==
    ASSUME TypeInv, [Next]_vars
    PROVE  \/ \E s \in Source : Fill(s) \/ NotifierStep(s)
           \/ \E p \in Proc : ProcStep(p)
           \/ /\ UNCHANGED <<unread, updated_, state_, npc, target, ppc, cur>>
              /\ stop_ => stop_'
              /\ \A cr \in CRoutine : /\ registered[cr] => registered'[cr]
                                      /\ force_stop_[cr] => force_stop_'[cr]
  <1> DEFINE Calm == /\ UNCHANGED <<unread, updated_, state_, npc, target, ppc, cur>>
                     /\ stop_ => stop_'
                     /\ \A cr \in CRoutine : /\ registered[cr] => registered'[cr]
                                             /\ force_stop_[cr] => force_stop_'[cr]
  <1>1. /\ registered \in [CRoutine -> BOOLEAN]
        /\ force_stop_ \in [CRoutine -> BOOLEAN]
    BY DEF TypeInv, TypeOK
  <1>2. ASSUME NEW cr \in CRoutine, CreatorStep(cr) \/ WakeTime(cr) PROVE Calm
    BY <1>1, <1>2
    DEF CreatorStep, CreateTask, DispatchLock, DispatchInsert, DispatchEnqueue,
        DispatchNotify, RegisterCallback, WakeTime, crVars, stopVars, dataVars,
        procVars, srcVars
  <1>3. ASSUME NEW r \in Rem, RemoveStep(r) PROVE Calm
    <2>1. /\ UNCHANGED <<unread, updated_, state_, npc, target, ppc, cur, stop_,
                         registered>>
          /\ \/ UNCHANGED force_stop_
             \/ \E v : force_stop_' = [force_stop_ EXCEPT ![v] = TRUE]
      BY <1>3
      DEF RemoveStep, RemoveLock, RemoveErase, RemoveRqLock, RemoveAcquire,
          crVars, stopVars, dataVars, procVars, srcVars
    <2>2. \A cr \in CRoutine : force_stop_[cr] => force_stop_'[cr]
      BY <1>1, <2>1
    <2>3. QED
      BY <2>1, <2>2
  <1>4. ASSUME NEW r \in Remover, RemoveTask(r) PROVE Calm
    BY <1>4 DEF RemoveTask, crVars, stopVars, dataVars, procVars, srcVars
  <1>5. CASE Shutdown \/ ShutdownStep
    BY <1>5 DEF Shutdown, ShutdownStep, ShutdownContext, ShutdownStop,
                ShutdownList, ShutdownRemove, ShutdownDone, crVars, stopVars,
                dataVars, procVars, srcVars
  <1>6. CASE UNCHANGED vars
    BY <1>6 DEF vars, crVars, stopVars, dataVars, procVars, srcVars
  <1>7. QED
    BY <1>2, <1>3, <1>4, <1>5, <1>6 DEF Next, Stopped

\* A message is never left behind, if none comes before the callback is
\* registered.
LEMMA WakeStep ==
    ASSUME ~EarlyMessages
    PROVE  TypeInv /\ RegInv /\ WakeInv /\ [Next]_vars => WakeInv'
  <1> SUFFICES ASSUME TypeInv, RegInv, WakeInv, [Next]_vars PROVE WakeInv'
    OBVIOUS
  <1>1. /\ npc \in [Source -> NLabel] /\ target \in [Source -> CRoutine \cup {None}]
        /\ unread \in [CRoutine -> Nat]
        /\ \A s \in Source : npc[s] \in {"state", "flag"} => target[s] \in CRoutine
        /\ ppc \in [Proc -> PLabel] /\ cur \in [Proc -> CRoutine \cup {None}]
        /\ state_ \in [CRoutine -> State]
    BY DEF TypeInv, TypeOK, Labels, State
  <1>2. updated_ \in [CRoutine -> BOOLEAN]
    BY DEF TypeInv, TypeOK
  <1>3. Feeds \in [Source -> CRoutine] /\ None \notin CRoutine
    BY SchedulerAssumption
  <1>4. \A cr \in CRoutine :
          unread[cr] > 0 /\ ~stop_ /\ ~force_stop_[cr] => Handled(cr)
    BY DEF WakeInv
  <1>5. ASSUME UNCHANGED <<unread, updated_, state_, npc, target, ppc, cur>>,
               stop_ => stop_',
               \A cr \in CRoutine : /\ registered[cr] => registered'[cr]
                                    /\ force_stop_[cr] => force_stop_'[cr]
        PROVE  WakeInv'
    <2>1. \A cr \in CRoutine : Handled(cr)' = Handled(cr)
      BY <1>5 DEF Handled, Awaited
    <2>2. QED
      BY <1>3, <1>5, <2>1 DEF WakeInv
  <1>6. ASSUME NEW s \in Source, Fill(s) \/ NotifierStep(s) PROVE WakeInv'
    <2>1. UNCHANGED <<registered, stop_, force_stop_, state_, ppc, cur>>
      BY <1>6 DEF Fill, NotifierStep, NotifyLookup, NotifyState, NotifyFlag,
                  NotifyCount, crVars, stopVars, dataVars, procVars
    <2>2. \A o \in Source : o # s => npc'[o] = npc[o] /\ target'[o] = target[o]
      BY <1>1, <1>6 DEF Fill, NotifierStep, NotifyLookup, NotifyState, NotifyFlag,
                        NotifyCount
    <2>3. CASE Fill(s)
      <3>1. /\ registered[Feeds[s]] /\ npc[s] = "idle" /\ npc'[s] = "filled"
            /\ unread' = [unread EXCEPT ![Feeds[s]] = @ + 1]
            /\ updated_' = updated_ /\ Feeds[s] \in CRoutine
        BY <1>1, <1>3, <2>3 DEF Fill, crVars
      <3>2. ASSUME NEW cr \in CRoutine, unread'[cr] > 0, ~stop_', ~force_stop_'[cr]
            PROVE  Handled(cr)'
        <4>1. CASE cr = Feeds[s]
          BY <3>1, <4>1 DEF Handled, Awaited
        <4>2. CASE cr # Feeds[s]
          <5>1. Handled(cr)
            BY <1>1, <1>4, <2>1, <3>1, <3>2, <4>2
          <5>2. QED
            BY <2>1, <2>2, <3>1, <5>1 DEF Handled, Awaited
        <4>3. QED
          BY <4>1, <4>2
      <3>3. QED
        BY <2>1, <2>2, <3>1, <3>2 DEF WakeInv
    <2>4. CASE NotifyLookup(s)
      <3>1. /\ npc[s] = "filled" /\ registered[Feeds[s]] /\ Feeds[s] \in CRoutine
            /\ UNCHANGED <<updated_, unread>>
        BY <1>3, <2>4 DEF NotifyLookup, WakeInv, crVars, dataVars
      <3>2. npc'[s] # "filled"
        BY <1>1, <2>4 DEF NotifyLookup
      <3>3. ASSUME NEW cr \in CRoutine, unread'[cr] > 0, ~stop_', ~force_stop_'[cr]
            PROVE  Handled(cr)'
        <4>1. Handled(cr)
          BY <1>4, <2>1, <3>1, <3>3
        <4>2. CASE cr = Feeds[s]
          <5>1. id_cr_[IdOf[cr]] = cr
            BY <2>1, <3>1, <3>3, <4>2 DEF RegInv, Entered
          <5>2. target'[s] = cr /\ npc'[s] = "state"
            BY <1>1, <1>3, <2>1, <2>4, <3>1, <3>3, <4>2, <5>1 DEF NotifyLookup
          <5>3. QED
            BY <5>2 DEF Handled, Awaited
        <4>3. CASE cr # Feeds[s]
          BY <2>1, <2>2, <3>1, <4>1, <4>3 DEF Handled, Awaited
        <4>4. QED
          BY <4>2, <4>3
      <3>4. QED
        BY <2>1, <2>2, <3>2, <3>3 DEF WakeInv
    <2>5. CASE NotifyState(s)
      <3>1. /\ npc[s] = "state" /\ target[s] \in CRoutine /\ target' = target
            /\ npc'[s] = IF state_[target[s]] \in Waits THEN "flag" ELSE "count"
            /\ UNCHANGED <<updated_, unread>>
        BY <1>1, <2>5 DEF NotifyState, crVars, dataVars
      <3>2. ASSUME NEW cr \in CRoutine, Handled(cr) PROVE Handled(cr)'
        BY <2>1, <2>2, <3>1, <3>2 DEF Handled, Awaited, Waits
      <3>3. QED
        BY <1>4, <2>1, <2>2, <3>1, <3>2 DEF WakeInv
    <2>6. CASE NotifyFlag(s)
      <3>1. /\ npc[s] = "flag" /\ target[s] \in CRoutine /\ target' = target
            /\ npc'[s] = "count" /\ unread' = unread
            /\ updated_' = [updated_ EXCEPT ![target[s]] = FALSE]
        BY <1>1, <2>6 DEF NotifyFlag, dataVars
      <3>2. ~updated_'[target[s]] /\ \A cr \in CRoutine : ~updated_[cr] => ~updated_'[cr]
        BY <1>2, <3>1
      <3>3. ASSUME NEW cr \in CRoutine, Handled(cr) PROVE Handled(cr)'
        BY <2>1, <2>2, <3>1, <3>2, <3>3 DEF Handled, Awaited
      <3>4. QED
        BY <1>4, <2>1, <2>2, <3>1, <3>3 DEF WakeInv
    <2>7. CASE NotifyCount(s)
      <3>1. npc[s] = "count" /\ npc'[s] = "idle" /\ UNCHANGED <<updated_, unread>>
        BY <1>1, <2>7 DEF NotifyCount, crVars, dataVars
      <3>2. ASSUME NEW cr \in CRoutine, Handled(cr) PROVE Handled(cr)'
        BY <2>1, <2>2, <3>1, <3>2 DEF Handled, Awaited
      <3>3. QED
        BY <1>4, <2>1, <2>2, <3>1, <3>2 DEF WakeInv
    <2>8. QED
      BY <1>6, <2>3, <2>4, <2>5, <2>6, <2>7 DEF NotifierStep
  <1>7. ASSUME NEW p \in Proc, ProcStep(p) PROVE WakeInv'
    <2>1. UNCHANGED <<npc, target, registered, stop_, force_stop_>>
      <3>1. CASE ProcLoop(p) \/ ProcLevel(p) \/ ProcLevelEnd(p) \/ ProcAcquire(p)
                 \/ ProcUpdate(p) \/ ProcSkip(p) \/ ProcResume(p)
        BY <3>1 DEF ProcLoop, ProcLevel, ProcLevelEnd, ProcAcquire, ProcUpdate,
                    ProcSkip, ProcResume, crVars, dataVars, stopVars, srcVars
      <3>2. CASE ProcRelease(p) \/ ProcWait(p) \/ ProcWaitTimeout(p) \/ Body(p)
                 \/ BodyFetch(p) \/ BodyHandled(p) \/ BodySleep(p)
        BY <3>2 DEF ProcRelease, ProcWait, ProcWaitTimeout, Body, BodyFetch,
                    BodyHandled, BodySleep, crVars, dataVars, stopVars, srcVars
      <3>3. QED
        BY <1>7, <3>1, <3>2 DEF ProcStep
    <2>2. \A q \in Proc : q # p => cur'[q] = cur[q] /\ ppc'[q] = ppc[q]
      BY <1>7, ProcHolds
    <2>3. SUFFICES ASSUME NEW cr \in CRoutine,
                          unread'[cr] > 0, ~stop_', ~force_stop_'[cr]
                   PROVE  Handled(cr)'
      BY <2>1 DEF WakeInv
    <2>4. ASSUME ppc[p] \notin {"fetch", "call"}, UNCHANGED <<unread, updated_, state_>>
          PROVE  Handled(cr)'
      BY <1>4, <2>1, <2>2, <2>3, <2>4 DEF Handled, Awaited
    <2>5. ASSUME cr # cur[p], cr # cur'[p], UNCHANGED cur,
                 unread'[cr] = unread[cr], updated_'[cr] = updated_[cr],
                 state_'[cr] = state_[cr]
          PROVE  Handled(cr)'
      BY <1>4, <2>1, <2>2, <2>3, <2>5 DEF Handled, Awaited
    <2>6. CASE ProcLoop(p) \/ ProcLevel(p) \/ ProcLevelEnd(p) \/ ProcAcquire(p)
               \/ ProcSkip(p) \/ ProcRelease(p) \/ ProcWait(p) \/ ProcWaitTimeout(p)
      BY <2>4, <2>6 DEF ProcLoop, ProcLevel, ProcLevelEnd, ProcAcquire, ProcSkip,
                        ProcRelease, ProcWait, ProcWaitTimeout, crVars, dataVars
    <2>7. CASE ProcUpdate(p)
      <3>1. ppc[p] = "update" /\ UNCHANGED <<cur, unread>> /\ UpdateState(cur[p])
        BY <2>7 DEF ProcUpdate, dataVars
      <3>2. CASE cr # cur[p]
        <4>1. updated_'[cr] = updated_[cr] /\ state_'[cr] = state_[cr]
          BY <1>1, <1>2, <3>1, <3>2 DEF UpdateState
        <4>2. QED
          BY <2>5, <3>1, <3>2, <4>1
      <3>3. CASE cr = cur[p] /\ state_[cr] = "DATA_WAIT" /\ ~updated_[cr]
        <4>1. state_'[cr] = "READY"
          BY <1>1, <3>1, <3>3 DEF UpdateState, Waits
        <4>2. QED
          BY <4>1 DEF Handled
      <3>4. CASE cr = cur[p] /\ state_[cr] # "DATA_WAIT"
        <4>1. state_'[cr] # "DATA_WAIT"
          BY <1>1, <3>1, <3>4 DEF UpdateState
        <4>2. QED
          BY <4>1 DEF Handled
      <3>5. CASE cr = cur[p] /\ updated_[cr]
        <4>1. CASE \E s \in Source :
                     \/ npc[s] = "filled" /\ Feeds[s] = cr
                     \/ npc[s] \in {"state", "flag"} /\ target[s] = cr
          BY <2>1, <4>1 DEF Handled, Awaited
        <4>2. CASE \E q \in Proc : cur[q] = cr /\ ppc[q] \in {"fetch", "call"}
          BY <2>2, <3>1, <4>2 DEF Handled
        <4>3. Handled(cr)
          BY <1>4, <2>1, <2>3, <3>1
        <4>4. QED
          BY <3>4, <3>5, <4>1, <4>2, <4>3 DEF Handled, Awaited
      <3>6. QED
        BY <3>2, <3>3, <3>4, <3>5
    <2>8. CASE ProcResume(p)
      <3>1. ppc[p] = "resume" /\ UNCHANGED <<cur, unread, updated_>>
        BY <2>8 DEF ProcResume, dataVars
      <3>2. CASE UNCHANGED state_
        BY <2>4, <3>1, <3>2
      <3>3. CASE state_' = [state_ EXCEPT ![cur[p]] = "FINISHED"]
        <4>1. CASE cr = cur[p]
          BY <1>1, <3>3, <4>1 DEF Handled
        <4>2. CASE cr # cur[p]
          BY <1>1, <2>5, <3>1, <3>3, <4>2
        <4>3. QED
          BY <4>1, <4>2
      <3>4. QED
        BY <2>8, <3>2, <3>3 DEF ProcResume
    <2>9. CASE Body(p) \/ BodyHandled(p) \/ BodySleep(p)
      <3>1. /\ UNCHANGED <<cur, unread, updated_>>
            /\ \/ /\ state_' = [state_ EXCEPT ![cur[p]] = "DATA_WAIT"]
                  /\ ppc'[p] = "fetch"
               \/ state_' = [state_ EXCEPT ![cur[p]] = "READY"]
               \/ state_' = [state_ EXCEPT ![cur[p]] = "SLEEP"]
        BY <1>1, <2>9 DEF Body, BodyHandled, BodySleep, ProcGoto, dataVars
      <3>2. CASE cr = cur[p]
        BY <1>1, <3>1, <3>2 DEF Handled
      <3>3. CASE cr # cur[p]
        BY <1>1, <2>5, <3>1, <3>3
      <3>4. QED
        BY <3>2, <3>3
    <2>10. CASE BodyFetch(p)
      <3>1. UNCHANGED <<cur, updated_, state_>>
        BY <2>10 DEF BodyFetch
      <3>2. CASE cr # cur[p]
        <4>1. unread'[cr] = unread[cr]
          BY <1>1, <2>10, <3>2 DEF BodyFetch
        <4>2. QED
          BY <2>5, <3>1, <3>2, <4>1
      <3>3. CASE cr = cur[p] /\ unread[cr] > 0
        <4>1. ppc'[p] = "call"
          BY <1>1, <2>10, <3>3 DEF BodyFetch, ProcGoto
        <4>2. QED
          BY <3>1, <3>3, <4>1 DEF Handled
      <3>4. CASE cr = cur[p] /\ ~(unread[cr] > 0)
        BY <2>3, <2>10, <3>4 DEF BodyFetch
      <3>5. QED
        BY <3>2, <3>3, <3>4
    <2>11. QED
      BY <1>7, <2>6, <2>7, <2>8, <2>9, <2>10 DEF ProcStep
  <1>8. QED
    BY <1>5, <1>6, <1>7, WakeFrame

-----------------------------------------------------------------------------
(* Theorems.                                                               *)

SchedulerInv ==
    TypeInv /\ HoldInv /\ MutexInv /\ QueueInv /\ RegInv /\ IdleInv /\ JoinInv

\* Nothing is queued, held or removed when the scheduler starts.
LEMMA InvInit == Init => SchedulerInv
  <1> SUFFICES ASSUME Init PROVE SchedulerInv
    OBVIOUS
  <1>1. TypeInv
    <2>1. \A v \in {lock_, updated_, force_stop_, due, inCallback, registered} :
            v \in [CRoutine -> BOOLEAN]
      BY DEF Init
    <2>2. /\ state_ \in [CRoutine -> {"READY", "FINISHED", "SLEEP", "IO_WAIT",
                                     "DATA_WAIT"}]
          /\ id_cr_ \in [Id -> CRoutine \cup {None}]
          /\ id_mutex \in [Id -> CRoutine \cup Rem \cup {None}]
          /\ rq_writer \in [Prio -> Rem \cup {None}]
      BY DEF Init
    <2>3. multi_pri_rq_ \in [Prio -> Seq(CRoutine)]
      BY DEF Init
    <2>4. /\ notify_grp_ \in Nat /\ stop_ \in BOOLEAN
          /\ ctx_stop \subseteq Proc /\ running_ \subseteq Proc
          /\ unread \in [CRoutine -> Nat]
      BY DEF Init
    <2>5. sent \in [Source -> 0 .. MaxMsg]
      BY SchedulerAssumption DEF Init
    <2>6. /\ cur \in [Proc -> CRoutine \cup {None}]
          /\ \A p \in Proc : (cur[p] # None) = Holding(p)
      BY DEF Init, Holding
    <2>7. /\ pri \in [Proc -> Prio] /\ idx \in [Proc -> Nat \ {0}]
          /\ target \in [Source -> CRoutine \cup {None}]
          /\ victim \in [Rem -> CRoutine \cup {None}]
      BY PrioFacts DEF Init
    <2>8. TypeOK
      BY <2>1, <2>2, <2>3, <2>4, <2>5, <2>6, <2>7 DEF TypeOK
    <2>9. Labels
      BY DEF Init, Labels, PLabel, CLabel, NLabel, RLabel, Using
    <2>10. QED
      BY <2>8, <2>9 DEF TypeInv
  <1>2. HoldInv /\ MutexInv
    BY DEF Init, HoldInv, RunExclusive, Holding, MutexInv, Dispatching, Removing
  <1>3. \A i \in Prio : multi_pri_rq_[i] = <<>> /\ In(i) = {}
    BY DEF Init, In
  <1>4. QueueInv
    BY <1>3 DEF Init, QueueInv, QueuedOnce, QueuedIsKnown, KnownIsQueued, NoTwins,
                Erased
  <1>5. RegInv /\ IdleInv /\ JoinInv
    BY DEF Init, RegInv, Entered, IdleInv, JoinInv, Rem
  <1>6. QED
    BY <1>1, <1>2, <1>4, <1>5 DEF SchedulerInv

\* The invariant of all layers but the last holds of every behaviour.
LEMMA InvAlways == Spec => []SchedulerInv
  <1>1. SchedulerInv /\ [Next]_vars => SchedulerInv'
    BY TypeStep, HoldStep, MutexStep, QueueStep, RegStep, IdleStep,
       JoinStep
    DEF SchedulerInv, QueueInv
  <1>2. QED
    BY <1>1, InvInit, PTL DEF Spec

\* Every variable of the scheduler keeps its type, and a processor has a
\* routine exactly where NextRoutine() has returned or is looking at one.
THEOREM TypeCorrect == Spec => []TypeOK
  <1>1. SchedulerInv => TypeOK
    BY DEF SchedulerInv, TypeInv
  <1>2. QED
    BY <1>1, InvAlways, PTL

\* For any number of processors, routines and levels: CRoutine::Acquire() and
\* Release() keep two processors from holding, or resuming, one routine.
THEOREM RoutineRunsOnce == Spec => []RunExclusive
  <1>1. SchedulerInv => RunExclusive
    BY DEF SchedulerInv, HoldInv
  <1>2. QED
    BY <1>1, InvAlways, PTL

\* The mutex of an id keeps the registry and the run queues consistent under
\* concurrent DispatchTask() and RemoveTask() of any ids.
THEOREM RegistryAgrees == Spec => []RegistryMatchesQueues
  <1>1. SchedulerInv => RegistryMatchesQueues
    <2> SUFFICES ASSUME SchedulerInv, NEW id \in Id, id_mutex[id] = None
                 PROVE  /\ id_cr_[id] # None => Queued(id_cr_[id])
                        /\ \A i \in Prio : \A k \in 1 .. Len(multi_pri_rq_[i]) :
                             IdOf[multi_pri_rq_[i][k]] = id
                               => multi_pri_rq_[i][k] = id_cr_[id]
                        /\ \A i \in Prio : \A k, l \in 1 .. Len(multi_pri_rq_[i]) :
                             multi_pri_rq_[i][k] = multi_pri_rq_[i][l] => k = l
      BY DEF RegistryMatchesQueues
    <2>1. None \notin CRoutine /\ None \notin Rem
      BY SchedulerAssumption DEF Rem
    <2>2. id_cr_[id] # None => Queued(id_cr_[id])
      <3> SUFFICES ASSUME id_cr_[id] # None PROVE Queued(id_cr_[id])
        OBVIOUS
      <3>1. PICK o \in CRoutine : o = id_cr_[id]
        BY DEF SchedulerInv, TypeInv, TypeOK
      <3>2. IdOf[o] = id /\ (o \in In(PrioOf[o]) \/ cpc[o] = "enqueue")
        BY <3>1 DEF SchedulerInv, QueueInv, KnownIsQueued
      <3>3. cpc[o] # "enqueue"
        BY <2>1, <3>1, <3>2 DEF SchedulerInv, MutexInv, Dispatching
      <3>4. QED
        BY <3>1, <3>2, <3>3 DEF Queued, In
    <2>3. ASSUME NEW i \in Prio, NEW o \in In(i), IdOf[o] = id
          PROVE  o = id_cr_[id]
      <3>1. \A r \in Rem : Erased(r) => rid[r] # id
        BY <2>1 DEF SchedulerInv, MutexInv, Removing, Erased
      <3>2. QED
        BY <2>3, <3>1 DEF SchedulerInv, QueueInv, QueuedIsKnown
    <2>4. \A i \in Prio : NoTwins(multi_pri_rq_[i])
      BY DEF SchedulerInv, QueueInv, QueuedOnce
    <2>5. QED
      BY <2>2, <2>3, <2>4 DEF In, NoTwins
  <1>2. QED
    BY <1>1, InvAlways, PTL

\* Once RemoveCRoutine() has returned true, no processor has the routine and
\* none will find it: its owner may destroy what the callback uses.  A removal
\* that RemoveTask() left to Shutdown() has this effect when Shutdown() returns.
THEOREM RemovedStaysIdle == Spec => []RemovedIsIdle
  <1>1. SchedulerInv => RemovedIsIdle
    <2> SUFFICES ASSUME SchedulerInv PROVE RemovedIsIdle
      OBVIOUS
    <2>1. ASSUME NEW cr \in removed
          PROVE  ~Queued(cr) /\ \A p \in Proc : cur[p] # cr
      <3>1. PrioOf[cr] \in Prio
        BY SchedulerAssumption DEF SchedulerInv, TypeInv, Labels
      <3>2. cr \notin In(PrioOf[cr])
        BY <3>1 DEF SchedulerInv, QueueInv, QueuedOnce
      <3>3. QED
        BY <3>2 DEF Queued, In, SchedulerInv, IdleInv
    <2>2. ASSUME rpc[Main] = "done", NEW p \in Proc PROVE cur[p] = None
      <3>1. ~Holding(p)
        BY <2>2 DEF SchedulerInv, JoinInv, Holding
      <3>2. QED
        BY <3>1 DEF SchedulerInv, TypeInv, TypeOK
    <2>3. QED
      BY <2>1, <2>2 DEF RemovedIsIdle
  <1>2. QED
    BY <1>1, InvAlways, PTL

\* No wake-up is lost between Fill(), NotifyProcessor(), UpdateState() and the
\* routine that parks itself, for any number of sources and processors, as
\* long as no message arrives before the callback is registered.
THEOREM WakeupsKept ==
    ASSUME ~EarlyMessages
    PROVE  Spec => []NoLostWakeup
  <1>1. Init => WakeInv
    BY DEF Init, WakeInv
  <1>2. SchedulerInv /\ WakeInv /\ [Next]_vars => WakeInv'
    BY WakeStep DEF SchedulerInv
  <1>3. SchedulerInv /\ WakeInv => NoLostWakeup
    <2> SUFFICES ASSUME SchedulerInv, WakeInv, NEW cr \in CRoutine,
                        unread[cr] > 0, ~stop_, ~force_stop_[cr],
                        state_[cr] = "DATA_WAIT", ~lock_[cr]
                 PROVE  Awaited(cr)
      BY DEF NoLostWakeup
    <2>1. Handled(cr)
      BY DEF WakeInv
    <2>2. ~\E p \in Proc : cur[p] = cr /\ ppc[p] \in {"fetch", "call"}
      BY DEF SchedulerInv, HoldInv, Holding
    <2>3. QED
      BY <2>1, <2>2 DEF Handled
  <1>4. QED
    BY <1>1, <1>2, <1>3, InvAlways, PTL DEF Spec
=============================================================================
