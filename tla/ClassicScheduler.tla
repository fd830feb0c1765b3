--------------------------- MODULE ClassicScheduler ---------------------------
(***************************************************************************)
(* The coroutine scheduler with the classic policy:                        *)
(*   code/cyber/scheduler/scheduler.cc, processor.cc,                      *)
(*   policy/scheduler_classic.cc, policy/classic_context.cc,               *)
(*   croutine/croutine.{h,cc}, croutine/routine_factory.h.                 *)
(*                                                                         *)
(* Processors (threads) share one run queue per priority.  A routine's     *)
(* body is the loop of RoutineFactory: announce DATA_WAIT, try to fetch,   *)
(* handle or yield.  Transport threads fill a routine's buffer and notify  *)
(* the scheduler; other threads create and remove tasks; one thread shuts  *)
(* the scheduler down.                                                     *)
(*                                                                         *)
(* The AtomicRWLocks are taken by what module AtomicRWLock shows of them:  *)
(* exclusion, and readers that stand back while a writer waits.  A         *)
(* critical section in which its thread does nothing that another thread   *)
(* can observe in between is one step.  One group is modelled: groups      *)
(* share nothing but the registry id_cr_.                                  *)
(***************************************************************************)
EXTENDS Naturals, Sequences, SequencesExt, FiniteSets

CONSTANTS
    Proc,          \* processors of the group
    CRoutine,      \* routine objects
    Source,        \* transport threads
    Remover,       \* threads that call RemoveTask()
    Main,          \* the thread that calls Shutdown()
    None,
    IdOf,          \* [CRoutine -> id]: id of the name the task is created with
    PrioOf,        \* [CRoutine -> Prio]: configured, after clamping
    Feeds,         \* [Source -> CRoutine]: whose buffer the source fills
    Removes,       \* [Remover -> id]
    Prio,          \* 0 .. MAX_PRIO-1, as far as used
    Sleeper,       \* routines whose callback calls Sleep()
    EarlyMessages, \* messages may arrive before the callback is registered
    MayShutdown,
    MaxMsg,        \* bound: messages per source
    ShutdownNotify \* stands for the 255 of ClassicContext::Shutdown()

Id == {IdOf[cr] : cr \in CRoutine}

ASSUME SchedulerAssumption ==
    /\ PrioOf \in [CRoutine -> Prio]
    /\ Feeds \in [Source -> CRoutine]
    /\ Removes \in [Remover -> Id]
    /\ None \notin CRoutine \cup Remover \cup {Main}
    /\ Main \notin CRoutine \cup Remover
    /\ CRoutine \cap Remover = {}
    /\ Sleeper \subseteq CRoutine
    /\ Prio \subseteq Nat /\ \E n \in Prio : Prio = 0 .. n
    /\ MaxMsg \in Nat /\ ShutdownNotify \in Nat

VARIABLES
    \* CRoutine
    state_, lock_, updated_, force_stop_,
    due,           \* steady_clock::now() > wake_time_
    inCallback,    \* resumed in the middle of the callback, not at the top
    \* SchedulerClassic and ClassicContext
    id_cr_, id_mutex, multi_pri_rq_, rq_writer, notify_grp_,
    stop_,         \* Scheduler::stop_
    ctx_stop,      \* contexts whose stop_ is set
    running_,      \* processors that may go on
    \* DataVisitor: unread messages and whether the callback is registered
    unread, registered, sent,
    \* threads
    ppc, cur, pri, idx,
    cpc,
    npc, target,
    rpc, rid, victim,
    todo,          \* ids, then processors, that Shutdown() has still to visit
    removed        \* history: routines that RemoveCRoutine() has taken out

crVars   == <<state_, lock_, updated_, force_stop_, due, inCallback>>
regVars  == <<id_cr_, id_mutex>>
rqVars   == <<multi_pri_rq_, rq_writer>>
stopVars == <<stop_, ctx_stop, running_, todo>>
dataVars == <<unread, registered, sent>>
procVars == <<ppc, cur, pri, idx>>
srcVars  == <<npc, target>>
remVars  == <<rpc, rid, victim, removed>>
vars == <<crVars, regVars, rqVars, notify_grp_, stopVars, dataVars, procVars,
          cpc, srcVars, remVars>>

Waits == {"DATA_WAIT", "IO_WAIT"}
Rem == Remover \cup {Main}
MaxPrio == CHOOSE i \in Prio : \A j \in Prio : j <= i

\* A routine is constructed READY, with updated_ set (nothing to report).
Init ==
    /\ state_ = [cr \in CRoutine |-> "READY"]
    /\ lock_ = [cr \in CRoutine |-> FALSE]
    /\ updated_ = [cr \in CRoutine |-> TRUE]
    /\ force_stop_ = [cr \in CRoutine |-> FALSE]
    /\ due = [cr \in CRoutine |-> TRUE]
    /\ inCallback = [cr \in CRoutine |-> FALSE]
    /\ id_cr_ = [id \in Id |-> None]
    /\ id_mutex = [id \in Id |-> None]
    /\ multi_pri_rq_ = [i \in Prio |-> <<>>]
    /\ rq_writer = [i \in Prio |-> None]
    /\ notify_grp_ = 0
    /\ stop_ = FALSE /\ ctx_stop = {} /\ running_ = Proc /\ todo = {}
    /\ unread = [cr \in CRoutine |-> 0]
    /\ registered = [cr \in CRoutine |-> FALSE]
    /\ sent = [s \in Source |-> 0]
    /\ ppc = [p \in Proc |-> "loop"] /\ cur = [p \in Proc |-> None]
    /\ pri = [p \in Proc |-> 0] /\ idx = [p \in Proc |-> 1]
    /\ cpc = [cr \in CRoutine |-> "new"]
    /\ npc = [s \in Source |-> "idle"] /\ target = [s \in Source |-> None]
    /\ rpc = [r \in Rem |-> "idle"] /\ rid = [r \in Rem |-> None]
    /\ victim = [r \in Rem |-> None] /\ removed = {}

-----------------------------------------------------------------------------
(* The locks of the registry and of the run queues.                        *)

\* Transport threads inside NotifyProcessor() hold id_cr_lock_ for reading.
IdReaders == {s \in Source : npc[s] \in {"state", "flag", "count"}}
IdWriterWaits == \/ \E cr \in CRoutine : cpc[cr] = "insert"
                 \/ \E r \in Rem : rpc[r] = "erase"

\* Processors inside NextRoutine() hold the lock of the level they scan.
RqReaders(i) == {p \in Proc : ppc[p] \in {"scan", "update", "skip"} /\ pri[p] = i}
RqWriterWaits(i) == \/ \E cr \in CRoutine : cpc[cr] = "enqueue" /\ PrioOf[cr] = i
                    \/ \E r \in Rem : rpc[r] = "rqlock" /\ PrioOf[victim[r]] = i
RqFree(i) == rq_writer[i] = None /\ RqReaders(i) = {}

-----------------------------------------------------------------------------
(* Scheduler::CreateTask() and SchedulerClassic::DispatchTask().           *)

CreateTask(cr) ==
    /\ cpc[cr] = "new"
    /\ cpc' = [cpc EXCEPT ![cr] = IF stop_ THEN "failed" ELSE "mutex"]
    /\ UNCHANGED <<crVars, regVars, rqVars, notify_grp_, stopVars, dataVars,
                   procVars, srcVars, remVars>>

\* A dispatch that does not take the mutex of its id.
DispatchLock_NoMutex(cr) ==
    /\ cpc[cr] = "mutex"
    /\ cpc' = [cpc EXCEPT ![cr] = "insert"]
    /\ UNCHANGED <<crVars, regVars, rqVars, notify_grp_, stopVars, dataVars,
                   procVars, srcVars, remVars>>

DispatchLock(cr) ==
    /\ cpc[cr] = "mutex"
    /\ id_mutex[IdOf[cr]] = None
    /\ id_mutex' = [id_mutex EXCEPT ![IdOf[cr]] = cr]
    /\ cpc' = [cpc EXCEPT ![cr] = "insert"]
    /\ UNCHANGED <<crVars, id_cr_, rqVars, notify_grp_, stopVars, dataVars,
                   procVars, srcVars, remVars>>

DispatchInsert(cr) ==
    /\ cpc[cr] = "insert"
    /\ IdReaders = {}
    /\ IF id_cr_[IdOf[cr]] # None
         THEN /\ cpc' = [cpc EXCEPT ![cr] = "failed"]
              /\ id_mutex' = [id_mutex EXCEPT ![IdOf[cr]] = None]
              /\ UNCHANGED id_cr_
         ELSE /\ cpc' = [cpc EXCEPT ![cr] = "enqueue"]
              /\ id_cr_' = [id_cr_ EXCEPT ![IdOf[cr]] = cr]
              /\ UNCHANGED id_mutex
    /\ UNCHANGED <<crVars, rqVars, notify_grp_, stopVars, dataVars, procVars,
                   srcVars, remVars>>

DispatchEnqueue(cr) ==
    /\ cpc[cr] = "enqueue"
    /\ RqFree(PrioOf[cr])
    /\ multi_pri_rq_' = [multi_pri_rq_ EXCEPT ![PrioOf[cr]] = Append(@, cr)]
    /\ cpc' = [cpc EXCEPT ![cr] = "notify"]
    /\ UNCHANGED <<crVars, regVars, rq_writer, notify_grp_, stopVars, dataVars,
                   procVars, srcVars, remVars>>

\* ClassicContext::Notify(), and DispatchTask() returns.
DispatchNotify(cr) ==
    /\ cpc[cr] = "notify"
    /\ notify_grp_' = notify_grp_ + 1
    /\ id_mutex' = [id_mutex EXCEPT ![IdOf[cr]] = None]
    /\ cpc' = [cpc EXCEPT ![cr] = "register"]
    /\ UNCHANGED <<crVars, id_cr_, rqVars, stopVars, dataVars, procVars,
                   srcVars, remVars>>

\* visitor->RegisterNotifyCallback(), after the routine may already run.
RegisterCallback(cr) ==
    /\ cpc[cr] = "register"
    /\ registered' = [registered EXCEPT ![cr] = TRUE]
    /\ cpc' = [cpc EXCEPT ![cr] = "created"]
    /\ UNCHANGED <<crVars, regVars, rqVars, notify_grp_, stopVars, unread, sent,
                   procVars, srcVars, remVars>>

CreatorStep(cr) ==
    \/ CreateTask(cr) \/ DispatchLock(cr) \/ DispatchInsert(cr)
    \/ DispatchEnqueue(cr) \/ DispatchNotify(cr) \/ RegisterCallback(cr)

-----------------------------------------------------------------------------
(* A message: DataDispatcher::Dispatch() fills the buffer, then            *)
(* DataNotifier::Notify() calls the visitor's callback, which ends in      *)
(* SchedulerClassic::NotifyProcessor().                                    *)

Fill(s) ==
    /\ npc[s] = "idle"
    /\ sent[s] < MaxMsg
    /\ EarlyMessages \/ registered[Feeds[s]]
    /\ sent' = [sent EXCEPT ![s] = @ + 1]
    /\ unread' = [unread EXCEPT ![Feeds[s]] = @ + 1]
    /\ npc' = [npc EXCEPT ![s] = "filled"]
    /\ UNCHANGED <<crVars, regVars, rqVars, notify_grp_, stopVars, registered,
                   procVars, cpc, target, remVars>>

\* No callback yet, a stopped scheduler or an unknown id: nothing to do.
\* Otherwise the routine registered under the id is looked up.
NotifyLookup(s) ==
    /\ npc[s] = "filled"
    /\ LET id == IdOf[Feeds[s]]
       IN IF ~registered[Feeds[s]] \/ stop_ \/ id_cr_[id] = None
            THEN npc' = [npc EXCEPT ![s] = "idle"] /\ UNCHANGED target
            ELSE /\ ~IdWriterWaits
                 /\ target' = [target EXCEPT ![s] = id_cr_[id]]
                 /\ npc' = [npc EXCEPT ![s] = "state"]
    /\ UNCHANGED <<crVars, regVars, rqVars, notify_grp_, stopVars, dataVars,
                   procVars, cpc, remVars>>

\* A notification that raises the flag of routines in IO_WAIT only.
NotifyState_OnlyIo(s) ==
    /\ npc[s] = "state"
    /\ npc' = [npc EXCEPT ![s] =
                 IF state_[target[s]] = "IO_WAIT" THEN "flag" ELSE "count"]
    /\ UNCHANGED <<crVars, regVars, rqVars, notify_grp_, stopVars, dataVars,
                   procVars, cpc, target, remVars>>

\* cr->state() is read once for the test; the flag is raised in a later step.
NotifyState(s) ==
    /\ npc[s] = "state"
    /\ npc' = [npc EXCEPT ![s] =
                 IF state_[target[s]] \in Waits THEN "flag" ELSE "count"]
    /\ UNCHANGED <<crVars, regVars, rqVars, notify_grp_, stopVars, dataVars,
                   procVars, cpc, target, remVars>>

\* SetUpdateFlag().
NotifyFlag(s) ==
    /\ npc[s] = "flag"
    /\ updated_' = [updated_ EXCEPT ![target[s]] = FALSE]
    /\ npc' = [npc EXCEPT ![s] = "count"]
    /\ UNCHANGED <<state_, lock_, force_stop_, due, inCallback, regVars, rqVars,
                   notify_grp_, stopVars, dataVars, procVars, cpc, target,
                   remVars>>

\* ClassicContext::Notify(); the condition variable wakes a processor whose
\* predicate is notify_grp_ > 0.
NotifyCount(s) ==
    /\ npc[s] = "count"
    /\ notify_grp_' = notify_grp_ + 1
    /\ npc' = [npc EXCEPT ![s] = "idle"]
    /\ target' = [target EXCEPT ![s] = None]
    /\ UNCHANGED <<crVars, regVars, rqVars, stopVars, dataVars, procVars, cpc,
                   remVars>>

NotifierStep(s) ==
    \/ NotifyLookup(s) \/ NotifyState(s) \/ NotifyFlag(s) \/ NotifyCount(s)

-----------------------------------------------------------------------------
(* Processor::Run() with ClassicContext::NextRoutine() and Wait().         *)

ProcGoto(p, place) == ppc' = [ppc EXCEPT ![p] = place]

ProcLoop(p) ==
    /\ ppc[p] = "loop"
    /\ IF p \notin running_ THEN ProcGoto(p, "exit") /\ UNCHANGED pri
       ELSE IF p \in ctx_stop THEN ProcGoto(p, "wait") /\ UNCHANGED pri
       ELSE ProcGoto(p, "level") /\ pri' = [pri EXCEPT ![p] = MaxPrio]
    /\ UNCHANGED <<crVars, regVars, rqVars, notify_grp_, stopVars, dataVars,
                   cur, idx, cpc, srcVars, remVars>>

\* ReadLockGuard on the level's lock.
ProcLevel(p) ==
    /\ ppc[p] = "level"
    /\ rq_writer[pri[p]] = None /\ ~RqWriterWaits(pri[p])
    /\ ProcGoto(p, "scan")
    /\ idx' = [idx EXCEPT ![p] = 1]
    /\ UNCHANGED <<crVars, regVars, rqVars, notify_grp_, stopVars, dataVars,
                   cur, pri, cpc, srcVars, remVars>>

\* The level is exhausted: the next lower one, or nothing to run.
ProcLevelEnd(p) ==
    /\ ppc[p] = "scan"
    /\ idx[p] > Len(multi_pri_rq_[pri[p]])
    /\ IF pri[p] = 0 THEN ProcGoto(p, "wait") /\ UNCHANGED pri
                     ELSE ProcGoto(p, "level") /\ pri' = [pri EXCEPT ![p] = @ - 1]
    /\ UNCHANGED <<crVars, regVars, rqVars, notify_grp_, stopVars, dataVars,
                   cur, idx, cpc, srcVars, remVars>>

\* A scan that takes a routine without asking for its lock.
ProcAcquire_NoLock(p) ==
    /\ ppc[p] = "scan"
    /\ idx[p] <= Len(multi_pri_rq_[pri[p]])
    /\ cur' = [cur EXCEPT ![p] = multi_pri_rq_[pri[p]][idx[p]]]
    /\ ProcGoto(p, "update")
    /\ UNCHANGED <<crVars, idx, pri, regVars, rqVars, notify_grp_, stopVars,
                   dataVars, cpc, srcVars, remVars>>

\* cr->Acquire(): a routine that somebody holds is passed over.
ProcAcquire(p) ==
    /\ ppc[p] = "scan"
    /\ idx[p] <= Len(multi_pri_rq_[pri[p]])
    /\ LET cr == multi_pri_rq_[pri[p]][idx[p]]
       IN IF lock_[cr]
            THEN idx' = [idx EXCEPT ![p] = @ + 1] /\ UNCHANGED <<lock_, cur, ppc>>
            ELSE /\ lock_' = [lock_ EXCEPT ![cr] = TRUE]
                 /\ cur' = [cur EXCEPT ![p] = cr]
                 /\ ProcGoto(p, "update")
                 /\ UNCHANGED idx
    /\ UNCHANGED <<state_, updated_, force_stop_, due, inCallback, pri, regVars,
                   rqVars, notify_grp_, stopVars, dataVars, cpc, srcVars, remVars>>

\* CRoutine::UpdateState(): a sleeper whose time has come is READY; else the
\* update flag is consumed and readies a routine that waits.
UpdateState(cr) ==
    IF state_[cr] = "SLEEP" /\ due[cr]
      THEN state_' = [state_ EXCEPT ![cr] = "READY"] /\ UNCHANGED updated_
      ELSE /\ updated_' = [updated_ EXCEPT ![cr] = TRUE]
           /\ state_' = [state_ EXCEPT ![cr] =
                IF ~updated_[cr] /\ @ \in Waits THEN "READY" ELSE @]

\* A scan that passes over a routine that is not ready and keeps its lock.
ProcUpdate_KeepsLock(p) ==
    /\ ppc[p] = "update"
    /\ UpdateState(cur[p])
    /\ IF state_'[cur[p]] = "READY"
         THEN ProcGoto(p, "resume") /\ UNCHANGED <<cur, idx>>
         ELSE /\ ProcGoto(p, "scan")
              /\ cur' = [cur EXCEPT ![p] = None]
              /\ idx' = [idx EXCEPT ![p] = @ + 1]
    /\ UNCHANGED <<lock_, force_stop_, due, inCallback, regVars, rqVars,
                   notify_grp_, stopVars, dataVars, pri, cpc, srcVars, remVars>>

\* READY: NextRoutine() returns the routine; otherwise it is let go.
ProcUpdate(p) ==
    /\ ppc[p] = "update"
    /\ UpdateState(cur[p])
    /\ ProcGoto(p, IF state_'[cur[p]] = "READY" THEN "resume" ELSE "skip")
    /\ UNCHANGED <<lock_, force_stop_, due, inCallback, regVars, rqVars,
                   notify_grp_, stopVars, dataVars, cur, pri, idx, cpc, srcVars,
                   remVars>>

ProcSkip(p) ==
    /\ ppc[p] = "skip"
    /\ lock_' = [lock_ EXCEPT ![cur[p]] = FALSE]
    /\ cur' = [cur EXCEPT ![p] = None]
    /\ idx' = [idx EXCEPT ![p] = @ + 1]
    /\ ProcGoto(p, "scan")
    /\ UNCHANGED <<state_, updated_, force_stop_, due, inCallback, regVars,
                   rqVars, notify_grp_, stopVars, dataVars, pri, cpc, srcVars,
                   remVars>>

\* CRoutine::Resume() up to the context switch.
ProcResume(p) ==
    /\ ppc[p] = "resume"
    /\ LET cr == cur[p]
       IN IF force_stop_[cr]
            THEN state_' = [state_ EXCEPT ![cr] = "FINISHED"] /\ ProcGoto(p, "release")
            ELSE /\ UNCHANGED state_
                 /\ ProcGoto(p, IF state_[cr] # "READY" THEN "release"
                                ELSE IF inCallback[cr] THEN "call" ELSE "body")
    /\ UNCHANGED <<lock_, updated_, force_stop_, due, inCallback, regVars,
                   rqVars, notify_grp_, stopVars, dataVars, cur, pri, idx, cpc,
                   srcVars, remVars>>

\* A processor that goes on without releasing the routine.
ProcRelease_Forgotten(p) ==
    /\ ppc[p] = "release"
    /\ cur' = [cur EXCEPT ![p] = None]
    /\ ProcGoto(p, "loop")
    /\ UNCHANGED <<crVars, regVars, rqVars, notify_grp_, stopVars, dataVars,
                   pri, idx, cpc, srcVars, remVars>>

\* The context switch back and croutine->Release().
ProcRelease(p) ==
    /\ ppc[p] = "release"
    /\ lock_' = [lock_ EXCEPT ![cur[p]] = FALSE]
    /\ cur' = [cur EXCEPT ![p] = None]
    /\ ProcGoto(p, "loop")
    /\ UNCHANGED <<state_, updated_, force_stop_, due, inCallback, regVars,
                   rqVars, notify_grp_, stopVars, dataVars, pri, idx, cpc,
                   srcVars, remVars>>

\* ClassicContext::Wait(): a notification is there or arrives.
ProcWait(p) ==
    /\ ppc[p] = "wait"
    /\ notify_grp_ > 0
    /\ notify_grp_' = notify_grp_ - 1
    /\ ProcGoto(p, "loop")
    /\ UNCHANGED <<crVars, regVars, rqVars, stopVars, dataVars, cur, pri, idx,
                   cpc, srcVars, remVars>>

\* wait_for() ends after 1000 ms without a notification.
ProcWaitTimeout(p) ==
    /\ ppc[p] = "wait"
    /\ notify_grp_ = 0
    /\ ProcGoto(p, "loop")
    /\ UNCHANGED <<crVars, regVars, rqVars, notify_grp_, stopVars, dataVars,
                   cur, pri, idx, cpc, srcVars, remVars>>

-----------------------------------------------------------------------------
(* The routine's body (RoutineFactory), run by the processor p holds.      *)

\* set_state(DATA_WAIT).
Body(p) ==
    /\ ppc[p] = "body"
    /\ state_' = [state_ EXCEPT ![cur[p]] = "DATA_WAIT"]
    /\ ProcGoto(p, "fetch")
    /\ UNCHANGED <<lock_, updated_, force_stop_, due, inCallback, regVars,
                   rqVars, notify_grp_, stopVars, dataVars, cur, pri, idx, cpc,
                   srcVars, remVars>>

\* dv->TryFetch(msg); Yield() when there is nothing.
BodyFetch(p) ==
    /\ ppc[p] = "fetch"
    /\ IF unread[cur[p]] > 0
         THEN /\ unread' = [unread EXCEPT ![cur[p]] = @ - 1]
              /\ inCallback' = [inCallback EXCEPT ![cur[p]] = TRUE]
              /\ ProcGoto(p, "call")
         ELSE ProcGoto(p, "release") /\ UNCHANGED <<unread, inCallback>>
    /\ UNCHANGED <<state_, lock_, updated_, force_stop_, due, regVars, rqVars,
                   notify_grp_, stopVars, registered, sent, cur, pri, idx, cpc,
                   srcVars, remVars>>

\* f(msg) returns; Yield(READY).
BodyHandled(p) ==
    /\ ppc[p] = "call"
    /\ state_' = [state_ EXCEPT ![cur[p]] = "READY"]
    /\ inCallback' = [inCallback EXCEPT ![cur[p]] = FALSE]
    /\ ProcGoto(p, "release")
    /\ UNCHANGED <<lock_, updated_, force_stop_, due, regVars, rqVars,
                   notify_grp_, stopVars, dataVars, cur, pri, idx, cpc, srcVars,
                   remVars>>

\* f(msg) calls Sleep(): Yield(SLEEP) in the middle of the callback.
BodySleep(p) ==
    /\ ppc[p] = "call" /\ cur[p] \in Sleeper /\ state_[cur[p]] = "DATA_WAIT"
    /\ state_' = [state_ EXCEPT ![cur[p]] = "SLEEP"]
    /\ due' = [due EXCEPT ![cur[p]] = FALSE]
    /\ ProcGoto(p, "release")
    /\ UNCHANGED <<lock_, updated_, force_stop_, inCallback, regVars, rqVars,
                   notify_grp_, stopVars, dataVars, cur, pri, idx, cpc, srcVars,
                   remVars>>

ProcStep(p) ==
    \/ ProcLoop(p) \/ ProcLevel(p) \/ ProcLevelEnd(p) \/ ProcAcquire(p)
    \/ ProcUpdate(p) \/ ProcSkip(p) \/ ProcResume(p) \/ ProcRelease(p)
    \/ ProcWait(p) \/ ProcWaitTimeout(p)
    \/ Body(p) \/ BodyFetch(p) \/ BodyHandled(p) \/ BodySleep(p)

\* Time passes a sleeper's wake_time_.
WakeTime(cr) ==
    /\ ~due[cr]
    /\ due' = [due EXCEPT ![cr] = TRUE]
    /\ UNCHANGED <<state_, lock_, updated_, force_stop_, inCallback, regVars,
                   rqVars, notify_grp_, stopVars, dataVars, procVars, cpc,
                   srcVars, remVars>>

-----------------------------------------------------------------------------
(* SchedulerClassic::RemoveTask() and RemoveCRoutine().                    *)

\* When stop_ is set RemoveTask() returns true at once: it removes nothing and
\* waits for nobody, and leaves the task to Shutdown().
RemoveTask(r) ==
    /\ rpc[r] = "idle" /\ r \in Remover
    /\ rpc' = [rpc EXCEPT ![r] = IF stop_ THEN "done" ELSE "mutex"]
    /\ rid' = [rid EXCEPT ![r] = Removes[r]]
    /\ UNCHANGED <<crVars, regVars, rqVars, notify_grp_, stopVars, dataVars,
                   procVars, cpc, srcVars, victim, removed>>

\* Where a thread goes when RemoveCRoutine() returns.
Returned(r) == IF r = Main THEN "list" ELSE "done"

RemoveLock(r) ==
    /\ rpc[r] = "mutex"
    /\ id_mutex[rid[r]] = None
    /\ id_mutex' = [id_mutex EXCEPT ![rid[r]] = r]
    /\ rpc' = [rpc EXCEPT ![r] = "erase"]
    /\ UNCHANGED <<crVars, id_cr_, rqVars, notify_grp_, stopVars, dataVars,
                   procVars, cpc, srcVars, rid, victim, removed>>

\* The registry's entry is stopped and erased; an unknown id is an error.
RemoveErase(r) ==
    /\ rpc[r] = "erase"
    /\ IdReaders = {}
    /\ IF id_cr_[rid[r]] = None
         THEN /\ rpc' = [rpc EXCEPT ![r] = Returned(r)]
              /\ id_mutex' = [id_mutex EXCEPT ![rid[r]] = None]
              /\ UNCHANGED <<victim, id_cr_, force_stop_>>
         ELSE /\ victim' = [victim EXCEPT ![r] = id_cr_[rid[r]]]
              /\ force_stop_' = [force_stop_ EXCEPT ![id_cr_[rid[r]]] = TRUE]
              /\ id_cr_' = [id_cr_ EXCEPT ![rid[r]] = None]
              /\ rpc' = [rpc EXCEPT ![r] = "rqlock"]
              /\ UNCHANGED id_mutex
    /\ UNCHANGED <<state_, lock_, updated_, due, inCallback, rqVars,
                   notify_grp_, stopVars, dataVars, procVars, cpc, srcVars, rid,
                   removed>>

\* The first place in a run queue that holds a routine with the id.
FirstWithId(q, id) ==
    CHOOSE k \in 1 .. Len(q) :
      IdOf[q[k]] = id /\ \A l \in 1 .. k - 1 : IdOf[q[l]] # id

\* ClassicContext::RemoveCRoutine(): the level's write lock is kept while
\* the routine is waited for.  The queue is searched by id.
RemoveRqLock(r) ==
    /\ rpc[r] = "rqlock"
    /\ RqFree(PrioOf[victim[r]])
    /\ LET q == multi_pri_rq_[PrioOf[victim[r]]]
       IN IF \A k \in 1 .. Len(q) : IdOf[q[k]] # rid[r]
            THEN /\ rpc' = [rpc EXCEPT ![r] = Returned(r)]
                 /\ id_mutex' = [id_mutex EXCEPT ![rid[r]] = None]
                 /\ UNCHANGED <<rq_writer, victim, force_stop_>>
            ELSE LET first == q[FirstWithId(q, rid[r])]
                 IN /\ rpc' = [rpc EXCEPT ![r] = "acquire"]
                    /\ rq_writer' = [rq_writer EXCEPT ![PrioOf[victim[r]]] = r]
                    /\ victim' = [victim EXCEPT ![r] = first]
                    /\ force_stop_' = [force_stop_ EXCEPT ![first] = TRUE]
                    /\ UNCHANGED id_mutex
    /\ UNCHANGED <<state_, lock_, updated_, due, inCallback, id_cr_,
                   multi_pri_rq_, notify_grp_, stopVars, dataVars, procVars, cpc,
                   srcVars, rid, removed>>

\* A removal that does not wait for the routine to be let go.
RemoveAcquire_NoWait(r) ==
    /\ rpc[r] = "acquire"
    /\ multi_pri_rq_' = [multi_pri_rq_ EXCEPT ![PrioOf[victim[r]]] =
                           RemoveAt(@, FirstWithId(@, rid[r]))]
    /\ rq_writer' = [rq_writer EXCEPT ![PrioOf[victim[r]]] = None]
    /\ id_mutex' = [id_mutex EXCEPT ![rid[r]] = None]
    /\ removed' = removed \cup {victim[r]}
    /\ rpc' = [rpc EXCEPT ![r] = Returned(r)]
    /\ UNCHANGED <<crVars, id_cr_, notify_grp_, stopVars, dataVars, procVars,
                   cpc, srcVars, rid, victim>>

\* while (!cr->Acquire()), erase, Release(), and the locks are given back.
RemoveAcquire(r) ==
    /\ rpc[r] = "acquire"
    /\ ~lock_[victim[r]]
    /\ multi_pri_rq_' = [multi_pri_rq_ EXCEPT ![PrioOf[victim[r]]] =
                           RemoveAt(@, FirstWithId(@, rid[r]))]
    /\ rq_writer' = [rq_writer EXCEPT ![PrioOf[victim[r]]] = None]
    /\ id_mutex' = [id_mutex EXCEPT ![rid[r]] = None]
    /\ removed' = removed \cup {victim[r]}
    /\ rpc' = [rpc EXCEPT ![r] = Returned(r)]
    /\ UNCHANGED <<crVars, id_cr_, notify_grp_, stopVars, dataVars, procVars,
                   cpc, srcVars, rid, victim>>

RemoveStep(r) ==
    \/ RemoveLock(r) \/ RemoveErase(r) \/ RemoveRqLock(r) \/ RemoveAcquire(r)

-----------------------------------------------------------------------------
(* Scheduler::Shutdown(), called by Main.                                  *)

Shutdown ==
    /\ MayShutdown /\ rpc[Main] = "idle"
    /\ stop_' = TRUE
    /\ todo' = Proc
    /\ rpc' = [rpc EXCEPT ![Main] = "contexts"]
    /\ UNCHANGED <<crVars, regVars, rqVars, notify_grp_, ctx_stop, running_,
                   dataVars, procVars, cpc, srcVars, rid, victim, removed>>

\* ClassicContext::Shutdown() of each context.
ShutdownContext(p) ==
    /\ rpc[Main] = "contexts" /\ p \in todo
    /\ ctx_stop' = ctx_stop \cup {p}
    /\ notify_grp_' = ShutdownNotify
    /\ todo' = todo \ {p}
    /\ UNCHANGED <<crVars, regVars, rqVars, stop_, running_, dataVars, procVars,
                   cpc, srcVars, remVars>>

\* cr_list: the ids registered now.
ShutdownList ==
    /\ rpc[Main] = "contexts" /\ todo = {}
    /\ todo' = {id \in Id : id_cr_[id] # None}
    /\ rpc' = [rpc EXCEPT ![Main] = "list"]
    /\ UNCHANGED <<crVars, regVars, rqVars, notify_grp_, stop_, ctx_stop,
                   running_, dataVars, procVars, cpc, srcVars, rid, victim,
                   removed>>

ShutdownRemove(id) ==
    /\ rpc[Main] = "list" /\ id \in todo
    /\ todo' = todo \ {id}
    /\ rid' = [rid EXCEPT ![Main] = id]
    /\ rpc' = [rpc EXCEPT ![Main] = "mutex"]
    /\ UNCHANGED <<crVars, regVars, rqVars, notify_grp_, stop_, ctx_stop,
                   running_, dataVars, procVars, cpc, srcVars, victim, removed>>

\* Processor::Stop(): running_ is cleared, the context is shut down once
\* more and the thread is joined.
ShutdownStop(p) ==
    /\ rpc[Main] = "list" /\ todo = {} /\ p \in running_
    /\ \A q \in Proc \ running_ : ppc[q] = "exit"
    /\ running_' = running_ \ {p}
    /\ ctx_stop' = ctx_stop \cup {p}
    /\ notify_grp_' = ShutdownNotify
    /\ UNCHANGED <<crVars, regVars, rqVars, stop_, todo, dataVars, procVars,
                   cpc, srcVars, remVars>>

ShutdownDone ==
    /\ rpc[Main] = "list" /\ todo = {} /\ running_ = {}
    /\ \A p \in Proc : ppc[p] = "exit"
    /\ rpc' = [rpc EXCEPT ![Main] = "done"]
    /\ UNCHANGED <<crVars, regVars, rqVars, notify_grp_, stopVars, dataVars,
                   procVars, cpc, srcVars, rid, victim, removed>>

ShutdownStep ==
    \/ \E p \in Proc : ShutdownContext(p) \/ ShutdownStop(p)
    \/ ShutdownList
    \/ \E id \in Id : ShutdownRemove(id)
    \/ ShutdownDone

\* After Shutdown() there may be nothing left to do.
Stopped == rpc[Main] = "done" /\ UNCHANGED vars

Next ==
    \/ \E cr \in CRoutine : CreatorStep(cr) \/ WakeTime(cr)
    \/ \E s \in Source : Fill(s) \/ NotifierStep(s)
    \/ \E p \in Proc : ProcStep(p)
    \/ \E r \in Remover : RemoveTask(r)
    \/ \E r \in Rem : RemoveStep(r)
    \/ Shutdown \/ ShutdownStep
    \/ Stopped

Spec == Init /\ [][Next]_vars

\* Every thread that can go on does: processors are operating system
\* threads, waits have a limit, and clocks advance.  A message, a creation,
\* a removal and the shutdown need not come, but are completed once begun.
FairSpec ==
    /\ Spec
    /\ \A p \in Proc : WF_vars(ProcStep(p))
    /\ \A cr \in CRoutine : WF_vars(CreatorStep(cr)) /\ WF_vars(WakeTime(cr))
    /\ \A s \in Source : WF_vars(NotifierStep(s))
    /\ \A r \in Rem : WF_vars(RemoveStep(r))
    /\ WF_vars(ShutdownStep)

-----------------------------------------------------------------------------
(* Properties.                                                             *)

\* Places where a processor holds the routine cur[p].
Holding(p) == ppc[p] \in {"update", "skip", "resume", "release", "body",
                          "fetch", "call"}
Executing(p) == ppc[p] \in {"body", "fetch", "call"}
Queued(cr) == \E k \in 1 .. Len(multi_pri_rq_[PrioOf[cr]]) :
                 multi_pri_rq_[PrioOf[cr]][k] = cr

TypeOK ==
    /\ state_ \in [CRoutine -> {"READY", "FINISHED", "SLEEP", "IO_WAIT",
                                "DATA_WAIT"}]
    /\ \A v \in {lock_, updated_, force_stop_, due, inCallback, registered} :
         v \in [CRoutine -> BOOLEAN]
    /\ id_cr_ \in [Id -> CRoutine \cup {None}]
    /\ id_mutex \in [Id -> CRoutine \cup Rem \cup {None}]
    /\ multi_pri_rq_ \in [Prio -> Seq(CRoutine)]
    /\ rq_writer \in [Prio -> Rem \cup {None}]
    /\ notify_grp_ \in Nat /\ stop_ \in BOOLEAN
    /\ ctx_stop \subseteq Proc /\ running_ \subseteq Proc
    /\ unread \in [CRoutine -> Nat] /\ sent \in [Source -> 0 .. MaxMsg]
    /\ cur \in [Proc -> CRoutine \cup {None}]
    /\ \A p \in Proc : (cur[p] # None) = Holding(p)
    /\ pri \in [Proc -> Prio] /\ idx \in [Proc -> Nat \ {0}]
    /\ target \in [Source -> CRoutine \cup {None}]
    /\ victim \in [Rem -> CRoutine \cup {None}]

\* Acquire() and Release(): no two processors hold, and so none of them
\* resumes, the same routine, although all of them scan the same queues.
RunExclusive ==
    \A p, q \in Proc : Holding(p) /\ Holding(q) /\ p # q => cur[p] # cur[q]

\* A message is never left behind: when a routine is parked in DATA_WAIT
\* with something to fetch, its update flag is raised or the thread that
\* filled the buffer is still on its way to raise it.
Awaited(cr) ==
    \/ ~updated_[cr]
    \/ \E s \in Source :
         \/ npc[s] = "filled" /\ Feeds[s] = cr
         \/ npc[s] \in {"state", "flag"} /\ target[s] = cr

NoLostWakeup ==
    \A cr \in CRoutine :
      /\ Queued(cr) /\ unread[cr] > 0 /\ ~stop_ /\ ~force_stop_[cr]
      /\ state_[cr] = "DATA_WAIT" /\ ~lock_[cr]
      => Awaited(cr)

\* "we use multi-key mutex to prevent race condition when del && add cr with
\* same crid": when nobody is adding or removing an id, the registry and the
\* run queues agree on it, and no id is queued twice.
RegistryMatchesQueues ==
    \A id \in Id : id_mutex[id] = None =>
      /\ id_cr_[id] # None => Queued(id_cr_[id])
      /\ \A i \in Prio : \A k \in 1 .. Len(multi_pri_rq_[i]) :
           IdOf[multi_pri_rq_[i][k]] = id => multi_pri_rq_[i][k] = id_cr_[id]
      /\ \A i \in Prio : \A k, l \in 1 .. Len(multi_pri_rq_[i]) :
           multi_pri_rq_[i][k] = multi_pri_rq_[i][l] => k = l

\* Once RemoveCRoutine() has returned true, to RemoveTask() or to Shutdown(),
\* the routine is in no run queue and no processor has it, so its owner may
\* destroy what the callback uses.  The true that RemoveTask() returns because
\* stop_ is set says nothing of the kind: such a routine may be running until
\* Shutdown() has returned, and only then is no routine run any more.
RemovedIsIdle ==
    /\ \A cr \in removed : ~Queued(cr) /\ \A p \in Proc : cur[p] # cr
    /\ rpc[Main] = "done" => \A p \in Proc : cur[p] = None

\* Every message that arrives for a live task is handed to its callback,
\* whichever processor is asleep when it comes.
MessagesHandled ==
    \A cr \in CRoutine :
      unread[cr] > 0 ~> (unread[cr] = 0 \/ force_stop_[cr] \/ stop_)

\* Shutdown() comes back: the routines it waits for yield, and the
\* processors it joins leave their loops.
ShutdownReturns == (rpc[Main] = "contexts") ~> (rpc[Main] = "done")
=============================================================================
