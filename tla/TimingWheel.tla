----------------------------- MODULE TimingWheel -----------------------------
(***************************************************************************)
(* Timer and TimingWheel (code/cyber/timer), on top of the task manager    *)
(* that runs the timers' callbacks, and the part of cyber::Clear() that    *)
(* shuts both down.                                                        *)
(*                                                                         *)
(* A timer task is <<t, n>>, what the n-th Start() of timer t created.     *)
(* The wheels hold weak pointers: a task is alive while its timer, the     *)
(* tick thread or a routine inside its callback has a reference.  Each     *)
(* timer has one owner, the thread that calls Start() and Stop().          *)
(***************************************************************************)
EXTENDS TaskManager, Integers, SequencesExt

CONSTANTS
    Timer,
    WORK_WHEEL_SIZE, ASSISTANT_WHEEL_SIZE, TIMER_RESOLUTION_MS,
    Options,        \* the TimerOptions each timer is given: period (ms) and oneshot
    Durations,      \* what next_fire_duration_ms may be set to after a run
    MaxStarts,      \* bound: how often a timer is started
    MaxOvertaken,   \* bound: ticks that may pass during one AddTask()
    Tick            \* the tick thread, the only caller of Async() here

TIMER_MAX_INTERVAL_MS == WORK_WHEEL_SIZE * ASSISTANT_WHEEL_SIZE * TIMER_RESOLUTION_MS

Task == Timer \X (1..MaxStarts)

ASSUME TimingWheelAssumption ==
    /\ {WORK_WHEEL_SIZE, ASSISTANT_WHEEL_SIZE, TIMER_RESOLUTION_MS} \subseteq Nat \ {0}
    /\ Durations \subseteq TIMER_RESOLUTION_MS..TIMER_MAX_INTERVAL_MS - 1
    /\ Options \in [Timer -> SUBSET [period : Nat, oneshot : BOOLEAN]]
    /\ MaxStarts \in Nat
    /\ Job = Task /\ Caller = {Tick}

VARIABLES
    running_,
    work_wheel_, assistant_wheel_,
    current_work_wheel_index_, current_assistant_wheel_index_,
    tickAt,         \* where the tick thread is
    tickTask,       \* the task it holds a reference to
    started_, task_, \* of each timer; task_ is 0 when it is null
    starts,         \* how often a timer was started
    option,         \* of each task
    adding,         \* the call of AddTask() that is under way for a task
    remainder_interval_ms,
    callbackAt,     \* where a routine is in the timer's callback
    clear,          \* how far Clear() is
    crashed,        \* a routine went through a pointer into a freed task
    due,            \* history: ticks left until the task should fire
    raced           \* history: the last AddTask() met a tick under way

wheelVars == <<running_, work_wheel_, assistant_wheel_, current_work_wheel_index_,
               current_assistant_wheel_index_, tickAt, tickTask>>
timerVars == <<started_, task_, starts, option, adding, remainder_interval_ms,
               callbackAt, due, raced>>
vars == <<taskVars, wheelVars, timerVars, clear, crashed>>

NotAdding == [at |-> "no", index |-> 0, overtaken |-> 0]

Init ==
    /\ TaskInit
    /\ running_ = FALSE
    /\ work_wheel_ = [i \in 0..WORK_WHEEL_SIZE - 1 |-> <<>>]
    /\ assistant_wheel_ = [i \in 0..ASSISTANT_WHEEL_SIZE - 1 |-> <<>>]
    /\ current_work_wheel_index_ = 0
    /\ current_assistant_wheel_index_ = 0
    /\ tickAt = "off" /\ tickTask = NoJob
    /\ started_ = [t \in Timer |-> FALSE]
    /\ task_ = [t \in Timer |-> 0]
    /\ starts = [t \in Timer |-> 0]
    /\ option = [k \in Task |-> CHOOSE o \in Options[k[1]] : TRUE]
    /\ adding = [k \in Task |-> NotAdding]
    /\ remainder_interval_ms = [k \in Task |-> 0]
    /\ callbackAt = [w \in Worker |-> "no"]
    /\ clear = "no" /\ crashed = FALSE
    /\ due = [k \in Task |-> 0]
    /\ raced = [k \in Task |-> FALSE]

GetWorkWheelIndex(i) == i % WORK_WHEEL_SIZE
GetAssistantWheelIndex(i) == i % ASSISTANT_WHEEL_SIZE

HeldByTimer(k) == task_[k[1]] = k[2]

\* weak_ptr::lock() succeeds.
Alive(k) ==
    \/ HeldByTimer(k)
    \/ tickTask = k
    \/ \E w \in Worker : job[w] = k /\ callbackAt[w] \in {"locked", "callback", "add"}

\* task->mutex is held.
Locked(k) ==
    \E w \in Worker : job[w] = k /\ callbackAt[w] \in {"callback", "add"}

InWheel(k) ==
    \/ \E i \in DOMAIN work_wheel_ : k \in ToSet(work_wheel_[i])
    \/ \E i \in DOMAIN assistant_wheel_ : k \in ToSet(assistant_wheel_[i])

-----------------------------------------------------------------------------
(* TimingWheel::AddTask(), called by the owner of a timer and by the       *)
(* callback of a periodic one.  It reads current_work_wheel_index_ twice   *)
(* without its mutex, so it takes three steps.                             *)

Ticks(ms) == (ms + TIMER_RESOLUTION_MS - 1) \div TIMER_RESOLUTION_MS

\* The index is read, Start() is called if the wheel does not run, and
\* work_wheel_index is computed.
AddTaskBegin(k, ms) ==
    /\ running_' = TRUE
    /\ tickAt' = IF running_ THEN tickAt ELSE "loop"
    /\ adding' = [adding EXCEPT ![k] = [at |-> "index", overtaken |-> 0,
                    index |-> current_work_wheel_index_ + Ticks(ms)]]
    /\ due' = [due EXCEPT ![k] = Ticks(ms)]
    /\ raced' = [raced EXCEPT ![k] = tickAt \in {"wrap", "cascade"}]
    /\ UNCHANGED <<work_wheel_, assistant_wheel_, current_work_wheel_index_,
                   current_assistant_wheel_index_, tickTask, remainder_interval_ms>>

\* The choice of the wheel.
AddTaskChoose_ThisBucket(k) ==
    LET index == adding[k].index
        real == GetWorkWheelIndex(index)
        assistant_ticks == index \div WORK_WHEEL_SIZE
        near == assistant_ticks = 1 /\ real <= current_work_wheel_index_
    IN  /\ adding[k].at = "index"
        /\ remainder_interval_ms' = [remainder_interval_ms EXCEPT ![k] = real]
        /\ adding' = [adding EXCEPT
              ![k].at = IF index < WORK_WHEEL_SIZE \/ near THEN "work" ELSE "assistant",
              ![k].index = IF index < WORK_WHEEL_SIZE \/ near THEN real ELSE assistant_ticks]
        /\ UNCHANGED <<wheelVars, due, raced>>

AddTaskChoose(k) ==
    LET index == adding[k].index
        real == GetWorkWheelIndex(index)
        assistant_ticks == index \div WORK_WHEEL_SIZE
        near == assistant_ticks = 1 /\ real < current_work_wheel_index_
    IN  /\ adding[k].at = "index"
        /\ \/ /\ index < WORK_WHEEL_SIZE
              /\ adding' = [adding EXCEPT ![k].at = "work"]
              /\ UNCHANGED remainder_interval_ms
           \/ /\ index >= WORK_WHEEL_SIZE
              /\ remainder_interval_ms' = [remainder_interval_ms EXCEPT ![k] = real]
              /\ adding' = [adding EXCEPT ![k].at = IF near THEN "work" ELSE "assistant",
                                          ![k].index = IF near THEN real ELSE assistant_ticks]
        /\ UNCHANGED <<wheelVars, due, raced>>

AssistantIndex(k) ==
    GetAssistantWheelIndex(current_assistant_wheel_index_ + adding[k].index)

\* The task is put into a bucket, under the bucket's mutex; for the assistant
\* wheel, the index is read under its mutex.
AddTaskPut(k) ==
    /\ \/ /\ adding[k].at = "work"
          /\ ~(tickAt \in {"tick", "notify"} /\ adding[k].index = current_work_wheel_index_)
          /\ work_wheel_' = [work_wheel_ EXCEPT ![adding[k].index] = Append(@, k)]
          /\ UNCHANGED assistant_wheel_
       \/ /\ adding[k].at = "assistant"
          /\ ~(tickAt = "distribute" /\ AssistantIndex(k) = current_assistant_wheel_index_)
          /\ assistant_wheel_' = [assistant_wheel_ EXCEPT ![AssistantIndex(k)] = Append(@, k)]
          /\ UNCHANGED work_wheel_
    /\ adding' = [adding EXCEPT ![k] = NotAdding]
    /\ UNCHANGED <<running_, current_work_wheel_index_, current_assistant_wheel_index_,
                   tickAt, tickTask, remainder_interval_ms, due, raced>>

-----------------------------------------------------------------------------
(* TimingWheel::TickFunc(), the tick thread.                               *)

WorkBucket == work_wheel_[current_work_wheel_index_]

\* while (running_) Tick(): takes the mutex of the bucket and keeps it while
\* there are entries in it.
TickLoop ==
    /\ tickAt = "loop"
    /\ tickAt' = IF ~running_ THEN "off" ELSE IF WorkBucket = <<>> THEN "sleep" ELSE "tick"
    /\ UNCHANGED <<taskVars, running_, work_wheel_, assistant_wheel_, current_work_wheel_index_,
                   current_assistant_wheel_index_, tickTask, timerVars>>

TickOn(rest) == tickAt' = IF rest = <<>> THEN "sleep" ELSE "tick"

\* Tick(): the first entry is passed to Async() if its task is alive, and erased.
TickEntry ==
    LET k == Head(WorkBucket)
    IN  /\ tickAt = "tick" /\ tickTask = NoJob
        /\ work_wheel_' = [work_wheel_ EXCEPT ![current_work_wheel_index_] = Tail(@)]
        /\ IF Alive(k) THEN Enqueue(Tick, k) /\ tickTask' = k /\ tickAt' = "notify"
                       ELSE TickOn(Tail(WorkBucket)) /\ UNCHANGED <<taskVars, tickTask>>
        /\ due' = [due EXCEPT ![k] = 0]
        /\ raced' = [raced EXCEPT ![k] = FALSE]
        /\ UNCHANGED <<running_, assistant_wheel_, current_work_wheel_index_,
                       current_assistant_wheel_index_, started_, task_, starts, option,
                       adding, remainder_interval_ms, callbackAt>>

\* The notifications that end TaskManager::Enqueue(); after the last one the
\* reference to the task is given up.
TickNotify ==
    /\ tickAt = "notify"
    /\ \/ \E w \in Worker : NotifyTask(Tick, w)
       \/ toNotify[Tick] = {} /\ UNCHANGED taskVars
    /\ IF toNotify'[Tick] = {}
         THEN TickOn(WorkBucket) /\ tickTask' = NoJob
         ELSE UNCHANGED <<tickAt, tickTask>>
    /\ UNCHANGED <<running_, work_wheel_, assistant_wheel_, current_work_wheel_index_,
                   current_assistant_wheel_index_, timerVars>>

\* After rate.Sleep(): the index is advanced.  The history variables follow.
TickAdvance ==
    /\ tickAt = "sleep"
    /\ \A k \in Task : adding[k].overtaken < MaxOvertaken
    /\ current_work_wheel_index_' = GetWorkWheelIndex(current_work_wheel_index_ + 1)
    /\ tickAt' = IF current_work_wheel_index_' = 0 THEN "wrap" ELSE "loop"
    /\ adding' = [k \in Task |-> IF adding[k] = NotAdding THEN NotAdding
                                 ELSE [adding[k] EXCEPT !.overtaken = @ + 1]]
    /\ raced' = [k \in Task |-> Alive(k) /\ (raced[k] \/ adding[k] # NotAdding)]
    /\ due' = [k \in Task |-> IF Alive(k) /\ (InWheel(k) \/ adding[k] # NotAdding)
                                THEN due[k] - 1 ELSE 0]
    /\ UNCHANGED <<taskVars, running_, work_wheel_, assistant_wheel_,
                   current_assistant_wheel_index_, tickTask, started_, task_, starts,
                   option, remainder_interval_ms, callbackAt>>

AssistantBucket == assistant_wheel_[current_assistant_wheel_index_]

\* The work wheel has turned: the assistant wheel's index is advanced, and
\* then its bucket is distributed.
TickWrap ==
    /\ tickAt = "wrap"
    /\ current_assistant_wheel_index_' =
         GetAssistantWheelIndex(current_assistant_wheel_index_ + 1)
    /\ tickAt' = "cascade"
    /\ raced' = [k \in Task |-> raced[k] \/ adding[k] # NotAdding]
    /\ UNCHANGED <<taskVars, running_, work_wheel_, assistant_wheel_, current_work_wheel_index_,
                   tickTask, started_, task_, starts, option, adding,
                   remainder_interval_ms, callbackAt, due>>

Distribute(rest) ==
    /\ tickAt \in {"cascade", "distribute"}
    /\ tickAt' = IF rest = <<>> THEN "loop" ELSE "distribute"
    /\ UNCHANGED <<taskVars, running_, current_work_wheel_index_,
                   current_assistant_wheel_index_, tickTask, timerVars>>

Cascade_Keeps ==
    LET k == Head(AssistantBucket)
    IN  /\ Distribute(<<>>)
        /\ IF AssistantBucket # <<>> /\ Alive(k)
             THEN work_wheel_' = [work_wheel_ EXCEPT ![remainder_interval_ms[k]] = Append(@, k)]
             ELSE UNCHANGED work_wheel_
        /\ UNCHANGED assistant_wheel_

Cascade_Drops ==
    /\ Distribute(<<>>)
    /\ assistant_wheel_' = [assistant_wheel_ EXCEPT ![current_assistant_wheel_index_] = <<>>]
    /\ UNCHANGED work_wheel_

\* Cascade(): the first entry of the bucket goes to the work wheel if its
\* task is alive, and is erased; the bucket's mutex is kept until the last.
Cascade ==
    LET k == Head(AssistantBucket)
    IN  \/ /\ AssistantBucket = <<>>
           /\ Distribute(<<>>)
           /\ UNCHANGED <<work_wheel_, assistant_wheel_>>
        \/ /\ AssistantBucket # <<>>
           /\ Distribute(Tail(AssistantBucket))
           /\ assistant_wheel_' =
                [assistant_wheel_ EXCEPT ![current_assistant_wheel_index_] = Tail(@)]
           /\ work_wheel_' = IF Alive(k)
                THEN [work_wheel_ EXCEPT ![remainder_interval_ms[k]] = Append(@, k)]
                ELSE work_wheel_

TickStep ==
    /\ ~crashed
    /\ \/ TickLoop \/ TickEntry \/ TickNotify
       \/ TickAdvance \/ TickWrap \/ Cascade
    /\ UNCHANGED <<clear, crashed>>

-----------------------------------------------------------------------------
(* Timer::Start() and Timer::Stop().                                       *)

\* A period that InitTimerTask() refuses leaves started_ set and task_ alone.
Start(t) ==
    LET k == <<t, starts[t] + 1>>
    IN  /\ ~started_[t] /\ clear = "no"
        /\ starts[t] < MaxStarts
        /\ starts' = [starts EXCEPT ![t] = @ + 1]
        /\ started_' = [started_ EXCEPT ![t] = TRUE]
        /\ \E o \in Options[t] :
             /\ option' = [option EXCEPT ![k] = o]
             /\ IF o.period > 0 /\ o.period < TIMER_MAX_INTERVAL_MS
                  THEN /\ task_' = [task_ EXCEPT ![t] = k[2]]
                       /\ AddTaskBegin(k, o.period)
                  ELSE UNCHANGED <<task_, adding, remainder_interval_ms, due, raced, wheelVars>>
        /\ UNCHANGED <<taskVars, callbackAt>>

\* The owner is inside AddTask() of its own task.
Starting(t) ==
    task_[t] # 0 /\ adding[<<t, task_[t]>>] # NotAdding /\ ~Locked(<<t, task_[t]>>)

OwnerAdds(t) ==
    /\ Starting(t)
    /\ AddTaskChoose(<<t, task_[t]>>) \/ AddTaskPut(<<t, task_[t]>>)
    /\ UNCHANGED <<taskVars, started_, task_, starts, option, callbackAt>>

\* Stop() waits for the mutex of the task and gives the task up.
Stop(t) ==
    /\ started_[t] /\ ~Starting(t)
    /\ task_[t] # 0 => ~Locked(<<t, task_[t]>>)
    /\ started_' = [started_ EXCEPT ![t] = FALSE]
    /\ task_' = [task_ EXCEPT ![t] = 0]
    /\ UNCHANGED <<taskVars, wheelVars, starts, option, adding, remainder_interval_ms,
                   callbackAt, due, raced>>

-----------------------------------------------------------------------------
(* The routines: the task that Tick() passed to Async().                   *)

At(w, label) == callbackAt' = [callbackAt EXCEPT ![w] = label]

TakeTask(w) ==
    /\ WorkerLoop(w) \/ HangUp(w) \/ Resume(w)
    /\ IF workerAt'[w] = "task" THEN At(w, "lambda") ELSE UNCHANGED callbackAt
    /\ UNCHANGED <<wheelVars, started_, task_, starts, option, adding,
                   remainder_interval_ms, due, raced, crashed>>

\* if (running_) (*callback)(): the pointer leads into the task, which may
\* have been freed.  Then the freed memory still looks as it did, lock()
\* fails and the callback returns, or the process crashes.
Lambda(w) ==
    /\ callbackAt[w] = "lambda"
    /\ \/ /\ ~running_ \/ ~Alive(job[w])
          /\ TaskDone(w) /\ At(w, "no")
          /\ UNCHANGED crashed
       \/ /\ running_ /\ ~Alive(job[w])
          /\ crashed' = TRUE
          /\ UNCHANGED <<taskVars, callbackAt>>
       \/ /\ running_ /\ Alive(job[w])
          /\ At(w, "locked")
          /\ UNCHANGED <<taskVars, crashed>>
    /\ UNCHANGED <<wheelVars, started_, task_, starts, option, adding,
                   remainder_interval_ms, due, raced>>

\* The mutex of the task is taken and the user's callback runs.
RunCallback(w) ==
    /\ callbackAt[w] = "locked" /\ ~Locked(job[w])
    /\ At(w, "callback")
    /\ UNCHANGED <<taskVars, wheelVars, started_, task_, starts, option, adding,
                   remainder_interval_ms, due, raced, crashed>>

\* The user's callback returns.  A periodic timer adds its task again; the
\* times that were measured make next_fire_duration_ms any value from
\* TIMER_RESOLUTION_MS on.
CallbackReturns(w) ==
    /\ callbackAt[w] = "callback"
    /\ \/ /\ option[job[w]].oneshot
          /\ TaskDone(w) /\ At(w, "no")
          /\ UNCHANGED <<wheelVars, adding, remainder_interval_ms, due, raced>>
       \/ /\ ~option[job[w]].oneshot
          /\ At(w, "add")
          /\ \E ms \in Durations : AddTaskBegin(job[w], ms)
          /\ UNCHANGED taskVars
    /\ UNCHANGED <<started_, task_, starts, option, crashed>>

WorkerAdds(w) ==
    /\ callbackAt[w] = "add"
    /\ \/ /\ AddTaskChoose(job[w]) \/ AddTaskPut(job[w])
          /\ UNCHANGED <<taskVars, callbackAt>>
       \/ /\ adding[job[w]] = NotAdding
          /\ TaskDone(w) /\ At(w, "no")
          /\ UNCHANGED <<wheelVars, adding, remainder_interval_ms, due, raced>>
    /\ UNCHANGED <<started_, task_, starts, option, crashed>>

WorkerStep(w) ==
    /\ ~crashed
    /\ \/ TakeTask(w) \/ Lambda(w) \/ RunCallback(w)
       \/ CallbackReturns(w) \/ WorkerAdds(w)
    /\ UNCHANGED clear

-----------------------------------------------------------------------------
(* cyber::Clear(): TaskManager::CleanUp(), then TimingWheel::CleanUp().    *)
(* Owners have returned from Start().                                      *)

ClearBegin ==
    /\ clear = "no"
    /\ \A t \in Timer : ~Starting(t)
    /\ StopTasks
    /\ clear' = "tasks"
    /\ UNCHANGED <<wheelVars, timerVars>>

ClearTasks_NoWait ==
    /\ clear = "tasks"
    /\ clear' = "wheel"
    /\ UNCHANGED <<taskVars, wheelVars, timerVars>>

ClearTasks ==
    /\ clear = "tasks"
    /\ \/ /\ \E w \in Worker : RemoveTask(w)
          /\ UNCHANGED clear
       \/ /\ \A w \in Worker : workerAt[w] = "removed"
          /\ clear' = "wheel"
          /\ UNCHANGED taskVars
    /\ UNCHANGED <<wheelVars, timerVars>>

\* TimingWheel::Shutdown(): the tick thread is joined.
ClearWheel ==
    /\ \/ /\ clear = "wheel"
          /\ running_' = FALSE
          /\ clear' = IF running_ THEN "join" ELSE "done"
       \/ /\ clear = "join" /\ tickAt = "off"
          /\ clear' = "done"
          /\ UNCHANGED running_
    /\ UNCHANGED <<taskVars, work_wheel_, assistant_wheel_, current_work_wheel_index_,
                   current_assistant_wheel_index_, tickAt, tickTask, timerVars>>

ClearStep == ~crashed /\ (ClearTasks \/ ClearWheel) /\ UNCHANGED crashed

-----------------------------------------------------------------------------
OwnerStep(t) == ~crashed /\ OwnerAdds(t) /\ UNCHANGED <<clear, crashed>>

\* Nothing is left to do: the system was cleared, or it crashed.
Ended ==
    /\ crashed \/ clear = "done"
    /\ UNCHANGED vars

Next ==
    \/ TickStep
    \/ \E w \in Worker : WorkerStep(w)
    \/ \E t \in Timer :
         \/ OwnerStep(t)
         \/ ~crashed /\ (Start(t) \/ Stop(t)) /\ UNCHANGED <<clear, crashed>>
    \/ ~crashed /\ ClearBegin /\ UNCHANGED crashed
    \/ ClearStep
    \/ Ended

\* The tick thread, the routines, a Start() and a Clear() under way go on.
\* Nobody has to start or stop a timer, or to call Clear().
Spec ==
    /\ Init /\ [][Next]_vars
    /\ WF_vars(TickStep) /\ WF_vars(ClearStep)
    /\ \A w \in Worker : WF_vars(WorkerStep(w))
    /\ \A t \in Timer : WF_vars(OwnerStep(t))

-----------------------------------------------------------------------------
(* Properties.                                                             *)

HandsOver(k) == tickTask # k /\ tickTask' = k

\* The wheels fire a task exactly when its duration has passed, in ticks,
\* whatever turns of the wheel and cascades lie in between.  The exception is
\* a task whose AddTask() met the tick thread between two of its steps: it
\* fires a whole turn of the work wheel too early or too late, or, with a
\* period of nearly TIMER_MAX_INTERVAL_MS, at once.
FiresOnTime ==
    [][\A k \in Task : HandsOver(k) =>
          \/ due[k] = 0
          \/ raced[k] /\ due[k] \in {-WORK_WHEEL_SIZE, WORK_WHEEL_SIZE,
                                  ASSISTANT_WHEEL_SIZE * WORK_WHEEL_SIZE}]_vars

\* A timer task is in one place only: being added, in one bucket, in the
\* queue or with a routine.  Its callback is not run twice for one firing.
Positions(s, k) == {i \in 1..Len(s) : s[i] = k}

WheelPlaces(name, wheel, k) ==
    UNION {{<<name, b, i>> : i \in Positions(wheel[b], k)} : b \in DOMAIN wheel}

Places(k) ==
    {<<"queue", i>> : i \in Positions(task_queue_, k)}
    \cup WheelPlaces("work", work_wheel_, k)
    \cup WheelPlaces("assistant", assistant_wheel_, k)
    \cup {<<"routine", w>> : w \in {v \in Worker : job[v] = k /\ callbackAt[v] # "add"}}
    \cup (IF adding[k] # NotAdding THEN {<<"adding">>} ELSE {})

OnePlace == \A k \in Task : \A p, q \in Places(k) : p = q

\* A task in the wheels is fired, unless its timer is stopped or the process
\* ends: the tick thread does not forget it in a bucket.
ArmedIsFired ==
    \A k \in Task : InWheel(k) ~> (tickTask = k \/ ~HeldByTimer(k) \/ clear # "no" \/ crashed)

\* A notification that reaches a waiting routine empties the queue, not only of
\* the task it was sent for: a task left behind, because its own notification
\* came before the routine had hung up and was lost, is run with the next one.
\* A lost notification alone leaves its task in the queue; of that the property
\* says nothing.
NotifiedDrains ==
    (updated # {}) ~> (task_queue_ = <<>> \/ stop_ \/ crashed)

\* Clear() returns, whatever callbacks are running.
ClearReturns == (clear = "tasks") ~> (clear = "done" \/ crashed)

\* ... and then it is quiet: a callback that ran meanwhile and added its task
\* again has not restarted the wheel that Clear() stopped.
ClearedIsQuiet == clear = "done" => ~running_ /\ tickAt = "off"
=============================================================================
