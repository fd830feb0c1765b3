-------------------------- MODULE TimingWheelProofs --------------------------
(***************************************************************************)
(* Proofs about TimingWheel: that a task of a timer is in one place only,  *)
(* that a cleared wheel stays quiet, and that a task fires in its tick.    *)
(*                                                                         *)
(* The invariants are proved in layers, each from those before it:         *)
(*   TypeInv    types, and what the places of the threads imply;           *)
(*   QuietInv   how far Clear() is, and what has ended by then;            *)
(*   PlaceInv   a task is in one of five kinds of place, and once;         *)
(*   DueInv     the ticks that are left, for every place of a task.        *)
(***************************************************************************)
EXTENDS TimingWheel, TLAPS

-----------------------------------------------------------------------------
(* Types.                                                                  *)

WorkIndex == 0 .. WORK_WHEEL_SIZE - 1
AssistantRange == 0 .. ASSISTANT_WHEEL_SIZE - 1

AddLabel == {"no", "index", "work", "assistant"}
Adding == [at : AddLabel, index : Nat, overtaken : Nat]

TickLabel == {"off", "loop", "tick", "notify", "sleep", "wrap", "cascade", "distribute"}
CallbackLabel == {"no", "lambda", "locked", "callback", "add"}
WorkerLabel == {"ready", "hangup", "waiting", "task", "finished", "removed"}
ClearLabel == {"no", "tasks", "wheel", "join", "done"}

\* The wheels and the tick thread, which has an entry when it is about to
\* take one.
WheelTypes ==
    /\ running_ \in BOOLEAN
    /\ work_wheel_ \in [WorkIndex -> Seq(Task)]
    /\ assistant_wheel_ \in [AssistantRange -> Seq(Task)]
    /\ current_work_wheel_index_ \in WorkIndex
    /\ current_assistant_wheel_index_ \in AssistantRange
    /\ tickAt \in TickLabel
    /\ tickAt = "tick" => WorkBucket # <<>>

\* The calls of AddTask(): a task to be put into the work wheel has a bucket.
AddTypes ==
    /\ adding \in [Task -> Adding]
    /\ remainder_interval_ms \in [Task -> WorkIndex]
    /\ \A k \in Task : adding[k].at = "work" => adding[k].index \in WorkIndex

\* The timers, and how far Clear() is.
OwnerTypes ==
    /\ starts \in [Timer -> 0 .. MaxStarts]
    /\ task_ \in [Timer -> 0 .. MaxStarts]
    /\ clear \in ClearLabel

\* The routines: one inside a callback has a task.
RoutineTypes ==
    /\ task_queue_ \in Seq(Task)
    /\ job \in [Worker -> Task \cup {NoJob}]
    /\ workerAt \in [Worker -> WorkerLabel]
    /\ callbackAt \in [Worker -> CallbackLabel]
    /\ \A w \in Worker : callbackAt[w] # "no" => workerAt[w] = "task" /\ job[w] \in Task

TypeInv == WheelTypes /\ AddTypes /\ OwnerTypes /\ RoutineTypes

\* The sizes of the wheels are positive, as the code's constants are.
LEMMA Sizes ==
    /\ WORK_WHEEL_SIZE \in Nat \ {0}
    /\ ASSISTANT_WHEEL_SIZE \in Nat \ {0}
    /\ TIMER_RESOLUTION_MS \in Nat \ {0}
    /\ MaxStarts \in Nat
    /\ NoJob \notin Task
  BY TimingWheelAssumption, TaskManagerAssumption

\* The two index computations stay inside the wheels.
LEMMA IndexRange ==
    ASSUME NEW i \in Nat
    PROVE  GetWorkWheelIndex(i) \in WorkIndex /\ GetAssistantWheelIndex(i) \in AssistantRange
  BY Sizes DEF GetWorkWheelIndex, GetAssistantWheelIndex, WorkIndex, AssistantRange

\* The number of ticks of a duration is a natural number.
LEMMA TicksType ==
    ASSUME NEW ms \in Nat
    PROVE  Ticks(ms) \in Nat
  <1> DEFINE a == ms + TIMER_RESOLUTION_MS - 1
  <1>1. a \in Nat /\ TIMER_RESOLUTION_MS \in Nat \ {0}  BY Sizes
  <1> HIDE DEF a
  <1>2. a \div TIMER_RESOLUTION_MS \in Nat  BY <1>1
  <1> QED BY <1>2 DEF a, Ticks

\* The durations a callback may ask for are natural numbers.
LEMMA DurationType == \A ms \in Durations : ms \in Nat /\ ms > 0 /\ ms < TIMER_MAX_INTERVAL_MS
  <1>1. WORK_WHEEL_SIZE * ASSISTANT_WHEEL_SIZE * TIMER_RESOLUTION_MS \in Nat  BY Sizes
  <1> QED BY Sizes, <1>1, TimingWheelAssumption DEF TIMER_MAX_INTERVAL_MS

\* A task has a timer and a number.
LEMMA TaskPair ==
    /\ \A k \in Task : /\ k[1] \in Timer
                       /\ k[2] \in 1 .. MaxStarts
                       /\ k = <<k[1], k[2]>>
    /\ \A t \in Timer, n \in 1 .. MaxStarts : <<t, n>> \in Task
  <1>1. ASSUME NEW k \in Timer \X (1 .. MaxStarts)
        PROVE  k[1] \in Timer /\ k[2] \in 1 .. MaxStarts /\ k = <<k[1], k[2]>>
    <2>1. k[1] \in Timer  OBVIOUS
    <2>2. k[2] \in 1 .. MaxStarts  OBVIOUS
    <2>3. k = <<k[1], k[2]>>  OBVIOUS
    <2> QED BY <2>1, <2>2, <2>3
  <1>2. ASSUME NEW t \in Timer, NEW n \in 1 .. MaxStarts
        PROVE  <<t, n>> \in Timer \X (1 .. MaxStarts)
    OBVIOUS
  <1> QED BY <1>1, <1>2 DEF Task

\* The initial state has its types.
LEMMA TypeInit == Init => TypeInv
  <1> SUFFICES ASSUME Init PROVE TypeInv  OBVIOUS
  <1>1. NotAdding \in Adding /\ NotAdding.at = "no"  BY DEF NotAdding, Adding, AddLabel
  <1>2. WheelTypes
    <2>1. work_wheel_ \in [WorkIndex -> Seq(Task)]  BY DEF Init, WorkIndex
    <2>2. assistant_wheel_ \in [AssistantRange -> Seq(Task)]  BY DEF Init, AssistantRange
    <2>3. 0 \in WorkIndex /\ 0 \in AssistantRange  BY Sizes DEF WorkIndex, AssistantRange
    <2>4. /\ running_ = FALSE /\ tickAt = "off"
          /\ current_work_wheel_index_ = 0 /\ current_assistant_wheel_index_ = 0
      BY DEF Init
    <2> QED BY <2>1, <2>2, <2>3, <2>4 DEF WheelTypes, TickLabel
  <1>3. AddTypes  BY <1>1, Sizes DEF Init, AddTypes, WorkIndex
  <1>4. OwnerTypes  BY Sizes DEF Init, OwnerTypes, ClearLabel
  <1>5. RoutineTypes
    BY DEF Init, TaskInit, RoutineTypes, WorkerLabel, CallbackLabel
  <1> QED BY <1>2, <1>3, <1>4, <1>5 DEF TypeInv

-----------------------------------------------------------------------------
(* The three steps of AddTask().                                           *)

\* The first one starts the tick thread and computes an index.
LEMMA BeginTypes ==
    ASSUME TypeInv, NEW k \in Task, NEW ms \in Nat, AddTaskBegin(k, ms)
    PROVE  WheelTypes' /\ AddTypes'
  <1> USE DEF TypeInv
  <1> DEFINE e == [at |-> "index", overtaken |-> 0,
                   index |-> current_work_wheel_index_ + Ticks(ms)]
  <1>1. current_work_wheel_index_ \in Nat  BY Sizes DEF WheelTypes, WorkIndex
  <1>2. e \in Adding /\ e.at = "index"  BY <1>1, TicksType DEF Adding, AddLabel
  <1>3. adding' = [adding EXCEPT ![k] = e]  BY DEF AddTaskBegin
  <1> HIDE DEF e
  <1>4. AddTypes'
    BY <1>2, <1>3 DEF AddTypes, AddTaskBegin
  <1>5. WheelTypes'  BY DEF WheelTypes, AddTaskBegin, WorkBucket, TickLabel
  <1> QED BY <1>4, <1>5

\* The second one chooses the wheel.
LEMMA ChooseTypes ==
    ASSUME TypeInv, NEW k \in Task, AddTaskChoose(k)
    PROVE  WheelTypes' /\ AddTypes'
  <1> USE DEF TypeInv
  <1> DEFINE i == adding[k].index
             real == GetWorkWheelIndex(i)
             ticks == i \div WORK_WHEEL_SIZE
  <1>1. i \in Nat /\ adding[k] \in Adding  BY DEF AddTypes, Adding
  <1>2. real \in WorkIndex /\ real \in Nat  BY <1>1, IndexRange DEF WorkIndex
  <1>3. ticks \in Nat  BY <1>1, Sizes
  <1>4. WheelTypes'
    <2>1. UNCHANGED wheelVars  BY DEF AddTaskChoose
    <2> QED BY <2>1 DEF wheelVars, WheelTypes, WorkBucket
  <1>5. CASE /\ i < WORK_WHEEL_SIZE
             /\ adding' = [adding EXCEPT ![k].at = "work"]
             /\ UNCHANGED remainder_interval_ms
    <2>1. i \in WorkIndex  BY <1>1, <1>5, Sizes DEF WorkIndex
    <2>2. AddTypes'  BY <1>1, <1>5, <2>1 DEF AddTypes, Adding, AddLabel
    <2> QED BY <1>4, <2>2
  <1>6. CASE /\ remainder_interval_ms' = [remainder_interval_ms EXCEPT ![k] = real]
             /\ adding' = [adding EXCEPT ![k].at = "work", ![k].index = real]
    <2>1. AddTypes'  BY <1>1, <1>2, <1>6 DEF AddTypes, Adding, AddLabel
    <2> QED BY <1>4, <2>1
  <1>7. CASE /\ remainder_interval_ms' = [remainder_interval_ms EXCEPT ![k] = real]
             /\ adding' = [adding EXCEPT ![k].at = "assistant", ![k].index = ticks]
    <2>1. AddTypes'  BY <1>1, <1>2, <1>3, <1>7 DEF AddTypes, Adding, AddLabel
    <2> QED BY <1>4, <2>1
  <1> QED BY <1>5, <1>6, <1>7 DEF AddTaskChoose

\* The bucket of the assistant wheel is one of its buckets.
LEMMA AssistantIndexType ==
    ASSUME TypeInv, NEW k \in Task
    PROVE  AssistantIndex(k) \in AssistantRange
  <1>1. adding[k].index \in Nat  BY DEF TypeInv, AddTypes, Adding
  <1>2. current_assistant_wheel_index_ \in Nat
    BY Sizes DEF TypeInv, WheelTypes, AssistantRange
  <1> QED BY <1>1, <1>2, IndexRange DEF AssistantIndex

\* The third one puts the task into a bucket.
LEMMA PutTypes ==
    ASSUME TypeInv, NEW k \in Task, AddTaskPut(k)
    PROVE  WheelTypes' /\ AddTypes'
  <1> USE DEF TypeInv
  <1>1. NotAdding \in Adding /\ NotAdding.at = "no"  BY DEF NotAdding, Adding, AddLabel
  <1>2. AddTypes'  BY <1>1 DEF AddTypes, AddTaskPut
  <1>3. UNCHANGED <<running_, current_work_wheel_index_, current_assistant_wheel_index_, tickAt>>
    BY DEF AddTaskPut
  <1>4. CASE /\ adding[k].at = "work"
             /\ work_wheel_' = [work_wheel_ EXCEPT ![adding[k].index] = Append(@, k)]
             /\ UNCHANGED assistant_wheel_
    <2>1. adding[k].index \in WorkIndex  BY <1>4 DEF AddTypes
    <2>2. work_wheel_' \in [WorkIndex -> Seq(Task)]  BY <1>4, <2>1 DEF WheelTypes
    <2>3. \A s \in Seq(Task) : Append(s, k) # <<>>  OBVIOUS
    <2>4. WorkBucket # <<>> => WorkBucket' # <<>>
      BY <1>3, <1>4, <2>1, <2>3 DEF WheelTypes, WorkBucket
    <2>5. WheelTypes'  BY <1>3, <1>4, <2>2, <2>4 DEF WheelTypes
    <2> QED BY <1>2, <2>5
  <1>5. CASE /\ assistant_wheel_' = [assistant_wheel_ EXCEPT ![AssistantIndex(k)] = Append(@, k)]
             /\ UNCHANGED work_wheel_
    <2>1. assistant_wheel_' \in [AssistantRange -> Seq(Task)]
      BY <1>5, AssistantIndexType DEF WheelTypes
    <2>2. WheelTypes'  BY <1>3, <1>5, <2>1 DEF WheelTypes, WorkBucket
    <2> QED BY <1>2, <2>2
  <1> QED BY <1>4, <1>5 DEF AddTaskPut

-----------------------------------------------------------------------------
(* Types are kept.                                                         *)

\* What a step that leaves the routines, or the timers, alone keeps.
LEMMA RoutinesKept ==
    ASSUME RoutineTypes, UNCHANGED <<taskVars, callbackAt>>
    PROVE  RoutineTypes'
  BY DEF RoutineTypes, taskVars

\* A step away from the timers' owners keeps their types.
LEMMA OwnersKept ==
    ASSUME OwnerTypes, UNCHANGED <<starts, task_, clear>>
    PROVE  OwnerTypes'
  BY DEF OwnerTypes

\* A step away from AddTask() keeps the types of its locals.
LEMMA AddKept ==
    ASSUME AddTypes, UNCHANGED <<adding, remainder_interval_ms>>
    PROVE  AddTypes'
  BY DEF AddTypes

\* A step away from the wheels keeps their types.
LEMMA WheelsKept ==
    ASSUME WheelTypes, UNCHANGED wheelVars
    PROVE  WheelTypes'
  BY DEF WheelTypes, wheelVars, WorkBucket

\* The head and the tail of a bucket or of the queue.
LEMMA HeadTail ==
    ASSUME NEW S, NEW s \in Seq(S), s # <<>>
    PROVE  /\ Head(s) \in S /\ Tail(s) \in Seq(S)
           /\ Len(s) \in Nat \ {0} /\ Head(s) = s[1]
           /\ Len(Tail(s)) = Len(s) - 1
           /\ \A i \in 1 .. Len(Tail(s)) : Tail(s)[i] = s[i + 1]
  OBVIOUS

\* A wheel whose bucket gets one more entry is a wheel.
LEMMA BucketGrows ==
    ASSUME NEW D, NEW S, NEW f \in [D -> Seq(S)], NEW i \in D, NEW x \in S
    PROVE  [f EXCEPT ![i] = Append(@, x)] \in [D -> Seq(S)]
  OBVIOUS

\* The tick thread keeps the types.
LEMMA TickTypes == TypeInv /\ TickStep => TypeInv'
  <1> SUFFICES ASSUME TypeInv, TickStep PROVE TypeInv'  OBVIOUS
  <1> USE DEF TypeInv
  <1>0. UNCHANGED <<clear, crashed>>  BY DEF TickStep
  <1>1. CASE TickLoop
    <2>1. WheelTypes'  BY <1>1 DEF TickLoop, WheelTypes, WorkBucket, TickLabel
    <2>2. UNCHANGED <<taskVars, timerVars>>  BY <1>1 DEF TickLoop
    <2> QED BY <1>0, <2>1, <2>2, RoutinesKept, OwnersKept, AddKept DEF timerVars
  <1>2. CASE TickEntry
    <2> DEFINE b == current_work_wheel_index_
               k == Head(WorkBucket)
    <2>1. b \in WorkIndex /\ WorkBucket = work_wheel_[b] /\ WorkBucket \in Seq(Task)
      BY DEF WheelTypes, WorkBucket
    <2>2. WorkBucket # <<>> /\ tickAt = "tick"  BY <1>2 DEF TickEntry, WheelTypes
    <2>3. k \in Task /\ Tail(WorkBucket) \in Seq(Task)  BY <2>1, <2>2, HeadTail
    <2>4. /\ work_wheel_' = [work_wheel_ EXCEPT ![b] = Tail(WorkBucket)]
          /\ UNCHANGED <<running_, assistant_wheel_, b, current_assistant_wheel_index_>>
      BY <1>2, <2>1 DEF TickEntry
    <2>5. WorkBucket' = Tail(WorkBucket)  BY <2>1, <2>4 DEF WorkBucket, WheelTypes
    <2>6. \/ tickAt' = "notify"
          \/ tickAt' = IF Tail(WorkBucket) = <<>> THEN "sleep" ELSE "tick"
      BY <1>2 DEF TickEntry, TickOn
    <2>7. WheelTypes'
      <3>1. work_wheel_' \in [WorkIndex -> Seq(Task)]  BY <2>1, <2>3, <2>4 DEF WheelTypes
      <3>2. tickAt' \in TickLabel /\ (tickAt' = "tick" => WorkBucket' # <<>>)
        BY <2>5, <2>6 DEF TickLabel
      <3> QED BY <2>4, <3>1, <3>2 DEF WheelTypes
    <2>8. task_queue_' \in Seq(Task) /\ UNCHANGED <<job, workerAt, callbackAt>>
      <3>1. \/ UNCHANGED taskVars
            \/ Enqueue(Tick, k)
        BY <1>2 DEF TickEntry
      <3>2. UNCHANGED callbackAt  BY <1>2 DEF TickEntry
      <3>3. task_queue_ \in Seq(Task)  BY DEF RoutineTypes
      <3> HIDE DEF k
      <3>4. Append(task_queue_, k) \in Seq(Task)  BY <2>3, <3>3
      <3> QED BY <3>1, <3>2, <3>3, <3>4 DEF Enqueue, taskVars
    <2>9. RoutineTypes'  BY <2>8 DEF RoutineTypes
    <2>10. UNCHANGED <<adding, remainder_interval_ms, starts, task_>>  BY <1>2 DEF TickEntry
    <2> QED BY <1>0, <2>7, <2>9, <2>10, OwnersKept, AddKept
  <1>3. CASE TickNotify
    <2>1. UNCHANGED <<running_, work_wheel_, assistant_wheel_, current_work_wheel_index_,
                      current_assistant_wheel_index_, timerVars>>
      BY <1>3 DEF TickNotify
    <2>2. \/ UNCHANGED tickAt
          \/ tickAt' = IF WorkBucket = <<>> THEN "sleep" ELSE "tick"
      BY <1>3 DEF TickNotify, TickOn
    <2>3. WorkBucket' = WorkBucket  BY <2>1 DEF WorkBucket
    <2>4. WheelTypes'  BY <2>1, <2>2, <2>3 DEF WheelTypes, TickLabel
    <2>5. UNCHANGED <<task_queue_, job, workerAt, callbackAt>>
      BY <1>3, <2>1 DEF TickNotify, NotifyTask, taskVars, timerVars
    <2>6. RoutineTypes'  BY <2>5 DEF RoutineTypes
    <2> QED BY <1>0, <2>1, <2>4, <2>6, OwnersKept, AddKept DEF timerVars
  <1>4. CASE TickAdvance
    <2> DEFINE b == current_work_wheel_index_
    <2>1. b \in Nat /\ b + 1 \in Nat  BY Sizes DEF WheelTypes, WorkIndex
    <2>2. b' \in WorkIndex  BY <1>4, <2>1, IndexRange DEF TickAdvance
    <2>3. UNCHANGED <<running_, work_wheel_, assistant_wheel_, current_assistant_wheel_index_>>
          /\ tickAt' \in {"wrap", "loop"}
      BY <1>4 DEF TickAdvance
    <2>4. WheelTypes'  BY <2>2, <2>3 DEF WheelTypes, TickLabel
    <2>5. adding' = [k \in Task |-> IF adding[k] = NotAdding THEN NotAdding
                                    ELSE [adding[k] EXCEPT !.overtaken = @ + 1]]
          /\ UNCHANGED remainder_interval_ms
      BY <1>4 DEF TickAdvance
    <2>6. ASSUME NEW k \in Task
          PROVE  /\ adding'[k] \in Adding
                 /\ adding'[k].at = adding[k].at /\ adding'[k].index = adding[k].index
      BY <2>5 DEF AddTypes, Adding
    <2>7. adding' \in [Task -> Adding]  BY <2>5, <2>6
    <2>8. AddTypes'  BY <2>5, <2>6, <2>7 DEF AddTypes
    <2>9. UNCHANGED <<taskVars, callbackAt, starts, task_>>  BY <1>4 DEF TickAdvance
    <2> QED BY <1>0, <2>4, <2>8, <2>9, RoutinesKept, OwnersKept
  <1>5. CASE TickWrap
    <2>1. current_assistant_wheel_index_ \in Nat  BY Sizes DEF WheelTypes, AssistantRange
    <2>2. current_assistant_wheel_index_' \in AssistantRange
      BY <1>5, <2>1, IndexRange DEF TickWrap
    <2>3. WheelTypes'  BY <1>5, <2>2 DEF TickWrap, WheelTypes, TickLabel, WorkBucket
    <2>4. UNCHANGED <<taskVars, callbackAt, starts, task_, adding, remainder_interval_ms>>
      BY <1>5 DEF TickWrap
    <2> QED BY <1>0, <2>3, <2>4, RoutinesKept, OwnersKept, AddKept
  <1>6. CASE Cascade
    <2> DEFINE b == current_assistant_wheel_index_
               k == Head(AssistantBucket)
    <2>1. UNCHANGED <<taskVars, timerVars, running_, current_work_wheel_index_, b>>
          /\ tickAt' \in {"loop", "distribute"}
      BY <1>6 DEF Cascade, Distribute
    <2>2. CASE UNCHANGED <<work_wheel_, assistant_wheel_>>
      <3>1. WheelTypes'  BY <2>1, <2>2 DEF WheelTypes, TickLabel
      <3> QED BY <1>0, <2>1, <3>1, RoutinesKept, OwnersKept, AddKept DEF timerVars
    <2>3. CASE /\ AssistantBucket # <<>>
               /\ assistant_wheel_' = [assistant_wheel_ EXCEPT ![b] = Tail(@)]
               /\ \/ UNCHANGED work_wheel_
                  \/ work_wheel_' =
                       [work_wheel_ EXCEPT ![remainder_interval_ms[k]] = Append(@, k)]
      <3>1. b \in AssistantRange /\ AssistantBucket = assistant_wheel_[b]
            /\ AssistantBucket \in Seq(Task)
        BY DEF WheelTypes, AssistantBucket
      <3>2. k \in Task /\ Tail(AssistantBucket) \in Seq(Task)  BY <2>3, <3>1, HeadTail
      <3>3. assistant_wheel_' \in [AssistantRange -> Seq(Task)]
        BY <2>3, <3>1, <3>2 DEF WheelTypes
      <3>4. remainder_interval_ms[k] \in WorkIndex  BY <3>2 DEF AddTypes
      <3> HIDE DEF k
      <3>5. work_wheel_' \in [WorkIndex -> Seq(Task)]
        <4>1. k \in Task /\ work_wheel_ \in [WorkIndex -> Seq(Task)]  BY <3>2 DEF WheelTypes
        <4>2. [work_wheel_ EXCEPT ![remainder_interval_ms[k]] = Append(@, k)]
                 \in [WorkIndex -> Seq(Task)]
          BY <3>4, <4>1, BucketGrows
        <4> QED BY <2>3, <4>1, <4>2
      <3>6. WheelTypes'  BY <2>1, <3>3, <3>5 DEF WheelTypes, TickLabel
      <3> QED BY <1>0, <2>1, <3>6, RoutinesKept, OwnersKept, AddKept DEF timerVars
    <2> QED BY <1>6, <2>2, <2>3 DEF Cascade
  <1> QED BY <1>1, <1>2, <1>3, <1>4, <1>5, <1>6 DEF TickStep

\* The owner of a timer keeps the types.
LEMMA StartTypes ==
    ASSUME TypeInv, NEW t \in Timer, Start(t), UNCHANGED clear
    PROVE  TypeInv'
  <1> USE DEF TypeInv
  <1> DEFINE n == starts[t] + 1
  <1>1. n \in 1 .. MaxStarts  BY Sizes DEF Start, OwnerTypes
  <1>2. <<t, n>> \in Task  BY <1>1, TaskPair
  <1>3. RoutineTypes'
    <2>1. UNCHANGED <<taskVars, callbackAt>>  BY DEF Start
    <2> QED BY <2>1, RoutinesKept
  <1>4. starts' = [starts EXCEPT ![t] = n]  BY DEF Start, OwnerTypes
  <1>5. PICK o \in Options[t] :
            \/ /\ task_' = [task_ EXCEPT ![t] = <<t, n>>[2]]
               /\ AddTaskBegin(<<t, n>>, o.period)
            \/ UNCHANGED <<task_, adding, remainder_interval_ms, due, raced, wheelVars>>
    BY DEF Start
  <1>6. OwnerTypes'
    <2>1. \/ task_' = [task_ EXCEPT ![t] = n]
          \/ task_' = task_
      BY <1>5
    <2> HIDE DEF n
    <2> QED BY <1>1, <1>4, <2>1, Sizes DEF OwnerTypes
  <1>7. o.period \in Nat  BY TimingWheelAssumption
  <1>8. WheelTypes' /\ AddTypes'
    BY <1>2, <1>5, <1>7, BeginTypes, WheelsKept, AddKept
  <1> QED BY <1>3, <1>6, <1>8

\* AddTask() called by Timer::Start() keeps the types; the owner's task is one.
LEMMA OwnerStepTypes ==
    ASSUME TypeInv, NEW t \in Timer, OwnerAdds(t), UNCHANGED clear
    PROVE  TypeInv' /\ <<t, task_[t]>> \in Task
  <1> USE DEF TypeInv
  <1>1. <<t, task_[t]>> \in Task
    <2>1. task_[t] \in 1 .. MaxStarts  BY Sizes DEF OwnerAdds, Starting, OwnerTypes
    <2> QED BY <2>1, TaskPair
  <1>2. WheelTypes' /\ AddTypes'
    BY <1>1, ChooseTypes, PutTypes DEF OwnerAdds
  <1>3. UNCHANGED <<taskVars, task_, starts, callbackAt>>  BY DEF OwnerAdds
  <1> QED BY <1>1, <1>2, <1>3, RoutinesKept, OwnersKept

\* Timer::Stop() keeps the types.
LEMMA StopTypes ==
    ASSUME TypeInv, NEW t \in Timer, Stop(t), UNCHANGED clear
    PROVE  TypeInv'
  <1> USE DEF TypeInv
  <1>1. UNCHANGED <<taskVars, wheelVars, starts, adding, remainder_interval_ms, callbackAt>>
    BY DEF Stop
  <1>2. task_' = [task_ EXCEPT ![t] = 0]  BY DEF Stop
  <1>3. OwnerTypes'  BY <1>1, <1>2, Sizes DEF OwnerTypes
  <1> QED BY <1>1, <1>3, RoutinesKept, WheelsKept, AddKept

\* What a routine does with its own places keeps the types.
LEMMA DoneTypes ==
    ASSUME RoutineTypes, NEW w \in Worker, TaskDone(w), At(w, "no")
    PROVE  RoutineTypes'
  BY DEF RoutineTypes, TaskDone, Goto, At, WorkerLabel, CallbackLabel

\* A callback that moves to its next statement keeps the types.
LEMMA AtTypes ==
    ASSUME RoutineTypes, NEW w \in Worker, NEW l \in CallbackLabel, At(w, l),
           callbackAt[w] # "no", UNCHANGED taskVars
    PROVE  RoutineTypes'
  BY DEF RoutineTypes, At, taskVars

\* The task manager's loop keeps the types of the routines.
LEMMA TakeTypes ==
    ASSUME RoutineTypes, NEW w \in Worker, TakeTask(w)
    PROVE  RoutineTypes'
  <1> USE DEF RoutineTypes
  <1>0. workerAt[w] # "task"  BY DEF TakeTask, WorkerLoop, HangUp, Resume
  <1>1. CASE /\ UNCHANGED <<task_queue_, job>>
             /\ \E l \in WorkerLabel \ {"task"} : workerAt' = [workerAt EXCEPT ![w] = l]
    <2>1. PICK l \in WorkerLabel \ {"task"} : workerAt' = [workerAt EXCEPT ![w] = l]
      BY <1>1
    <2>2. UNCHANGED callbackAt  BY <2>1 DEF TakeTask
    <2> QED BY <1>0, <1>1, <2>1, <2>2
  <1>2. CASE /\ task_queue_ # <<>>
             /\ task_queue_' = Tail(task_queue_)
             /\ job' = [job EXCEPT ![w] = Head(task_queue_)]
             /\ Goto(w, "task")
    <2>1. Head(task_queue_) \in Task /\ Tail(task_queue_) \in Seq(Task)  BY <1>2, HeadTail
    <2>2. workerAt' = [workerAt EXCEPT ![w] = "task"]  BY <1>2 DEF Goto
    <2>3. callbackAt' = [callbackAt EXCEPT ![w] = "lambda"]  BY <2>2 DEF TakeTask, At
    <2> DEFINE h == Head(task_queue_)
    <2>4. h \in Task /\ job' = [job EXCEPT ![w] = h] /\ task_queue_' \in Seq(Task)
      BY <1>2, <2>1
    <2> HIDE DEF h
    <2> QED BY <2>2, <2>3, <2>4 DEF WorkerLabel, CallbackLabel
  <1>3. CASE WorkerLoop(w)
    <2>1. \/ Goto(w, "finished") /\ UNCHANGED <<task_queue_, job>>
          \/ Goto(w, "hangup") /\ UNCHANGED <<task_queue_, job>>
          \/ /\ task_queue_ # <<>>
             /\ task_queue_' = Tail(task_queue_)
             /\ job' = [job EXCEPT ![w] = Head(task_queue_)]
             /\ Goto(w, "task")
      BY <1>3 DEF WorkerLoop
    <2> QED BY <1>1, <1>2, <2>1 DEF Goto, WorkerLabel
  <1>4. CASE HangUp(w)
    BY <1>1, <1>4 DEF HangUp, Goto, WorkerLabel
  <1>5. CASE Resume(w)
    BY <1>1, <1>5 DEF Resume, Goto, WorkerLabel
  <1> QED BY <1>3, <1>4, <1>5 DEF TakeTask

\* The routines keep the types.
LEMMA WorkerTypes ==
    ASSUME TypeInv, NEW w \in Worker, WorkerStep(w)
    PROVE  TypeInv'
  <1> USE DEF TypeInv
  <1>0. UNCHANGED clear  BY DEF WorkerStep
  <1>1. CASE TakeTask(w)
    <2>1. UNCHANGED <<wheelVars, task_, starts, adding, remainder_interval_ms>>
      BY <1>1 DEF TakeTask
    <2> QED BY <1>0, <1>1, <2>1, TakeTypes, WheelsKept, AddKept, OwnersKept
  <1>2. CASE Lambda(w)
    <2>1. UNCHANGED <<wheelVars, task_, starts, adding, remainder_interval_ms>>
      BY <1>2 DEF Lambda
    <2>2. callbackAt[w] # "no"  BY <1>2 DEF Lambda
    <2>3. \/ TaskDone(w) /\ At(w, "no")
          \/ UNCHANGED <<taskVars, callbackAt>>
          \/ At(w, "locked") /\ UNCHANGED taskVars
      BY <1>2 DEF Lambda
    <2>4. RoutineTypes'
      BY <2>2, <2>3, DoneTypes, AtTypes, RoutinesKept DEF CallbackLabel
    <2> QED BY <1>0, <2>1, <2>4, WheelsKept, AddKept, OwnersKept
  <1>3. CASE RunCallback(w)
    <2>1. UNCHANGED <<taskVars, wheelVars, task_, starts, adding, remainder_interval_ms>>
      BY <1>3 DEF RunCallback
    <2>2. RoutineTypes'  BY <1>3, <2>1, AtTypes DEF RunCallback, CallbackLabel
    <2> QED BY <1>0, <2>1, <2>2, WheelsKept, AddKept, OwnersKept
  <1>4. CASE CallbackReturns(w)
    <2>1. UNCHANGED <<task_, starts>>  BY <1>4 DEF CallbackReturns
    <2>2. callbackAt[w] # "no" /\ job[w] \in Task  BY <1>4 DEF CallbackReturns, RoutineTypes
    <2>3. \/ /\ TaskDone(w) /\ At(w, "no")
             /\ UNCHANGED <<wheelVars, adding, remainder_interval_ms>>
          \/ /\ At(w, "add") /\ UNCHANGED taskVars
             /\ \E ms \in Durations : AddTaskBegin(job[w], ms)
      BY <1>4 DEF CallbackReturns
    <2>4. RoutineTypes'  BY <2>2, <2>3, DoneTypes, AtTypes DEF CallbackLabel
    <2>5. WheelTypes' /\ AddTypes'
      BY <2>2, <2>3, BeginTypes, DurationType, WheelsKept, AddKept
    <2> QED BY <1>0, <2>1, <2>4, <2>5, OwnersKept
  <1>5. CASE WorkerAdds(w)
    <2>1. UNCHANGED <<task_, starts>>  BY <1>5 DEF WorkerAdds
    <2>2. callbackAt[w] # "no" /\ job[w] \in Task  BY <1>5 DEF WorkerAdds, RoutineTypes
    <2>3. \/ /\ TaskDone(w) /\ At(w, "no")
             /\ UNCHANGED <<wheelVars, adding, remainder_interval_ms>>
          \/ /\ AddTaskChoose(job[w]) \/ AddTaskPut(job[w])
             /\ UNCHANGED <<taskVars, callbackAt>>
      BY <1>5 DEF WorkerAdds
    <2>4. RoutineTypes'  BY <2>3, DoneTypes, RoutinesKept
    <2>5. WheelTypes' /\ AddTypes'
      BY <2>2, <2>3, ChooseTypes, PutTypes, WheelsKept, AddKept
    <2> QED BY <1>0, <2>1, <2>4, <2>5, OwnersKept
  <1> QED BY <1>1, <1>2, <1>3, <1>4, <1>5 DEF WorkerStep

\* Clear() keeps the types.
LEMMA ClearTypes ==
    ASSUME TypeInv, ClearBegin \/ ClearTasks \/ ClearWheel
    PROVE  TypeInv'
  <1> USE DEF TypeInv
  <1>1. UNCHANGED <<task_queue_, job, timerVars, work_wheel_, assistant_wheel_,
                    current_work_wheel_index_, current_assistant_wheel_index_, tickAt>>
    BY DEF ClearBegin, ClearTasks, ClearWheel, StopTasks, RemoveTask, taskVars, wheelVars
  <1>2. running_' \in BOOLEAN
    BY DEF ClearBegin, ClearTasks, ClearWheel, wheelVars, WheelTypes
  <1>3. WheelTypes'  BY <1>1, <1>2 DEF WheelTypes, WorkBucket
  <1>4. clear' \in ClearLabel
    BY DEF ClearBegin, ClearTasks, ClearWheel, OwnerTypes, ClearLabel
  <1>5. OwnerTypes'  BY <1>1, <1>4 DEF OwnerTypes, timerVars
  <1>6. AddTypes'  BY <1>1, AddKept DEF timerVars
  <1>7. \/ UNCHANGED workerAt
        \/ \E w \in Worker : /\ workerAt[w] # "task"
                             /\ workerAt' = [workerAt EXCEPT ![w] = "removed"]
    BY DEF ClearBegin, ClearTasks, ClearWheel, StopTasks, RemoveTask, Goto, taskVars
  <1>8. UNCHANGED callbackAt  BY <1>1 DEF timerVars
  <1>9. RoutineTypes'
    <2>1. CASE UNCHANGED workerAt  BY <1>1, <1>8, <2>1 DEF RoutineTypes
    <2>2. ASSUME NEW w \in Worker, workerAt[w] # "task",
                 workerAt' = [workerAt EXCEPT ![w] = "removed"]
          PROVE  RoutineTypes'
      BY <1>1, <1>8, <2>2 DEF RoutineTypes, WorkerLabel
    <2> QED BY <1>7, <2>1, <2>2
  <1> QED BY <1>3, <1>5, <1>6, <1>9

\* Every step keeps the types.
LEMMA TypeStep == TypeInv /\ [Next]_vars => TypeInv'
  <1> SUFFICES ASSUME TypeInv, [Next]_vars PROVE TypeInv'  OBVIOUS
  <1>1. CASE UNCHANGED vars
    <2>1. UNCHANGED <<taskVars, wheelVars, timerVars, clear>>  BY <1>1 DEF vars
    <2> QED BY <2>1, RoutinesKept, OwnersKept, WheelsKept, AddKept DEF TypeInv, timerVars
  <1>2. CASE TickStep  BY <1>2, TickTypes
  <1>3. ASSUME NEW w \in Worker, WorkerStep(w) PROVE TypeInv'  BY <1>3, WorkerTypes
  <1>4. ASSUME NEW t \in Timer, UNCHANGED clear, Start(t) \/ Stop(t) \/ OwnerAdds(t)
        PROVE  TypeInv'
    BY <1>4, StartTypes, StopTypes, OwnerStepTypes
  <1>5. CASE ClearBegin \/ ClearStep  BY <1>5, ClearTypes DEF ClearStep
  <1> QED BY <1>1, <1>2, <1>3, <1>4, <1>5 DEF Next, OwnerStep, Ended

\* Every variable has its type in every reachable state.
LEMMA TypeAlways == Spec => []TypeInv
  BY TypeInit, TypeStep, PTL DEF Spec

-----------------------------------------------------------------------------
(* Clear() and the tick thread.                                            *)

\* Once the task manager is shut down its routines are gone, so that nothing
\* is left that could start the wheel which Clear() then stops.
QuietInv ==
    /\ clear \in {"wheel", "join", "done"} => \A w \in Worker : workerAt[w] = "removed"
    /\ clear \in {"join", "done"} => ~running_
    /\ clear \in {"no", "tasks", "wheel"} /\ ~running_ => tickAt = "off"
    /\ clear = "done" => tickAt = "off"

\* The wheel is started only before Clear() has stopped it: by an owner before
\* Clear(), or by a routine that is inside a task.
LEMMA QuietBegin ==
    ASSUME QuietInv, NEW k, NEW ms, AddTaskBegin(k, ms), UNCHANGED <<clear, workerAt>>,
           clear \notin {"join", "done"}
    PROVE  QuietInv'
  BY DEF QuietInv, AddTaskBegin

\* What QuietInv depends on.
LEMMA QuietKept ==
    ASSUME QuietInv, UNCHANGED <<clear, workerAt, running_, tickAt>>
    PROVE  QuietInv'
  BY DEF QuietInv

\* A routine that is not removed moves only before Clear() has removed them.
LEMMA QuietMoves ==
    ASSUME QuietInv, NEW w \in Worker, workerAt[w] # "removed",
           UNCHANGED <<clear, running_, tickAt>>
    PROVE  QuietInv'
  <1>1. clear \notin {"wheel", "join", "done"}  BY DEF QuietInv
  <1> QED BY <1>1 DEF QuietInv

\* Every step keeps the layer of CleanUp() and the threads it stops.
LEMMA QuietStep == TypeInv /\ QuietInv /\ [Next]_vars => QuietInv'
  <1> SUFFICES ASSUME TypeInv, QuietInv, [Next]_vars PROVE QuietInv'  OBVIOUS
  <1>1. CASE UNCHANGED vars
    <2>1. UNCHANGED <<clear, workerAt, running_, tickAt>>
      BY <1>1 DEF vars, taskVars, wheelVars
    <2> QED BY <2>1, QuietKept
  <1>2. CASE TickStep
    <2>1. UNCHANGED <<clear, workerAt, running_>>
      BY <1>2 DEF TickStep, TickLoop, TickEntry, TickNotify, TickAdvance, TickWrap, Cascade,
                  Distribute, Enqueue, NotifyTask, taskVars
    <2>2. tickAt # "off"
      BY <1>2 DEF TickStep, TickLoop, TickEntry, TickNotify, TickAdvance, TickWrap, Cascade,
                  Distribute
    <2>3. \/ tickAt' = "off" \/ clear = "join"
          \/ clear \in {"no", "tasks", "wheel"} /\ running_
      BY <2>2 DEF QuietInv, TypeInv, OwnerTypes, ClearLabel
    <2> QED BY <2>1, <2>2, <2>3 DEF QuietInv
  <1>3. ASSUME NEW w \in Worker, WorkerStep(w) PROVE QuietInv'
    <2>0. UNCHANGED clear  BY <1>3 DEF WorkerStep
    <2>1. workerAt[w] # "removed"
      BY <1>3 DEF WorkerStep, TakeTask, Lambda, RunCallback, CallbackReturns, WorkerAdds,
                  WorkerLoop, HangUp, Resume, TypeInv, RoutineTypes
    <2>2. CASE UNCHANGED <<running_, tickAt>>  BY <2>0, <2>1, <2>2, QuietMoves
    <2>3. CASE \E ms \in Durations : AddTaskBegin(job[w], ms) /\ UNCHANGED taskVars
      <3>1. clear \notin {"join", "done"}  BY <2>1 DEF QuietInv
      <3>2. UNCHANGED workerAt  BY <2>3 DEF taskVars
      <3> QED BY <2>0, <2>3, <3>1, <3>2, QuietBegin
    <2> QED BY <1>3, <2>2, <2>3
            DEF WorkerStep, TakeTask, Lambda, RunCallback, CallbackReturns, WorkerAdds,
                AddTaskChoose, AddTaskPut, wheelVars
  <1>4. ASSUME NEW t \in Timer, UNCHANGED clear, Start(t) PROVE QuietInv'
    <2>1. UNCHANGED workerAt /\ clear = "no"  BY <1>4 DEF Start, taskVars
    <2>2. \/ \E o \in Options[t] : AddTaskBegin(<<t, starts[t] + 1>>, o.period)
          \/ UNCHANGED <<running_, tickAt>>
      BY <1>4 DEF Start, wheelVars
    <2> QED BY <1>4, <2>1, <2>2, QuietBegin, QuietKept
  <1>5. ASSUME NEW t \in Timer, UNCHANGED clear, Stop(t) \/ OwnerAdds(t) PROVE QuietInv'
    <2>1. UNCHANGED <<workerAt, running_, tickAt>>
      BY <1>5 DEF Stop, OwnerAdds, AddTaskChoose, AddTaskPut, taskVars, wheelVars
    <2> QED BY <1>5, <2>1, QuietKept
  <1>6. CASE ClearBegin
    BY <1>6 DEF ClearBegin, StopTasks, QuietInv, wheelVars
  <1>7. CASE ClearTasks
    BY <1>7 DEF ClearTasks, RemoveTask, QuietInv, wheelVars, taskVars
  <1>8. CASE ClearWheel
    BY <1>8 DEF ClearWheel, QuietInv, taskVars, TypeInv, WheelTypes
  <1> QED BY <1>1, <1>2, <1>3, <1>4, <1>5, <1>6, <1>7, <1>8
          DEF Next, OwnerStep, ClearStep, Ended

\* Once Clear() has returned the wheel does not run and the tick thread has
\* ended, for every number of timers and routines and every size of the wheels
\* (TaskManager::Shutdown() before TimingWheel::Shutdown() in init.cc).
THEOREM ClearedStaysQuiet == Spec => []ClearedIsQuiet
  <1>1. Init => QuietInv  BY DEF Init, QuietInv
  <1>2. QuietInv => ClearedIsQuiet  BY DEF QuietInv, ClearedIsQuiet
  <1> QED BY <1>1, <1>2, QuietStep, TypeAlways, PTL DEF Spec

-----------------------------------------------------------------------------
(* The places of a task.                                                   *)

Occurs(s, k) == \E i \in 1 .. Len(s) : s[i] = k
Once(s) == \A i, j \in 1 .. Len(s) : s[i] = s[j] => i = j

OnWheel(f, k) == \E b \in DOMAIN f : Occurs(f[b], k)

\* No bucket of a wheel has a task twice, and no two buckets share one.
OnceOn(f) ==
    /\ \A b \in DOMAIN f : Once(f[b])
    /\ \A b, c \in DOMAIN f, k \in Task : Occurs(f[b], k) /\ Occurs(f[c], k) => b = c

Queued(k) == Occurs(task_queue_, k)
Routed(k) == \E w \in Worker : job[w] = k /\ callbackAt[w] # "add"
BeingAdded(k) == adding[k] # NotAdding

OneRoutine ==
    \A v, w \in Worker :
        /\ job[v] = job[w] /\ job[v] \in Task
        /\ callbackAt[v] # "add" /\ callbackAt[w] # "add"
        => v = w

\* A task is in one kind of place.
Exclusive(k) ==
    /\ Queued(k) => ~OnWheel(work_wheel_, k) /\ ~OnWheel(assistant_wheel_, k)
    /\ Queued(k) => ~Routed(k) /\ ~BeingAdded(k)
    /\ Routed(k) => ~OnWheel(work_wheel_, k) /\ ~OnWheel(assistant_wheel_, k)
    /\ Routed(k) => ~BeingAdded(k)
    /\ BeingAdded(k) => ~OnWheel(work_wheel_, k) /\ ~OnWheel(assistant_wheel_, k)
    /\ OnWheel(work_wheel_, k) => ~OnWheel(assistant_wheel_, k)

\* A task that its timer has not created yet is nowhere.
Placed(k) ==
    \/ Queued(k) \/ Routed(k) \/ BeingAdded(k)
    \/ OnWheel(work_wheel_, k) \/ OnWheel(assistant_wheel_, k)

Created == \A k \in Task : Placed(k) => k[2] <= starts[k[1]]

PlaceInv ==
    /\ Once(task_queue_) /\ OnceOn(work_wheel_) /\ OnceOn(assistant_wheel_)
    /\ OneRoutine
    /\ \A k \in Task : Exclusive(k)
    /\ Created

\* A sequence without repetitions that gets a new element, or loses its head.
LEMMA OnceAppend ==
    ASSUME NEW s \in Seq(Task), NEW k \in Task
    PROVE  /\ \A j : Occurs(Append(s, k), j) <=> Occurs(s, j) \/ j = k
           /\ Once(s) /\ ~Occurs(s, k) => Once(Append(s, k))
  <1>1. Len(s) \in Nat /\ Len(Append(s, k)) = Len(s) + 1  OBVIOUS
  <1>2. /\ \A i \in 1 .. Len(s) : Append(s, k)[i] = s[i]
        /\ Append(s, k)[Len(s) + 1] = k
    OBVIOUS
  <1> DEFINE a == Append(s, k)
             n == Len(s)
  <1>3. /\ n \in Nat /\ Len(a) = n + 1
        /\ \A i \in 1 .. n : a[i] = s[i]
        /\ a[n + 1] = k
    BY <1>1, <1>2
  <1> HIDE DEF a, n
  <1>4. \A i \in 1 .. n + 1 : i \in 1 .. n \/ i = n + 1  BY <1>3
  <1>5. \A i \in 1 .. n : i \in 1 .. n + 1  BY <1>3
  <1>6. n + 1 \in 1 .. n + 1  BY <1>3
  <1>7. \A j : (\E i \in 1 .. n + 1 : a[i] = j) <=> (\E i \in 1 .. n : s[i] = j) \/ j = k
    BY <1>3, <1>4, <1>5, <1>6
  <1>8. \A j : Occurs(a, j) <=> Occurs(s, j) \/ j = k
    BY <1>3, <1>7 DEF Occurs, n
  <1>9. ASSUME Once(s), ~Occurs(s, k) PROVE Once(a)
    <2>1. \A i \in 1 .. n : s[i] # k  BY <1>9 DEF Occurs, n
    <2>2. \A i, j \in 1 .. n : s[i] = s[j] => i = j  BY <1>9 DEF Once, n
    <2>3. \A i, j \in 1 .. n + 1 : a[i] = a[j] => i = j
      BY <1>3, <1>4, <2>1, <2>2
    <2> QED BY <1>3, <2>3 DEF Once
  <1> QED BY <1>8, <1>9 DEF a

\* Taking the head off a list removes that task and no other.
LEMMA OnceTail ==
    ASSUME NEW s \in Seq(Task), s # <<>>, Once(s)
    PROVE  /\ Head(s) \in Task /\ Tail(s) \in Seq(Task)
           /\ Occurs(s, Head(s))
           /\ \A j : Occurs(Tail(s), j) <=> Occurs(s, j) /\ j # Head(s)
           /\ Once(Tail(s))
  <1> DEFINE r == Tail(s)
             h == Head(s)
             n == Len(s)
  <1>1. /\ h \in Task /\ r \in Seq(Task) /\ n \in Nat \ {0} /\ h = s[1] /\ Len(r) = n - 1
        /\ \A i \in 1 .. Len(r) : r[i] = s[i + 1]
    BY HeadTail
  <1>2. \A i, j \in 1 .. n : s[i] = s[j] => i = j  BY DEF Once
  <1> HIDE DEF r, h
  <1>3. 1 \in 1 .. n /\ \A i \in 1 .. n - 1 : i + 1 \in 1 .. n  BY <1>1
  <1>4. \A i \in 1 .. n : i = 1 \/ i - 1 \in 1 .. n - 1  BY <1>1
  <1>5. \A i \in 1 .. n : i # 1 => r[i - 1] = s[i]
    <2> SUFFICES ASSUME NEW i \in 1 .. n, i # 1 PROVE r[i - 1] = s[i]  OBVIOUS
    <2>1. i - 1 \in 1 .. Len(r) /\ (i - 1) + 1 = i  BY <1>1
    <2>2. r[i - 1] = s[(i - 1) + 1]  BY <1>1, <2>1
    <2> QED BY <2>1, <2>2
  <1>6. Occurs(s, h)  BY <1>1, <1>3 DEF Occurs
  <1>7. ASSUME NEW j PROVE Occurs(r, j) <=> Occurs(s, j) /\ j # h
    <2>1. ASSUME Occurs(r, j) PROVE Occurs(s, j) /\ j # h
      <3>1. PICK i \in 1 .. n - 1 : r[i] = j  BY <1>1, <2>1 DEF Occurs
      <3>2. i + 1 \in 1 .. n /\ s[i + 1] = j /\ i + 1 # 1  BY <1>1, <1>3, <3>1
      <3>3. j # h  BY <1>1, <1>2, <1>3, <3>2
      <3> QED BY <3>2, <3>3 DEF Occurs
    <2>2. ASSUME Occurs(s, j), j # h PROVE Occurs(r, j)
      <3>1. PICK i \in 1 .. n : s[i] = j  BY <2>2 DEF Occurs
      <3>2. i # 1  BY <1>1, <2>2, <3>1
      <3>3. i - 1 \in 1 .. Len(r) /\ r[i - 1] = j  BY <1>1, <1>4, <1>5, <3>1, <3>2
      <3> QED BY <3>3 DEF Occurs
    <2> QED BY <2>1, <2>2
  <1>8. Once(r)
    <2> SUFFICES ASSUME NEW i \in 1 .. Len(r), NEW j \in 1 .. Len(r), r[i] = r[j]
                 PROVE  i = j
      BY DEF Once
    <2>1. i + 1 \in 1 .. n /\ j + 1 \in 1 .. n  BY <1>1, <1>3
    <2>2. s[i + 1] = s[j + 1]  BY <1>1
    <2>3. i + 1 = j + 1  BY <1>2, <2>1, <2>2
    <2> QED BY <1>1, <2>3
  <1> QED BY <1>1, <1>6, <1>7, <1>8 DEF r, h

\* A wheel that gets a task it does not have, or loses the head of a bucket.
LEMMA WheelAppend ==
    ASSUME NEW D, NEW f \in [D -> Seq(Task)], NEW b \in D, NEW k \in Task,
           NEW g \in [D -> Seq(Task)], g[b] = Append(f[b], k), \A c \in D : c # b => g[c] = f[c],
           OnceOn(f), ~OnWheel(f, k)
    PROVE  /\ OnceOn(g)
           /\ \A j : OnWheel(g, j) <=> OnWheel(f, j) \/ j = k
  <1>1. f[b] \in Seq(Task) /\ ~Occurs(f[b], k) /\ Once(f[b])  BY DEF OnWheel, OnceOn
  <1>2. /\ \A j : Occurs(Append(f[b], k), j) <=> Occurs(f[b], j) \/ j = k
        /\ Once(Append(f[b], k))
    BY <1>1, OnceAppend
  <1>3. /\ DOMAIN g = D /\ DOMAIN f = D /\ g[b] = Append(f[b], k)
        /\ \A c \in D : c # b => g[c] = f[c]
    OBVIOUS
  <1>4. \A c \in D : \A j : Occurs(g[c], j) <=> Occurs(f[c], j) \/ (c = b /\ j = k)
    BY <1>2, <1>3
  <1>5. \A j : OnWheel(g, j) <=> OnWheel(f, j) \/ j = k  BY <1>3, <1>4 DEF OnWheel
  <1>6. \A c \in D : Once(g[c])  BY <1>2, <1>3 DEF OnceOn
  <1>7. \A c, d \in D, j \in Task : Occurs(g[c], j) /\ Occurs(g[d], j) => c = d
    <2> SUFFICES ASSUME NEW c \in D, NEW d \in D, NEW j \in Task,
                        Occurs(g[c], j), Occurs(g[d], j)
                 PROVE  c = d
      OBVIOUS
    <2>1. CASE j = k
      <3>1. ~Occurs(f[c], k) /\ ~Occurs(f[d], k)  BY <1>3 DEF OnWheel
      <3> QED BY <1>4, <2>1, <3>1
    <2>2. CASE j # k
      <3>1. Occurs(f[c], j) /\ Occurs(f[d], j)  BY <1>4, <2>2
      <3> QED BY <1>3, <3>1 DEF OnceOn
    <2> QED BY <2>1, <2>2
  <1> QED BY <1>3, <1>5, <1>6, <1>7 DEF OnceOn

\* Taking the head off one bucket removes that task from the wheel and no
\* other.
LEMMA WheelTail ==
    ASSUME NEW D, NEW f \in [D -> Seq(Task)], NEW b \in D, f[b] # <<>>,
           NEW g \in [D -> Seq(Task)], g[b] = Tail(f[b]), \A c \in D : c # b => g[c] = f[c],
           OnceOn(f)
    PROVE  /\ OnceOn(g)
           /\ Head(f[b]) \in Task /\ OnWheel(f, Head(f[b]))
           /\ \A j \in Task : OnWheel(g, j) <=> OnWheel(f, j) /\ j # Head(f[b])
  <1>1. f[b] \in Seq(Task) /\ Once(f[b])  BY DEF OnceOn
  <1> DEFINE h == Head(f[b])
  <1>2. /\ h \in Task /\ Occurs(f[b], h)
        /\ \A j : Occurs(Tail(f[b]), j) <=> Occurs(f[b], j) /\ j # h
        /\ Once(Tail(f[b]))
    BY <1>1, OnceTail
  <1>3. /\ DOMAIN g = D /\ DOMAIN f = D /\ g[b] = Tail(f[b])
        /\ \A c \in D : c # b => g[c] = f[c]
    OBVIOUS
  <1> HIDE DEF h
  <1>4. \A c \in D, j \in Task : Occurs(g[c], j) <=> Occurs(f[c], j) /\ j # h
    BY <1>2, <1>3 DEF OnceOn
  <1>5. OnWheel(f, h)  BY <1>2, <1>3 DEF OnWheel
  <1>6. \A j \in Task : OnWheel(g, j) <=> OnWheel(f, j) /\ j # h  BY <1>3, <1>4 DEF OnWheel
  <1>7. \A c \in D : Once(g[c])  BY <1>2, <1>3 DEF OnceOn
  <1>8. \A c, d \in D, j \in Task : Occurs(g[c], j) /\ Occurs(g[d], j) => c = d
    BY <1>3, <1>4 DEF OnceOn
  <1>9. OnceOn(g)  BY <1>3, <1>7, <1>8 DEF OnceOn
  <1> QED BY <1>2, <1>5, <1>6, <1>9 DEF h

\* A step brings a task to no new place.
ComesNowhere(j) ==
    /\ Queued(j)' => Queued(j)
    /\ Routed(j)' => Routed(j)
    /\ BeingAdded(j)' => BeingAdded(j)
    /\ OnWheel(work_wheel_, j)' => OnWheel(work_wheel_, j)
    /\ OnWheel(assistant_wheel_, j)' => OnWheel(assistant_wheel_, j)

Uniqueness ==
    Once(task_queue_) /\ OnceOn(work_wheel_) /\ OnceOn(assistant_wheel_) /\ OneRoutine

\* One task moves at most.
LEMMA OneMoves ==
    ASSUME PlaceInv, Uniqueness', NEW k \in Task,
           \A j \in Task : j # k => ComesNowhere(j),
           Exclusive(k)', Placed(k)' => k[2] <= starts'[k[1]],
           TypeInv, TypeInv', \A t \in Timer : starts[t] <= starts'[t]
    PROVE  PlaceInv'
  <1>1. ASSUME NEW j \in Task PROVE Exclusive(j)'
    <2>1. CASE j = k  BY <2>1
    <2>2. CASE j # k
      <3>1. ComesNowhere(j) /\ Exclusive(j)  BY <2>2 DEF PlaceInv
      <3> QED BY <3>1 DEF ComesNowhere, Exclusive
    <2> QED BY <2>1, <2>2
  <1>2. ASSUME NEW j \in Task, Placed(j)' PROVE j[2] <= starts'[j[1]]
    <2>1. CASE j = k  BY <1>2, <2>1
    <2>2. CASE j # k
      <3>1. Placed(j)  BY <1>2, <2>2 DEF Placed, ComesNowhere
      <3>2. j[1] \in Timer /\ j[2] \in 1 .. MaxStarts  BY TaskPair
      <3>3. j[2] <= starts[j[1]]  BY <3>1 DEF PlaceInv, Created
      <3>4. starts[j[1]] \in 0 .. MaxStarts /\ starts'[j[1]] \in 0 .. MaxStarts
        BY <3>2 DEF TypeInv, OwnerTypes
      <3> QED BY <3>2, <3>3, <3>4, Sizes
    <2> QED BY <2>1, <2>2
  <1> QED BY <1>1, <1>2 DEF PlaceInv, Created, Uniqueness

\* No task moves.
LEMMA NoneMoves ==
    ASSUME PlaceInv, Uniqueness', \A j \in Task : ComesNowhere(j),
           TypeInv, TypeInv', UNCHANGED starts
    PROVE  PlaceInv'
  <1>1. ASSUME NEW j \in Task PROVE Exclusive(j)'
    BY DEF ComesNowhere, Exclusive, PlaceInv
  <1>2. ASSUME NEW j \in Task, Placed(j)' PROVE j[2] <= starts'[j[1]]
    BY <1>2 DEF Placed, ComesNowhere, PlaceInv, Created
  <1> QED BY <1>1, <1>2 DEF PlaceInv, Created, Uniqueness

\* What a step that leaves a place alone keeps.
LEMMA QueueStays ==
    ASSUME UNCHANGED task_queue_
    PROVE  /\ Once(task_queue_)' = Once(task_queue_)
           /\ \A j \in Task : Queued(j)' = Queued(j)
  BY DEF Queued

\* A step away from the work wheel leaves its tasks.
LEMMA WorkStays ==
    ASSUME UNCHANGED work_wheel_
    PROVE  /\ OnceOn(work_wheel_)' = OnceOn(work_wheel_)
           /\ \A j \in Task : OnWheel(work_wheel_, j)' = OnWheel(work_wheel_, j)
  OBVIOUS

\* A step away from the assistant wheel leaves its tasks.
LEMMA AssistantStays ==
    ASSUME UNCHANGED assistant_wheel_
    PROVE  /\ OnceOn(assistant_wheel_)' = OnceOn(assistant_wheel_)
           /\ \A j \in Task : OnWheel(assistant_wheel_, j)' = OnWheel(assistant_wheel_, j)
  OBVIOUS

\* A step away from the routines leaves the tasks they hold.
LEMMA RoutinesStay ==
    ASSUME UNCHANGED <<job, callbackAt>>
    PROVE  /\ OneRoutine' = OneRoutine
           /\ \A j \in Task : Routed(j)' = Routed(j)
  BY DEF OneRoutine, Routed

\* A step outside AddTask() leaves the tasks being added.
LEMMA AddingStays ==
    ASSUME UNCHANGED adding
    PROVE  \A j \in Task : BeingAdded(j)' = BeingAdded(j)
  BY DEF BeingAdded

-----------------------------------------------------------------------------
(* The steps of AddTask() and the places.                                  *)

\* The task that AddTask() is called for was nowhere but with the caller.
LEMMA BeginPlaces ==
    ASSUME TypeInv, TypeInv', PlaceInv, NEW k \in Task, NEW ms \in Nat, AddTaskBegin(k, ms),
           ~Queued(k), ~OnWheel(work_wheel_, k), ~OnWheel(assistant_wheel_, k),
           ~Routed(k)', OneRoutine', \A j \in Task : Routed(j)' => Routed(j),
           k[2] <= starts'[k[1]], \A t \in Timer : starts[t] <= starts'[t],
           UNCHANGED task_queue_
    PROVE  PlaceInv'
  <1>1. UNCHANGED <<work_wheel_, assistant_wheel_>>  BY DEF AddTaskBegin
  <1>2. \A j \in Task : j # k => adding'[j] = adding[j]
    BY DEF AddTaskBegin, TypeInv, AddTypes
  <1>3. Uniqueness'
    BY <1>1, QueueStays, WorkStays, AssistantStays DEF Uniqueness, PlaceInv
  <1>4. ASSUME NEW j \in Task, j # k PROVE ComesNowhere(j)
    BY <1>1, <1>2, <1>4, QueueStays, WorkStays, AssistantStays DEF ComesNowhere, BeingAdded
  <1>5. Exclusive(k)'
    BY <1>1, QueueStays, WorkStays, AssistantStays DEF Exclusive
  <1> QED BY <1>3, <1>4, <1>5, OneMoves

\* A task that is being added stays that until it is put into a bucket.
LEMMA ChoosePlaces ==
    ASSUME TypeInv, TypeInv', PlaceInv, NEW k \in Task, AddTaskChoose(k),
           UNCHANGED <<taskVars, callbackAt, starts>>
    PROVE  PlaceInv'
  <1>1. UNCHANGED <<work_wheel_, assistant_wheel_>>  BY DEF AddTaskChoose, wheelVars
  <1>2. \A j \in Task : j # k => adding'[j] = adding[j]
    BY DEF AddTaskChoose, TypeInv, AddTypes
  <1>3. adding[k] # NotAdding  BY DEF AddTaskChoose, NotAdding
  <1>4. UNCHANGED <<task_queue_, job>>  BY DEF taskVars
  <1>5. Uniqueness'
    BY <1>1, <1>4, QueueStays, WorkStays, AssistantStays, RoutinesStay DEF Uniqueness, PlaceInv
  <1>6. ASSUME NEW j \in Task PROVE ComesNowhere(j)
    BY <1>1, <1>2, <1>3, <1>4, QueueStays, WorkStays, AssistantStays, RoutinesStay
       DEF ComesNowhere, BeingAdded
  <1> QED BY <1>5, <1>6, NoneMoves

\* Putting the task into a bucket ends AddTask().
LEMMA PutPlaces ==
    ASSUME TypeInv, TypeInv', PlaceInv, NEW k \in Task, AddTaskPut(k),
           UNCHANGED <<taskVars, callbackAt, starts>>
    PROVE  PlaceInv'
  <1>1. adding[k] # NotAdding  BY DEF AddTaskPut, NotAdding
  <1>2. /\ ~Queued(k) /\ ~Routed(k) /\ Placed(k)
        /\ ~OnWheel(work_wheel_, k) /\ ~OnWheel(assistant_wheel_, k)
    BY <1>1 DEF PlaceInv, Exclusive, BeingAdded, Placed
  <1>3. adding' = [adding EXCEPT ![k] = NotAdding]  BY DEF AddTaskPut
  <1>4. \A j \in Task : BeingAdded(j)' <=> BeingAdded(j) /\ j # k
    BY <1>3 DEF BeingAdded, TypeInv, AddTypes
  <1>5. UNCHANGED <<task_queue_, job>>  BY DEF taskVars
  <1>6. k[1] \in Timer /\ k[2] \in 1 .. MaxStarts  BY TaskPair
  <1>7. /\ k[2] <= starts'[k[1]]
        /\ \A t \in Timer : starts[t] <= starts'[t]
    BY <1>2, Sizes DEF PlaceInv, Created, TypeInv, OwnerTypes
  <1>8. CASE /\ adding[k].at = "work"
             /\ work_wheel_' = [work_wheel_ EXCEPT ![adding[k].index] = Append(@, k)]
             /\ UNCHANGED assistant_wheel_
    <2>1. adding[k].index \in WorkIndex  BY <1>8 DEF TypeInv, AddTypes
    <2>2. /\ OnceOn(work_wheel_')
          /\ \A j : OnWheel(work_wheel_', j) <=> OnWheel(work_wheel_, j) \/ j = k
      <3> DEFINE b == adding[k].index
                 f == work_wheel_
                 g == work_wheel_'
      <3>1. b \in WorkIndex /\ f \in [WorkIndex -> Seq(Task)]  BY <2>1 DEF TypeInv, WheelTypes
      <3>2. OnceOn(f) /\ ~OnWheel(f, k)  BY <1>2 DEF PlaceInv
      <3>3. /\ g \in [WorkIndex -> Seq(Task)] /\ g[b] = Append(f[b], k)
            /\ \A c \in WorkIndex : c # b => g[c] = f[c]
        BY <1>8, <3>1 DEF TypeInv, WheelTypes
      <3> HIDE DEF b, f, g
      <3>4. OnceOn(g) /\ \A j : OnWheel(g, j) <=> OnWheel(f, j) \/ j = k
        BY <3>1, <3>2, <3>3, WheelAppend
      <3> QED BY <3>4 DEF f, g
    <2>3. Uniqueness'
      BY <1>5, <1>8, <2>2, QueueStays, AssistantStays, RoutinesStay DEF Uniqueness, PlaceInv
    <2>4. ASSUME NEW j \in Task, j # k PROVE ComesNowhere(j)
      BY <1>4, <1>5, <1>8, <2>2, <2>4, QueueStays, AssistantStays, RoutinesStay
         DEF ComesNowhere
    <2>5. Exclusive(k)'
      BY <1>2, <1>4, <1>5, <1>8, QueueStays, AssistantStays, RoutinesStay DEF Exclusive
    <2> QED BY <1>7, <2>3, <2>4, <2>5, OneMoves
  <1>9. CASE /\ assistant_wheel_' = [assistant_wheel_ EXCEPT ![AssistantIndex(k)] = Append(@, k)]
             /\ UNCHANGED work_wheel_
    <2>1. AssistantIndex(k) \in AssistantRange  BY AssistantIndexType
    <2>2. /\ OnceOn(assistant_wheel_')
          /\ \A j : OnWheel(assistant_wheel_', j) <=> OnWheel(assistant_wheel_, j) \/ j = k
      <3> DEFINE b == AssistantIndex(k)
                 f == assistant_wheel_
                 g == assistant_wheel_'
      <3>1. b \in AssistantRange /\ f \in [AssistantRange -> Seq(Task)]
        BY <2>1 DEF TypeInv, WheelTypes
      <3>2. OnceOn(f) /\ ~OnWheel(f, k)  BY <1>2 DEF PlaceInv
      <3>3. /\ g \in [AssistantRange -> Seq(Task)] /\ g[b] = Append(f[b], k)
            /\ \A c \in AssistantRange : c # b => g[c] = f[c]
        BY <1>9, <3>1 DEF TypeInv, WheelTypes
      <3> HIDE DEF b, f, g
      <3>4. OnceOn(g) /\ \A j : OnWheel(g, j) <=> OnWheel(f, j) \/ j = k
        BY <3>1, <3>2, <3>3, WheelAppend
      <3> QED BY <3>4 DEF f, g
    <2>3. Uniqueness'
      BY <1>5, <1>9, <2>2, QueueStays, WorkStays, RoutinesStay DEF Uniqueness, PlaceInv
    <2>4. ASSUME NEW j \in Task, j # k PROVE ComesNowhere(j)
      BY <1>4, <1>5, <1>9, <2>2, <2>4, QueueStays, WorkStays, RoutinesStay DEF ComesNowhere
    <2>5. Exclusive(k)'
      BY <1>2, <1>4, <1>5, <1>9, QueueStays, WorkStays, RoutinesStay DEF Exclusive
    <2> QED BY <1>7, <2>3, <2>4, <2>5, OneMoves
  <1> QED BY <1>8, <1>9 DEF AddTaskPut

-----------------------------------------------------------------------------
(* The other steps and the places.                                         *)

\* Tick() moves the head of a bucket to the queue, or forgets it.
LEMMA EntryPlaces ==
    ASSUME TypeInv, TypeInv', PlaceInv, TickEntry
    PROVE  PlaceInv'
  <1> DEFINE b == current_work_wheel_index_
             f == work_wheel_
             g == work_wheel_'
  <1>0. PICK k \in Task : k = Head(WorkBucket)
    BY HeadTail DEF TickEntry, TypeInv, WheelTypes, WorkBucket
  <1>1. /\ b \in WorkIndex /\ f \in [WorkIndex -> Seq(Task)]
        /\ WorkBucket = f[b] /\ WorkBucket # <<>> /\ k = Head(f[b])
    BY <1>0 DEF TickEntry, TypeInv, WheelTypes, WorkBucket
  <1>2. /\ g \in [WorkIndex -> Seq(Task)] /\ g[b] = Tail(f[b])
        /\ \A c \in WorkIndex : c # b => g[c] = f[c]
    BY <1>1 DEF TickEntry, TypeInv, WheelTypes
  <1>3. UNCHANGED <<assistant_wheel_, adding, callbackAt, job, starts>>
    BY DEF TickEntry, Enqueue, taskVars
  <1>4. \/ UNCHANGED task_queue_
        \/ task_queue_' = Append(task_queue_, k)
    BY <1>0 DEF TickEntry, Enqueue, taskVars
  <1>5. OnceOn(f)  BY DEF PlaceInv
  <1>6. /\ OnceOn(g) /\ k \in Task /\ OnWheel(f, k)
        /\ \A j \in Task : OnWheel(g, j) <=> OnWheel(f, j) /\ j # k
    <2> HIDE DEF b, f, g
    <2>1. k = Head(f[b]) /\ f[b] # <<>>  BY <1>1
    <2>2. /\ OnceOn(g) /\ Head(f[b]) \in Task /\ OnWheel(f, Head(f[b]))
          /\ \A j \in Task : OnWheel(g, j) <=> OnWheel(f, j) /\ j # Head(f[b])
      BY <1>1, <1>2, <1>5, WheelTail
    <2> QED BY <2>1, <2>2
  <1>7. /\ ~Queued(k) /\ ~Routed(k) /\ ~BeingAdded(k) /\ Placed(k)
        /\ ~OnWheel(assistant_wheel_, k)
    <2>1. Exclusive(k)  BY <1>6 DEF PlaceInv
    <2> QED BY <1>6, <2>1 DEF Exclusive, Placed
  <1> HIDE DEF b, f
  <1>8. /\ Once(task_queue_') /\ \A j \in Task : Occurs(task_queue_', j) => Queued(j) \/ j = k
    <2>1. task_queue_ \in Seq(Task) /\ Once(task_queue_)
      BY DEF TypeInv, RoutineTypes, PlaceInv
    <2>2. ~Occurs(task_queue_, k)  BY <1>7 DEF Queued
    <2>3. /\ \A j : Occurs(Append(task_queue_, k), j) <=> Occurs(task_queue_, j) \/ j = k
          /\ Once(Append(task_queue_, k))
      BY <1>6, <2>1, <2>2, OnceAppend
    <2> QED BY <1>4, <2>1, <2>3 DEF Queued
  <1>9. Uniqueness'
    BY <1>3, <1>6, <1>8, AssistantStays, RoutinesStay DEF Uniqueness, PlaceInv
  <1>10. ASSUME NEW j \in Task, j # k PROVE ComesNowhere(j)
    BY <1>3, <1>6, <1>8, <1>10, AssistantStays, RoutinesStay, AddingStays
       DEF ComesNowhere, Queued, f
  <1>11. Exclusive(k)'
    BY <1>3, <1>6, <1>7, AssistantStays, RoutinesStay, AddingStays DEF Exclusive
  <1>12. /\ k[2] <= starts'[k[1]]
         /\ \A t \in Timer : starts[t] <= starts'[t]
    BY <1>3, <1>6, <1>7, Sizes DEF PlaceInv, Created, TypeInv, OwnerTypes
  <1> QED BY <1>6, <1>9, <1>10, <1>11, <1>12, OneMoves

\* Cascade() moves the head of a bucket to the work wheel, or forgets it.
LEMMA CascadePlaces ==
    ASSUME TypeInv, TypeInv', PlaceInv, Cascade
    PROVE  PlaceInv'
  <1>0. UNCHANGED <<task_queue_, adding, callbackAt, job, starts>>
    BY DEF Cascade, Distribute, taskVars, timerVars
  <1>1. CASE UNCHANGED <<work_wheel_, assistant_wheel_>>
    <2>1. Uniqueness'
      BY <1>0, <1>1, QueueStays, WorkStays, AssistantStays, RoutinesStay
         DEF Uniqueness, PlaceInv
    <2>2. \A j \in Task : ComesNowhere(j)
      BY <1>0, <1>1, QueueStays, WorkStays, AssistantStays, RoutinesStay, AddingStays
         DEF ComesNowhere
    <2> QED BY <1>0, <2>1, <2>2, NoneMoves
  <1> DEFINE b == current_assistant_wheel_index_
             f == assistant_wheel_
             g == assistant_wheel_'
             h == work_wheel_
             i == work_wheel_'
  <1>2. CASE /\ AssistantBucket # <<>>
             /\ g = [f EXCEPT ![b] = Tail(@)]
             /\ \/ i = h
                \/ i = [h EXCEPT ![remainder_interval_ms[Head(AssistantBucket)]] =
                           Append(@, Head(AssistantBucket))]
    <2>0. PICK k \in Task : k = Head(AssistantBucket)
      BY <1>2, HeadTail DEF TypeInv, WheelTypes, AssistantBucket
    <2> DEFINE r == remainder_interval_ms[k]
    <2>1. /\ b \in AssistantRange /\ f \in [AssistantRange -> Seq(Task)]
          /\ f[b] # <<>> /\ k = Head(f[b])
      BY <1>2, <2>0 DEF TypeInv, WheelTypes, AssistantBucket
    <2>2. OnceOn(f) /\ OnceOn(h)  BY DEF PlaceInv
    <2>3. /\ g \in [AssistantRange -> Seq(Task)] /\ g[b] = Tail(f[b])
          /\ \A c \in AssistantRange : c # b => g[c] = f[c]
      BY <1>2, <2>1 DEF TypeInv, WheelTypes
    <2>4. /\ OnceOn(g) /\ k \in Task /\ OnWheel(f, k)
          /\ \A j \in Task : OnWheel(g, j) <=> OnWheel(f, j) /\ j # k
      <3> HIDE DEF b, f, g
      <3>1. /\ OnceOn(g) /\ Head(f[b]) \in Task /\ OnWheel(f, Head(f[b]))
            /\ \A j \in Task : OnWheel(g, j) <=> OnWheel(f, j) /\ j # Head(f[b])
        BY <2>1, <2>2, <2>3, WheelTail
      <3> QED BY <2>1, <3>1
    <2>5. /\ ~Queued(k) /\ ~Routed(k) /\ ~BeingAdded(k) /\ Placed(k) /\ ~OnWheel(h, k)
      <3>1. Exclusive(k)  BY <2>4 DEF PlaceInv
      <3> QED BY <2>4, <3>1 DEF Exclusive, Placed
    <2>6. r \in WorkIndex /\ h \in [WorkIndex -> Seq(Task)]
      BY <2>4 DEF TypeInv, AddTypes, WheelTypes
    <2>7. OnceOn(i) /\ \A j \in Task : OnWheel(i, j) => OnWheel(h, j) \/ j = k
      <3>1. i = h \/ i = [h EXCEPT ![r] = Append(@, k)]  BY <1>2, <2>0
      <3>2. CASE i = h  BY <2>2, <3>2
      <3>3. CASE i = [h EXCEPT ![r] = Append(@, k)]
        <4>1. /\ i \in [WorkIndex -> Seq(Task)] /\ i[r] = Append(h[r], k)
              /\ \A c \in WorkIndex : c # r => i[c] = h[c]
          BY <2>6, <3>3 DEF TypeInv, WheelTypes
        <4> HIDE DEF r, h, i
        <4>2. OnceOn(i) /\ \A j : OnWheel(i, j) <=> OnWheel(h, j) \/ j = k
          BY <2>2, <2>5, <2>6, <4>1, WheelAppend
        <4> QED BY <4>2
      <3> QED BY <3>1, <3>2, <3>3
    <2> HIDE DEF b, r
    <2>8. Uniqueness'
      BY <1>0, <2>4, <2>7, QueueStays, RoutinesStay DEF Uniqueness, PlaceInv
    <2>9. ASSUME NEW j \in Task, j # k PROVE ComesNowhere(j)
      BY <1>0, <2>4, <2>7, <2>9, QueueStays, RoutinesStay, AddingStays DEF ComesNowhere
    <2>10. Exclusive(k)'
      BY <1>0, <2>4, <2>5, QueueStays, RoutinesStay, AddingStays DEF Exclusive
    <2>11. /\ k[2] <= starts'[k[1]]
           /\ \A t \in Timer : starts[t] <= starts'[t]
      BY <1>0, <2>4, <2>5, Sizes DEF PlaceInv, Created, TypeInv, OwnerTypes
    <2> QED BY <2>4, <2>8, <2>9, <2>10, <2>11, OneMoves
  <1> QED BY <1>1, <1>2 DEF Cascade

\* A step that leaves the queue, the wheels and AddTask() alone, and takes a
\* routine from a task or leaves it there.
LEMMA RoutineLeaves ==
    ASSUME TypeInv, TypeInv', PlaceInv, NEW w \in Worker,
           UNCHANGED <<task_queue_, work_wheel_, assistant_wheel_, adding, starts>>,
           \A v \in Worker : v # w => job'[v] = job[v] /\ callbackAt'[v] = callbackAt[v],
           \/ job'[w] = NoJob
           \/ job'[w] = job[w] /\ (callbackAt[w] = "add" => callbackAt'[w] = "add")
    PROVE  PlaceInv'
  <1>1. \A j \in Task : Routed(j)' => Routed(j)  BY Sizes DEF Routed
  <1>2. OneRoutine'  BY Sizes DEF OneRoutine, PlaceInv
  <1>3. Uniqueness'
    BY <1>2, QueueStays, WorkStays, AssistantStays DEF Uniqueness, PlaceInv
  <1>4. ASSUME NEW j \in Task PROVE ComesNowhere(j)
    BY <1>1, QueueStays, WorkStays, AssistantStays, AddingStays DEF ComesNowhere
  <1> QED BY <1>3, <1>4, NoneMoves

\* A routine takes the head of the queue.
LEMMA TakePlaces ==
    ASSUME TypeInv, TypeInv', PlaceInv, NEW w \in Worker, TakeTask(w), UNCHANGED starts
    PROVE  PlaceInv'
  <1>0. UNCHANGED <<work_wheel_, assistant_wheel_, adding>>  BY DEF TakeTask, wheelVars
  <1>1. CASE UNCHANGED <<task_queue_, job>>
    <2>1. \/ callbackAt' = callbackAt
          \/ callbackAt' = [callbackAt EXCEPT ![w] = "lambda"]
      BY DEF TakeTask, At
    <2>2. callbackAt[w] # "add"
      BY DEF TakeTask, WorkerLoop, HangUp, Resume, TypeInv, RoutineTypes
    <2>3. \A v \in Worker : v # w => callbackAt'[v] = callbackAt[v]
      BY <2>1 DEF TypeInv, RoutineTypes
    <2> QED BY <1>0, <1>1, <2>2, <2>3, RoutineLeaves
  <1>2. CASE /\ task_queue_ # <<>>
             /\ task_queue_' = Tail(task_queue_)
             /\ job' = [job EXCEPT ![w] = Head(task_queue_)]
             /\ Goto(w, "task")
    <2>0. PICK k \in Task : k = Head(task_queue_)
      BY <1>2, HeadTail DEF TypeInv, RoutineTypes
    <2>1. callbackAt' = [callbackAt EXCEPT ![w] = "lambda"]
      BY <1>2 DEF TakeTask, At, Goto, TypeInv, RoutineTypes
    <2>2. task_queue_ \in Seq(Task) /\ Once(task_queue_)
      BY DEF TypeInv, RoutineTypes, PlaceInv
    <2>3. /\ k \in Task /\ Queued(k) /\ Once(task_queue_')
          /\ \A j : Occurs(task_queue_', j) <=> Queued(j) /\ j # k
      BY <1>2, <2>0, <2>2, OnceTail DEF Queued
    <2>4. job' = [job EXCEPT ![w] = k]  BY <1>2, <2>0
    <2>5. /\ ~Routed(k) /\ ~BeingAdded(k) /\ Placed(k)
          /\ ~OnWheel(work_wheel_, k) /\ ~OnWheel(assistant_wheel_, k)
      BY <2>3 DEF PlaceInv, Exclusive, Placed
    <2>6. \A v \in Worker : v # w => job'[v] = job[v] /\ callbackAt'[v] = callbackAt[v]
      BY <2>1, <2>4 DEF TypeInv, RoutineTypes
    <2>7. job'[w] = k  BY <2>4 DEF TypeInv, RoutineTypes
    <2>8. OneRoutine'
      <3> SUFFICES ASSUME NEW u \in Worker, NEW v \in Worker,
                          job'[u] = job'[v], job'[u] \in Task,
                          callbackAt'[u] # "add", callbackAt'[v] # "add"
                   PROVE  u = v
        BY DEF OneRoutine
      <3>1. CASE u # w /\ v # w  BY <2>6, <3>1 DEF OneRoutine, PlaceInv
      <3>2. CASE u # w /\ v = w  BY <2>5, <2>6, <2>7, <3>2 DEF Routed
      <3>3. CASE u = w /\ v # w  BY <2>5, <2>6, <2>7, <3>3 DEF Routed
      <3> QED BY <3>1, <3>2, <3>3
    <2>9. \A j \in Task : j # k => (Routed(j)' => Routed(j))
      BY <2>6, <2>7 DEF Routed
    <2>10. Uniqueness'
      BY <1>0, <2>3, <2>8, WorkStays, AssistantStays DEF Uniqueness, PlaceInv
    <2>11. ASSUME NEW j \in Task, j # k PROVE ComesNowhere(j)
      BY <1>0, <2>3, <2>9, <2>11, WorkStays, AssistantStays, AddingStays
         DEF ComesNowhere, Queued
    <2>12. Exclusive(k)'
      BY <1>0, <2>3, <2>5, WorkStays, AssistantStays, AddingStays DEF Exclusive, Queued
    <2>13. /\ k[2] <= starts'[k[1]]
           /\ \A t \in Timer : starts[t] <= starts'[t]
      BY <2>3, <2>5, Sizes DEF PlaceInv, Created, TypeInv, OwnerTypes
    <2> QED BY <2>3, <2>10, <2>11, <2>12, <2>13, OneMoves
  <1> QED BY <1>1, <1>2 DEF TakeTask, WorkerLoop, HangUp, Resume

\* A routine whose task is done, and one that goes on inside the callback.
LEMMA DonePlaces ==
    ASSUME TypeInv, TypeInv', PlaceInv, NEW w \in Worker, TaskDone(w), At(w, "no"),
           UNCHANGED <<wheelVars, adding, starts>>
    PROVE  PlaceInv'
  <1>1. job' = [job EXCEPT ![w] = NoJob] /\ UNCHANGED task_queue_  BY DEF TaskDone
  <1>2. callbackAt' = [callbackAt EXCEPT ![w] = "no"]  BY DEF At
  <1>3. job'[w] = NoJob  BY <1>1 DEF TypeInv, RoutineTypes
  <1>4. \A v \in Worker : v # w => job'[v] = job[v] /\ callbackAt'[v] = callbackAt[v]
    BY <1>1, <1>2 DEF TypeInv, RoutineTypes
  <1>5. UNCHANGED <<work_wheel_, assistant_wheel_>>  BY DEF wheelVars
  <1> QED BY <1>1, <1>3, <1>4, <1>5, RoutineLeaves

\* A callback that moves on without AddTask() keeps the places.
LEMMA OnPlaces ==
    ASSUME TypeInv, TypeInv', PlaceInv, NEW w \in Worker, NEW l, At(w, l), l # "add",
           callbackAt[w] # "add", UNCHANGED <<taskVars, wheelVars, adding, starts>>
    PROVE  PlaceInv'
  <1>1. UNCHANGED <<job, task_queue_, work_wheel_, assistant_wheel_>>
    BY DEF taskVars, wheelVars
  <1>2. \A v \in Worker : v # w => callbackAt'[v] = callbackAt[v]
    BY DEF At, TypeInv, RoutineTypes
  <1> QED BY <1>1, <1>2, RoutineLeaves

\* The routines keep every task in one place.
LEMMA WorkerPlaces ==
    ASSUME TypeInv, TypeInv', PlaceInv, NEW w \in Worker, WorkerStep(w)
    PROVE  PlaceInv'
  <1>1. CASE TakeTask(w)
    <2>1. UNCHANGED starts  BY <1>1 DEF TakeTask
    <2> QED BY <1>1, <2>1, TakePlaces
  <1>2. CASE Lambda(w)
    <2>1. callbackAt[w] # "add" /\ UNCHANGED <<wheelVars, adding, starts>>  BY <1>2 DEF Lambda
    <2>2. \/ TaskDone(w) /\ At(w, "no")
          \/ UNCHANGED <<taskVars, callbackAt>>
          \/ At(w, "locked") /\ UNCHANGED taskVars
      BY <1>2 DEF Lambda
    <2>3. CASE UNCHANGED <<taskVars, callbackAt>>
      <3>1. UNCHANGED <<job, task_queue_, work_wheel_, assistant_wheel_, adding, starts>>
        BY <2>1, <2>3 DEF taskVars, wheelVars
      <3> QED BY <2>1, <2>3, <3>1, RoutineLeaves
    <2> QED BY <2>1, <2>2, <2>3, DonePlaces, OnPlaces
  <1>3. CASE RunCallback(w)
    BY <1>3, OnPlaces DEF RunCallback
  <1>4. CASE CallbackReturns(w)
    <2>1. UNCHANGED starts /\ callbackAt[w] = "callback"  BY <1>4 DEF CallbackReturns
    <2>2. CASE TaskDone(w) /\ At(w, "no") /\ UNCHANGED <<wheelVars, adding>>
      BY <2>1, <2>2, DonePlaces
    <2>3. CASE At(w, "add") /\ UNCHANGED taskVars /\ \E ms \in Durations : AddTaskBegin(job[w], ms)
      <3>1. PICK k \in Task : k = job[w]  BY <2>1 DEF TypeInv, RoutineTypes
      <3>2. PICK ms \in Durations : AddTaskBegin(k, ms)  BY <2>3, <3>1
      <3>3. ms \in Nat  BY DurationType
      <3>4. UNCHANGED <<task_queue_, job>>  BY <2>3 DEF taskVars
      <3>5. /\ callbackAt'[w] = "add"
            /\ \A v \in Worker : v # w => callbackAt'[v] = callbackAt[v]
        BY <2>3 DEF At, TypeInv, RoutineTypes
      <3>6. Routed(k)  BY <2>1, <3>1 DEF Routed
      <3>7. /\ ~Queued(k) /\ ~OnWheel(work_wheel_, k) /\ ~OnWheel(assistant_wheel_, k)
            /\ Placed(k)
        BY <3>6 DEF PlaceInv, Exclusive, Placed
      <3>8. ~Routed(k)'
        <4>1. \A v \in Worker : job[v] = k /\ callbackAt[v] # "add" => v = w
          BY <2>1, <3>1 DEF PlaceInv, OneRoutine
        <4> QED BY <3>4, <3>5, <4>1 DEF Routed
      <3>9. OneRoutine' /\ \A j \in Task : Routed(j)' => Routed(j)
        <4>1. \A v \in Worker : callbackAt'[v] # "add" => v # w /\ callbackAt[v] # "add"
          BY <3>5
        <4> QED BY <3>4, <4>1 DEF OneRoutine, Routed, PlaceInv
      <3>10. k[2] <= starts'[k[1]] /\ \A t \in Timer : starts[t] <= starts'[t]
        BY <2>1, <3>7, Sizes DEF PlaceInv, Created, TypeInv, OwnerTypes
      <3> QED BY <3>2, <3>3, <3>4, <3>7, <3>8, <3>9, <3>10, BeginPlaces
    <2> QED BY <1>4, <2>2, <2>3 DEF CallbackReturns
  <1>5. CASE WorkerAdds(w)
    <2>1. UNCHANGED starts /\ callbackAt[w] = "add"  BY <1>5 DEF WorkerAdds
    <2>2. job[w] \in Task  BY <2>1 DEF TypeInv, RoutineTypes
    <2>3. CASE TaskDone(w) /\ At(w, "no") /\ UNCHANGED <<wheelVars, adding>>
      BY <2>1, <2>3, DonePlaces
    <2>4. CASE /\ AddTaskChoose(job[w]) \/ AddTaskPut(job[w])
               /\ UNCHANGED <<taskVars, callbackAt>>
      BY <2>1, <2>2, <2>4, ChoosePlaces, PutPlaces
    <2> QED BY <1>5, <2>3, <2>4 DEF WorkerAdds
  <1> QED BY <1>1, <1>2, <1>3, <1>4, <1>5 DEF WorkerStep

\* A step that touches no place.
LEMMA PlacesKept ==
    ASSUME TypeInv, TypeInv', PlaceInv,
           UNCHANGED <<task_queue_, job, callbackAt, work_wheel_, assistant_wheel_, starts>>,
           \A k \in Task : BeingAdded(k)' => BeingAdded(k)
    PROVE  PlaceInv'
  <1>1. Uniqueness'
    BY QueueStays, WorkStays, AssistantStays, RoutinesStay DEF Uniqueness, PlaceInv
  <1>2. \A j \in Task : ComesNowhere(j)
    BY QueueStays, WorkStays, AssistantStays, RoutinesStay DEF ComesNowhere
  <1> QED BY <1>1, <1>2, NoneMoves

\* The tick thread keeps every task in one place.
LEMMA TickPlaces ==
    ASSUME TypeInv, TypeInv', PlaceInv, TickStep
    PROVE  PlaceInv'
  <1>1. CASE TickEntry  BY <1>1, EntryPlaces
  <1>2. CASE Cascade  BY <1>2, CascadePlaces
  <1>3. CASE TickAdvance
    <2>1. UNCHANGED <<task_queue_, job, callbackAt, work_wheel_, assistant_wheel_, starts>>
      BY <1>3 DEF TickAdvance, taskVars
    <2>2. \A k \in Task : BeingAdded(k)' => BeingAdded(k)
      BY <1>3 DEF TickAdvance, BeingAdded
    <2> QED BY <2>1, <2>2, PlacesKept
  <1>4. CASE TickLoop \/ TickNotify \/ TickWrap
    <2>1. UNCHANGED <<task_queue_, job, callbackAt, work_wheel_, assistant_wheel_, starts, adding>>
      BY <1>4 DEF TickLoop, TickNotify, TickWrap, NotifyTask, taskVars, timerVars
    <2> QED BY <2>1, PlacesKept, AddingStays
  <1> QED BY <1>1, <1>2, <1>3, <1>4 DEF TickStep

\* Start() creates a task that was nowhere.
LEMMA StartPlaces ==
    ASSUME TypeInv, TypeInv', PlaceInv, NEW t \in Timer, Start(t)
    PROVE  PlaceInv'
  <1> DEFINE n == starts[t] + 1
             k == <<t, n>>
  <1>1. n \in 1 .. MaxStarts /\ starts[t] \in Nat  BY Sizes DEF Start, TypeInv, OwnerTypes
  <1>2. k \in Task /\ k[1] = t /\ k[2] = n  BY <1>1, TaskPair
  <1>3. starts' = [starts EXCEPT ![t] = n]  BY DEF Start
  <1>4. UNCHANGED <<task_queue_, job, callbackAt>>  BY DEF Start, taskVars
  <1>5. \/ UNCHANGED <<adding, work_wheel_, assistant_wheel_>>
        \/ \E ms \in Nat : AddTaskBegin(k, ms)
    <2>1. \A o \in Options[t] : o.period \in Nat  BY TimingWheelAssumption
    <2> QED BY <2>1 DEF Start, wheelVars
  <1>6. PICK j \in Task : j = k  BY <1>2
  <1>7. PICK m \in 1 .. MaxStarts : m = n  BY <1>1
  <1>8. j[1] = t /\ j[2] = m /\ starts' = [starts EXCEPT ![t] = m]  BY <1>2, <1>3, <1>6, <1>7
  <1>9. m = starts[t] + 1 /\ starts[t] \in Nat  BY <1>1, <1>7
  <1>10. \/ UNCHANGED <<adding, work_wheel_, assistant_wheel_>>
         \/ \E ms \in Nat : AddTaskBegin(j, ms)
    BY <1>5, <1>6
  <1> HIDE DEF n, k
  <1>11. starts'[t] = m /\ \A u \in Timer : starts[u] <= starts'[u]
    <2>1. starts \in [Timer -> 0 .. MaxStarts]  BY DEF TypeInv, OwnerTypes
    <2> QED BY <1>8, <1>9, <2>1, Sizes
  <1>12. ~Placed(j)
    <2>1. ~(j[2] <= starts[j[1]])  BY <1>8, <1>9
    <2> QED BY <2>1 DEF PlaceInv, Created
  <1>13. ~Routed(j)' /\ OneRoutine' /\ \A i \in Task : Routed(i)' => Routed(i)
    BY <1>4, <1>12, RoutinesStay DEF Placed, PlaceInv
  <1>14. CASE \E ms \in Nat : AddTaskBegin(j, ms)
    <2>1. ~Queued(j) /\ ~OnWheel(work_wheel_, j) /\ ~OnWheel(assistant_wheel_, j)
      BY <1>12 DEF Placed
    <2>2. j[2] <= starts'[j[1]]  BY <1>8, <1>11
    <2> QED BY <1>4, <1>11, <1>13, <1>14, <2>1, <2>2, BeginPlaces
  <1>15. CASE UNCHANGED <<adding, work_wheel_, assistant_wheel_>>
    <2>1. Uniqueness'
      BY <1>4, <1>15, QueueStays, WorkStays, AssistantStays, RoutinesStay
         DEF Uniqueness, PlaceInv
    <2>2. \A i \in Task : ComesNowhere(i)
      BY <1>4, <1>15, QueueStays, WorkStays, AssistantStays, RoutinesStay, AddingStays
         DEF ComesNowhere
    <2>3. Exclusive(j)' /\ ~Placed(j)'
      BY <1>12, <2>2 DEF Exclusive, Placed, ComesNowhere
    <2> QED BY <1>11, <2>1, <2>2, <2>3, OneMoves
  <1> QED BY <1>10, <1>14, <1>15

\* Every step keeps every task in one place.
LEMMA PlaceStep == TypeInv /\ PlaceInv /\ [Next]_vars => PlaceInv'
  <1> SUFFICES ASSUME TypeInv, PlaceInv, [Next]_vars PROVE PlaceInv'  OBVIOUS
  <1>0. TypeInv'  BY TypeStep
  <1>1. CASE UNCHANGED vars
    <2>1. UNCHANGED <<task_queue_, job, callbackAt, work_wheel_, assistant_wheel_, starts, adding>>
      BY <1>1 DEF vars, taskVars, wheelVars, timerVars
    <2> QED BY <1>0, <2>1, PlacesKept, AddingStays
  <1>2. CASE TickStep  BY <1>0, <1>2, TickPlaces
  <1>3. ASSUME NEW w \in Worker, WorkerStep(w) PROVE PlaceInv'
    BY <1>0, <1>3, WorkerPlaces
  <1>4. ASSUME NEW t \in Timer, Start(t) PROVE PlaceInv'
    BY <1>0, <1>4, StartPlaces
  <1>5. ASSUME NEW t \in Timer, UNCHANGED clear, OwnerAdds(t) PROVE PlaceInv'
    <2>1. <<t, task_[t]>> \in Task  BY <1>5, OwnerStepTypes
    <2>2. UNCHANGED <<taskVars, callbackAt, starts>>  BY <1>5 DEF OwnerAdds
    <2> QED BY <1>0, <1>5, <2>1, <2>2, ChoosePlaces, PutPlaces DEF OwnerAdds
  <1>6. ASSUME NEW t \in Timer, Stop(t) PROVE PlaceInv'
    <2>1. UNCHANGED <<task_queue_, job, callbackAt, work_wheel_, assistant_wheel_, starts, adding>>
      BY <1>6 DEF Stop, taskVars, wheelVars
    <2> QED BY <1>0, <2>1, PlacesKept, AddingStays
  <1>7. CASE ClearBegin \/ ClearTasks \/ ClearWheel
    <2>1. UNCHANGED <<task_queue_, job, callbackAt, work_wheel_, assistant_wheel_, starts, adding>>
      BY <1>7 DEF ClearBegin, ClearTasks, ClearWheel, StopTasks, RemoveTask,
                  taskVars, wheelVars, timerVars
    <2> QED BY <1>0, <2>1, PlacesKept, AddingStays
  <1> QED BY <1>1, <1>2, <1>3, <1>4, <1>5, <1>6, <1>7 DEF Next, OwnerStep, ClearStep, Ended

\* No task is anywhere when the wheels are built.
LEMMA PlaceInit == Init => PlaceInv
  <1> SUFFICES ASSUME Init PROVE PlaceInv  OBVIOUS
  <1>0. Init => TypeInv  BY TypeInit
  <1>1. Len(task_queue_) = 0  BY DEF Init, TaskInit
  <1>2. /\ \A b \in DOMAIN work_wheel_ : Len(work_wheel_[b]) = 0
        /\ \A b \in DOMAIN assistant_wheel_ : Len(assistant_wheel_[b]) = 0
    BY DEF Init
  <1>3. \A w \in Worker : job[w] \notin Task  BY Sizes DEF Init, TaskInit
  <1>4. \A k \in Task : ~BeingAdded(k)  BY DEF Init, BeingAdded
  <1>5. \A k \in Task : ~Queued(k) /\ ~Routed(k)  BY <1>1, <1>3 DEF Queued, Occurs, Routed
  <1>6. \A k \in Task : ~OnWheel(work_wheel_, k) /\ ~OnWheel(assistant_wheel_, k)
    BY <1>2 DEF OnWheel, Occurs
  <1>7. Once(task_queue_)  BY <1>1 DEF Once
  <1>8. OnceOn(work_wheel_) /\ OnceOn(assistant_wheel_)  BY <1>2 DEF OnceOn, Once, Occurs
  <1>9. OneRoutine  BY <1>3 DEF OneRoutine
  <1>10. \A k \in Task : Exclusive(k) /\ ~Placed(k)
    BY <1>4, <1>5, <1>6 DEF Exclusive, Placed
  <1> QED BY <1>7, <1>8, <1>9, <1>10 DEF PlaceInv, Created

\* The elements of Places(k), one case for each kind of place.
LEMMA PlaceCases ==
    ASSUME NEW k \in Task, NEW p \in Places(k)
    PROVE  \/ \E i \in Positions(task_queue_, k) : p = <<"queue", i>>
           \/ \E b \in DOMAIN work_wheel_ : \E i \in Positions(work_wheel_[b], k) :
                 p = <<"work", b, i>>
           \/ \E b \in DOMAIN assistant_wheel_ : \E i \in Positions(assistant_wheel_[b], k) :
                 p = <<"assistant", b, i>>
           \/ \E w \in Worker : /\ job[w] = k /\ callbackAt[w] # "add"
                                /\ p = <<"routine", w>>
           \/ BeingAdded(k) /\ p = <<"adding">>
  <1>1. ASSUME NEW name, NEW f, NEW x \in WheelPlaces(name, f, k)
        PROVE  \E b \in DOMAIN f : \E i \in Positions(f[b], k) : x = <<name, b, i>>
    BY Zenon DEF WheelPlaces
  <1> DEFINE Q == {<<"queue", i>> : i \in Positions(task_queue_, k)}
             V == WheelPlaces("work", work_wheel_, k)
             A == WheelPlaces("assistant", assistant_wheel_, k)
             R == {<<"routine", w>> : w \in {v \in Worker : job[v] = k /\ callbackAt[v] # "add"}}
             E == IF adding[k] # NotAdding THEN {<<"adding">>} ELSE {}
  <1>2. p \in Q => \E i \in Positions(task_queue_, k) : p = <<"queue", i>>  BY Zenon
  <1>3. p \in R => \E w \in Worker : /\ job[w] = k /\ callbackAt[w] # "add"
                                     /\ p = <<"routine", w>>
    BY Zenon
  <1>4. p \in E => BeingAdded(k) /\ p = <<"adding">>  BY DEF BeingAdded
  <1>5. Places(k) = Q \cup V \cup A \cup R \cup E  BY DEF Places
  <1> HIDE DEF Q, R, E
  <1>6. p \in Q \/ p \in V \/ p \in A \/ p \in R \/ p \in E  BY <1>5
  <1> QED BY <1>1, <1>2, <1>3, <1>4, <1>6

\* A task in one kind of place, and once in it, is in one place.
LEMMA PlacesAgree ==
    ASSUME PlaceInv, NEW k \in Task, NEW p \in Places(k), NEW q \in Places(k)
    PROVE  p = q
  <1>1. Exclusive(k)  BY DEF PlaceInv
  <1>2. ASSUME NEW x \in Places(k)
        PROVE  /\ Queued(k) => \E i \in Positions(task_queue_, k) : x = <<"queue", i>>
               /\ OnWheel(work_wheel_, k) =>
                    \E b \in DOMAIN work_wheel_ : \E i \in Positions(work_wheel_[b], k) :
                       x = <<"work", b, i>>
               /\ OnWheel(assistant_wheel_, k) =>
                    \E b \in DOMAIN assistant_wheel_ :
                       \E i \in Positions(assistant_wheel_[b], k) : x = <<"assistant", b, i>>
               /\ Routed(k) => \E w \in Worker : /\ job[w] = k /\ callbackAt[w] # "add"
                                                 /\ x = <<"routine", w>>
               /\ BeingAdded(k) => x = <<"adding">>
               /\ Placed(k)
    <2>1. /\ (\E i \in Positions(task_queue_, k) : x = <<"queue", i>>) => Queued(k)
          /\ (\E b \in DOMAIN work_wheel_ : \E i \in Positions(work_wheel_[b], k) :
                 x = <<"work", b, i>>) => OnWheel(work_wheel_, k)
          /\ (\E b \in DOMAIN assistant_wheel_ : \E i \in Positions(assistant_wheel_[b], k) :
                 x = <<"assistant", b, i>>) => OnWheel(assistant_wheel_, k)
          /\ (\E w \in Worker : job[w] = k /\ callbackAt[w] # "add" /\ x = <<"routine", w>>)
               => Routed(k)
      BY DEF Positions, Queued, OnWheel, Occurs, Routed
    <2> QED BY <1>1, <2>1, PlaceCases DEF Exclusive, Placed
  <1>3. Placed(k)  BY <1>2
  <1>4. CASE Queued(k)
    <2>1. PICK i \in Positions(task_queue_, k) : p = <<"queue", i>>  BY <1>2, <1>4
    <2>2. PICK j \in Positions(task_queue_, k) : q = <<"queue", j>>  BY <1>2, <1>4
    <2>3. i = j  BY DEF PlaceInv, Once, Positions
    <2> QED BY <2>1, <2>2, <2>3
  <1>5. CASE OnWheel(work_wheel_, k)
    <2>1. PICK b \in DOMAIN work_wheel_ : \E i \in Positions(work_wheel_[b], k) :
             p = <<"work", b, i>>
      BY <1>2, <1>5
    <2>2. PICK c \in DOMAIN work_wheel_ : \E i \in Positions(work_wheel_[c], k) :
             q = <<"work", c, i>>
      BY <1>2, <1>5
    <2>3. PICK i \in Positions(work_wheel_[b], k) : p = <<"work", b, i>>  BY <2>1
    <2>4. PICK j \in Positions(work_wheel_[c], k) : q = <<"work", c, j>>  BY <2>2
    <2>5. b = c  BY DEF PlaceInv, OnceOn, Positions, Occurs
    <2>6. i = j  BY <2>5 DEF PlaceInv, OnceOn, Once, Positions
    <2> QED BY <2>3, <2>4, <2>5, <2>6
  <1>6. CASE OnWheel(assistant_wheel_, k)
    <2>1. PICK b \in DOMAIN assistant_wheel_ : \E i \in Positions(assistant_wheel_[b], k) :
             p = <<"assistant", b, i>>
      BY <1>2, <1>6
    <2>2. PICK c \in DOMAIN assistant_wheel_ : \E i \in Positions(assistant_wheel_[c], k) :
             q = <<"assistant", c, i>>
      BY <1>2, <1>6
    <2>3. PICK i \in Positions(assistant_wheel_[b], k) : p = <<"assistant", b, i>>  BY <2>1
    <2>4. PICK j \in Positions(assistant_wheel_[c], k) : q = <<"assistant", c, j>>  BY <2>2
    <2>5. b = c  BY DEF PlaceInv, OnceOn, Positions, Occurs
    <2>6. i = j  BY <2>5 DEF PlaceInv, OnceOn, Once, Positions
    <2> QED BY <2>3, <2>4, <2>5, <2>6
  <1>7. CASE Routed(k)
    <2>1. PICK v \in Worker : job[v] = k /\ callbackAt[v] # "add" /\ p = <<"routine", v>>
      BY <1>2, <1>7
    <2>2. PICK w \in Worker : job[w] = k /\ callbackAt[w] # "add" /\ q = <<"routine", w>>
      BY <1>2, <1>7
    <2>3. v = w  BY <2>1, <2>2 DEF PlaceInv, OneRoutine
    <2> QED BY <2>1, <2>2, <2>3
  <1>8. CASE BeingAdded(k)  BY <1>2, <1>8
  <1> QED BY <1>3, <1>4, <1>5, <1>6, <1>7, <1>8 DEF Placed

\* A timer task is in one place: being added, in one bucket, in the queue or
\* with a routine, for every number of timers, starts and routines.  A task is
\* never armed twice, and its callback never runs twice for one firing
\* (TimingWheel::Tick(), AddTask() and Cascade(), TaskManager::Enqueue()).
THEOREM TaskInOnePlace == Spec => []OnePlace
  <1>1. PlaceInv => OnePlace  BY PlacesAgree DEF OnePlace
  <1> QED BY <1>1, PlaceInit, PlaceStep, TypeAlways, PTL DEF Spec

-----------------------------------------------------------------------------
(* The ticks that are left.                                                *)

\* A bucket of the work wheel is d buckets ahead of the current one.
Ahead(b, d) ==
    \/ b = current_work_wheel_index_ + d
    \/ b = current_work_wheel_index_ + d - WORK_WHEEL_SIZE

\* A bucket of the assistant wheel will be distributed after n turns of the
\* work wheel.
TurnsAhead(b, n) ==
    \/ b = current_assistant_wheel_index_ + n
    \/ b = current_assistant_wheel_index_ + n - ASSISTANT_WHEEL_SIZE

\* The ticks until a task in such a bucket fires.  Between the turn of the
\* work wheel and that of the assistant wheel the turn counts as pending.
TicksAhead(k, n) ==
    n * WORK_WHEEL_SIZE + remainder_interval_ms[k]
        - (IF tickAt = "wrap" THEN WORK_WHEEL_SIZE ELSE current_work_wheel_index_)

Turning == {"wrap", "cascade"}

\* While the current bucket is distributed it is 0 turns ahead, and afterwards
\* as many as the wheel has buckets.
Turns == IF tickAt \in {"cascade", "distribute"} THEN 0 .. ASSISTANT_WHEEL_SIZE - 1
                                               ELSE 1 .. ASSISTANT_WHEEL_SIZE

DueAdding(k) ==
    /\ BeingAdded(k) => tickAt \notin Turning
    /\ adding[k].at = "index" =>
         /\ adding[k].index = current_work_wheel_index_ + due[k]
         /\ due[k] \in 1 .. ASSISTANT_WHEEL_SIZE * WORK_WHEEL_SIZE
    /\ adding[k].at = "work" =>
         due[k] \in 1 .. WORK_WHEEL_SIZE - 1 /\ Ahead(adding[k].index, due[k])
    /\ adding[k].at = "assistant" =>
         /\ adding[k].index \in 1 .. ASSISTANT_WHEEL_SIZE
         /\ due[k] = TicksAhead(k, adding[k].index)

DueWork(k) ==
    \A b \in WorkIndex : Occurs(work_wheel_[b], k) =>
        /\ due[k] \in 0 .. WORK_WHEEL_SIZE - 1
        /\ Ahead(b, due[k])
        /\ tickAt = "sleep" => due[k] # 0

DueAssistant(k) ==
    \A b \in AssistantRange : Occurs(assistant_wheel_[b], k) =>
        \E n \in Turns : TurnsAhead(b, n) /\ due[k] = TicksAhead(k, n)

Due(k) == DueAdding(k) /\ DueWork(k) /\ DueAssistant(k)

\* A task that is alive and whose AddTask() met no tick is due as its places
\* say.
DueInv ==
    /\ due \in [Task -> Int] /\ raced \in [Task -> BOOLEAN]
    /\ tickAt \in {"wrap", "cascade", "distribute"} => current_work_wheel_index_ = 0
    /\ \A k \in Task : Alive(k) /\ ~raced[k] => Due(k)

\* A task whose AddTask() met no tick is handed over when no tick is left.
OnTime == \A k \in Task : HandsOver(k) /\ ~raced[k] => due[k] = 0

\* Division with remainder, the one fact about \div and % that the wheels need.
LEMMA DivMod ==
    ASSUME NEW a \in Nat, NEW d \in Nat \ {0}
    PROVE  /\ a = d * (a \div d) + (a % d)
           /\ a % d \in 0 .. d - 1
           /\ a \div d \in Nat
  <1>1. a = d * (a \div d) + (a % d)  OBVIOUS
  <1>2. a % d \in 0 .. d - 1  OBVIOUS
  <1>3. a \div d \in Nat  OBVIOUS
  <1> QED BY <1>1, <1>2, <1>3

\* A quotient is bounded by what its dividend is below.
LEMMA DivBound ==
    ASSUME NEW a \in Nat, NEW d \in Nat \ {0}, NEW m \in Nat, a < (m + 1) * d
    PROVE  a \div d <= m
  <1> DEFINE q == a \div d
  <1>1. q \in Nat /\ d * q <= a  BY DivMod
  <1> HIDE DEF q
  <1>2. SUFFICES ASSUME q >= m + 1 PROVE FALSE  BY <1>1 DEF q
  <1>3. d * q >= (m + 1) * d  BY <1>1, <1>2
  <1> QED BY <1>1, <1>3

\* The remainder of a number below two turns of the wheel.
LEMMA ModOnce ==
    ASSUME NEW s \in Nat, NEW d \in Nat \ {0}, s < 2 * d
    PROVE  s % d = IF s < d THEN s ELSE s - d
  <1> DEFINE q == s \div d
             r == s % d
  <1>1. s = d * q + r /\ r \in 0 .. d - 1 /\ q \in Nat  BY DivMod
  <1>2. q <= 1  BY DivBound
  <1> HIDE DEF q, r
  <1>3. r = IF s < d THEN s ELSE s - d
    <2>1. CASE q = 0  BY <1>1, <2>1
    <2>2. CASE q = 1  BY <1>1, <2>2
    <2> QED BY <1>1, <1>2, <2>1, <2>2
  <1> QED BY <1>3 DEF r

\* A duration that InitTimerTask() accepts is at least one tick, and at most
\* as many as the two wheels together have.
LEMMA TicksRange ==
    ASSUME NEW ms \in Nat, ms > 0, ms < TIMER_MAX_INTERVAL_MS
    PROVE  Ticks(ms) \in 1 .. ASSISTANT_WHEEL_SIZE * WORK_WHEEL_SIZE
  <1> DEFINE R == TIMER_RESOLUTION_MS
             m == ASSISTANT_WHEEL_SIZE * WORK_WHEEL_SIZE
             a == ms + R - 1
             q == a \div R
  <1>1. R \in Nat \ {0} /\ m \in Nat  BY Sizes
  <1>2. a \in Nat /\ a >= R  BY <1>1
  <1>3. ms < m * R  BY Sizes DEF TIMER_MAX_INTERVAL_MS
  <1> HIDE DEF m
  <1>4. m * R \in Nat /\ (m + 1) * R = m * R + R  BY <1>1
  <1>5. a < (m + 1) * R  BY <1>1, <1>3, <1>4
  <1> HIDE DEF R, a
  <1>6. q <= m  BY <1>1, <1>2, <1>5, DivBound
  <1>7. a = R * q + (a % R) /\ a % R \in 0 .. R - 1 /\ q \in Nat  BY <1>1, <1>2, DivMod
  <1>8. q # 0
    <2>1. SUFFICES ASSUME q = 0 PROVE FALSE  OBVIOUS
    <2>2. R * q = 0  BY <1>1, <2>1
    <2> HIDE DEF q
    <2> QED BY <1>1, <1>2, <1>7, <2>2
  <1> QED BY <1>1, <1>6, <1>7, <1>8 DEF q, a, R, m, Ticks

-----------------------------------------------------------------------------
(* Who is alive.                                                           *)

LEMMA AliveStays ==
    ASSUME UNCHANGED <<task_, tickTask, job, callbackAt>>
    PROVE  \A j \in Task : Alive(j)' = Alive(j)
  BY DEF Alive, HeldByTimer

\* A step of a routine brings no task back to life.
LEMMA RoutineAlive ==
    ASSUME NEW w \in Worker, UNCHANGED <<task_, tickTask>>, NEW j \in Task,
           \A v \in Worker : v # w => job'[v] = job[v] /\ callbackAt'[v] = callbackAt[v],
           job'[w] = j /\ callbackAt'[w] \in {"locked", "callback", "add"} => Alive(j),
           Alive(j)'
    PROVE  Alive(j)
  <1>1. CASE HeldByTimer(j)' \/ (tickTask = j)'  BY <1>1 DEF Alive, HeldByTimer
  <1>2. CASE \E v \in Worker : job'[v] = j /\ callbackAt'[v] \in {"locked", "callback", "add"}
    BY <1>2 DEF Alive
  <1> QED BY <1>1, <1>2 DEF Alive

-----------------------------------------------------------------------------
(* The steps that keep the ticks of a task.                                *)

Calm == {"off", "loop", "tick", "notify", "sleep"}

\* A task keeps its ticks while the tick thread does not turn a wheel.
LEMMA DueStays ==
    ASSUME TypeInv, TypeInv', NEW j \in Task, Due(j), due[j] \in Int,
           adding'[j] = adding[j], due'[j] = due[j],
           remainder_interval_ms'[j] = remainder_interval_ms[j],
           UNCHANGED <<current_work_wheel_index_, current_assistant_wheel_index_>>,
           \A b \in WorkIndex : Occurs(work_wheel_'[b], j) => Occurs(work_wheel_[b], j),
           \A b \in AssistantRange :
               Occurs(assistant_wheel_'[b], j) => Occurs(assistant_wheel_[b], j),
           \/ tickAt' = tickAt
           \/ /\ tickAt \in Calm /\ tickAt' \in Calm
              /\ tickAt' = "sleep" => ~Occurs(work_wheel_'[current_work_wheel_index_], j)
    PROVE  Due(j)'
  <1>1. /\ (tickAt' = "wrap") = (tickAt = "wrap") /\ Turns' = Turns
        /\ (tickAt' \in Turning) = (tickAt \in Turning)
    BY DEF Calm, Turning, Turns
  <1>2. \A n : TicksAhead(j, n)' = TicksAhead(j, n)  BY <1>1 DEF TicksAhead
  <1>3. \A b, n : /\ TurnsAhead(b, n)' = TurnsAhead(b, n)
                  /\ Ahead(b, n)' = Ahead(b, n)
    BY DEF TurnsAhead, Ahead
  <1>4. DueAdding(j)'  BY <1>1, <1>2, <1>3 DEF Due, DueAdding, BeingAdded
  <1>5. DueAssistant(j)'  BY <1>1, <1>2, <1>3 DEF Due, DueAssistant
  <1>6. DueWork(j)'
    <2> SUFFICES ASSUME NEW b \in WorkIndex, Occurs(work_wheel_'[b], j)
                 PROVE  /\ due'[j] \in 0 .. WORK_WHEEL_SIZE - 1
                        /\ Ahead(b, due[j])'
                        /\ tickAt' = "sleep" => due'[j] # 0
      BY DEF DueWork
    <2>1. /\ due[j] \in 0 .. WORK_WHEEL_SIZE - 1 /\ Ahead(b, due[j])
          /\ tickAt = "sleep" => due[j] # 0
      BY DEF Due, DueWork
    <2>2. Ahead(b, due[j])'
      BY <2>1 DEF Ahead
    <2>3. tickAt' = "sleep" => due'[j] # 0
      <3> SUFFICES ASSUME tickAt' = "sleep", due[j] = 0 PROVE FALSE  OBVIOUS
      <3>1. b = current_work_wheel_index_
        BY <2>1, Sizes DEF Ahead, TypeInv, WheelTypes, WorkIndex
      <3> QED BY <2>1, <3>1
    <2> QED BY <2>1, <2>2, <2>3
  <1> QED BY <1>4, <1>5, <1>6 DEF Due

\* A step that leaves the wheels and AddTask() alone.
LEMMA DueKept ==
    ASSUME TypeInv, TypeInv', DueInv,
           UNCHANGED <<adding, due, raced, remainder_interval_ms, work_wheel_,
                       assistant_wheel_, current_work_wheel_index_,
                       current_assistant_wheel_index_, tickAt>>,
           \A j \in Task : Alive(j)' => Alive(j)
    PROVE  DueInv'
  <1>1. ASSUME NEW j \in Task, Alive(j)', ~raced'[j] PROVE Due(j)'
    <2>1. Due(j) /\ due[j] \in Int  BY <1>1 DEF DueInv
    <2> QED BY <2>1, DueStays
  <1> QED BY <1>1 DEF DueInv

-----------------------------------------------------------------------------
(* AddTask() and the ticks.                                                *)

LEMMA BeginDue ==
    ASSUME TypeInv, TypeInv', DueInv, PlaceInv', NEW k \in Task, NEW ms \in Nat,
           ms > 0, ms < TIMER_MAX_INTERVAL_MS, AddTaskBegin(k, ms),
           running_ \/ tickAt = "off",
           \A j \in Task : j # k /\ Alive(j)' => Alive(j)
    PROVE  DueInv'
  <1> DEFINE c == current_work_wheel_index_
             n == Ticks(ms)
  <1>1. /\ UNCHANGED <<work_wheel_, assistant_wheel_, c, current_assistant_wheel_index_,
                       remainder_interval_ms>>
        /\ adding' = [adding EXCEPT ![k] = [at |-> "index", overtaken |-> 0, index |-> c + n]]
        /\ due' = [due EXCEPT ![k] = n]
        /\ raced' = [raced EXCEPT ![k] = tickAt \in Turning]
    BY DEF AddTaskBegin, Turning
  <1>2. tickAt' = tickAt \/ (tickAt = "off" /\ tickAt' = "loop")  BY DEF AddTaskBegin
  <1>3. n \in 1 .. ASSISTANT_WHEEL_SIZE * WORK_WHEEL_SIZE /\ n \in Int
    BY TicksRange, Sizes
  <1> HIDE DEF n
  <1>4. due' \in [Task -> Int] /\ raced' \in [Task -> BOOLEAN]  BY <1>1, <1>3 DEF DueInv
  <1>5. tickAt' \in {"wrap", "cascade", "distribute"} => c' = 0  BY <1>1, <1>2 DEF DueInv
  <1>6. ASSUME NEW j \in Task, j # k, Alive(j)', ~raced'[j] PROVE Due(j)'
    <2>1. adding'[j] = adding[j] /\ due'[j] = due[j] /\ raced'[j] = raced[j]
      BY <1>1, <1>6 DEF DueInv, TypeInv, AddTypes
    <2>2. Due(j) /\ due[j] \in Int  BY <1>6, <2>1 DEF DueInv
    <2>3. \/ tickAt' = tickAt
          \/ /\ tickAt \in Calm /\ tickAt' \in Calm
             /\ tickAt' # "sleep"
      BY <1>2 DEF Calm
    <2> QED BY <1>1, <2>1, <2>2, <2>3, DueStays
  <1>7. ASSUME ~raced'[k] PROVE Due(k)'
    <2>1. /\ adding'[k] = [at |-> "index", overtaken |-> 0, index |-> c + n]
          /\ due'[k] = n /\ raced'[k] = (tickAt \in Turning)
      BY <1>1 DEF DueInv, TypeInv, AddTypes
    <2>2. BeingAdded(k)'  BY <2>1 DEF BeingAdded, NotAdding
    <2>3. ~OnWheel(work_wheel_, k)' /\ ~OnWheel(assistant_wheel_, k)'
      BY <2>2 DEF PlaceInv, Exclusive
    <2>4. DueWork(k)' /\ DueAssistant(k)'
      BY <2>3 DEF DueWork, DueAssistant, OnWheel, TypeInv, WheelTypes
    <2>5. tickAt' \notin Turning  BY <1>2, <1>7, <2>1 DEF Turning
    <2>6. DueAdding(k)'  BY <1>1, <1>3, <2>1, <2>5 DEF DueAdding
    <2> QED BY <2>4, <2>6 DEF Due
  <1> QED BY <1>4, <1>5, <1>6, <1>7 DEF DueInv

\* The index that is n ticks ahead, split into turns and a bucket.
LEMMA ChooseArith ==
    ASSUME NEW W \in Nat \ {0}, NEW A \in Nat \ {0}, NEW c \in 0 .. W - 1,
           NEW n \in 1 .. A * W, NEW i \in Nat, i = c + n, i >= W
    PROVE  /\ i \div W \in 1 .. A
           /\ n = (i \div W) * W + (i % W) - c
           /\ i \div W = 1 /\ i % W < c => /\ n \in 1 .. W - 1
                                           /\ i % W = c + n - W
  <1> DEFINE q == i \div W
             r == i % W
  <1>1. i = W * q + r /\ r \in 0 .. W - 1 /\ q \in Nat  BY DivMod
  <1>2. A * W \in Nat /\ (A + 1) * W = A * W + W  OBVIOUS
  <1>3. i < (A + 1) * W  BY <1>2
  <1>4. q <= A  BY <1>3, DivBound
  <1> HIDE DEF q, r
  <1>5. q # 0
    <2> SUFFICES ASSUME q = 0 PROVE FALSE  OBVIOUS
    <2>1. W * q = 0  OBVIOUS
    <2> QED BY <1>1, <2>1
  <1>6. W * q = q * W /\ q * W \in Nat  BY <1>1
  <1>7. n = q * W + r - c  BY <1>1, <1>2, <1>6
  <1>8. ASSUME q = 1, r < c PROVE n \in 1 .. W - 1 /\ r = c + n - W
    <2>1. q * W = W  BY <1>8
    <2> QED BY <1>1, <1>2, <1>7, <1>8, <2>1
  <1> QED BY <1>1, <1>4, <1>5, <1>7, <1>8 DEF q, r

\* AddTask()'s choice of a bucket from the duration agrees with the ticks left.
LEMMA ChooseDue ==
    ASSUME TypeInv, TypeInv', DueInv, PlaceInv, NEW k \in Task, AddTaskChoose(k),
           UNCHANGED <<task_, job, callbackAt>>
    PROVE  DueInv'
  <1> DEFINE c == current_work_wheel_index_
             i == adding[k].index
             r == i % WORK_WHEEL_SIZE
             q == i \div WORK_WHEEL_SIZE
  <1>1. /\ UNCHANGED <<work_wheel_, assistant_wheel_, c, current_assistant_wheel_index_,
                       tickAt, tickTask, due, raced>>
        /\ adding[k].at = "index"
    BY DEF AddTaskChoose, wheelVars
  <1>2. \A j \in Task : Alive(j)' = Alive(j)  BY <1>1, AliveStays
  <1>3. ASSUME NEW j \in Task, j # k, Alive(j)', ~raced'[j] PROVE Due(j)'
    <2>1. /\ adding'[j] = adding[j]
          /\ remainder_interval_ms'[j] = remainder_interval_ms[j]
      BY <1>3 DEF AddTaskChoose, TypeInv, AddTypes
    <2>2. Due(j) /\ due[j] \in Int  BY <1>1, <1>2, <1>3 DEF DueInv
    <2> QED BY <1>1, <2>1, <2>2, DueStays
  <1>4. ASSUME Alive(k)', ~raced'[k] PROVE Due(k)'
    <2>1. DueAdding(k)  BY <1>1, <1>2, <1>4 DEF DueInv, Due
    <2>2. BeingAdded(k)  BY <1>1 DEF BeingAdded, NotAdding
    <2>3. /\ i = c + due[k] /\ due[k] \in 1 .. ASSISTANT_WHEEL_SIZE * WORK_WHEEL_SIZE
          /\ tickAt \notin Turning
      BY <1>1, <2>1, <2>2 DEF DueAdding
    <2>4. i \in Nat /\ c \in WorkIndex /\ adding \in [Task -> Adding]
          /\ remainder_interval_ms \in [Task -> WorkIndex]
      BY DEF TypeInv, AddTypes, Adding, WheelTypes
    <2>5. DueWork(k)' /\ DueAssistant(k)'
      <3>1. ~OnWheel(work_wheel_, k) /\ ~OnWheel(assistant_wheel_, k)
        BY <2>2 DEF PlaceInv, Exclusive
      <3> QED BY <1>1, <3>1 DEF DueWork, DueAssistant, OnWheel, TypeInv, WheelTypes
    <2>6. tickAt' \notin Turning /\ due'[k] = due[k] /\ c' = c  BY <1>1, <2>3
    <2>7. CASE i < WORK_WHEEL_SIZE /\ adding' = [adding EXCEPT ![k].at = "work"]
      <3>1. adding'[k].at = "work" /\ adding'[k].index = i  BY <2>4, <2>7 DEF Adding
      <3>2. due[k] \in 1 .. WORK_WHEEL_SIZE - 1  BY <2>3, <2>4, <2>7, Sizes DEF WorkIndex
      <3>3. DueAdding(k)'  BY <2>3, <2>6, <3>1, <3>2 DEF DueAdding, Ahead
      <3> QED BY <2>5, <3>3 DEF Due
    <2>8. CASE i >= WORK_WHEEL_SIZE
      <3>1. /\ q \in 1 .. ASSISTANT_WHEEL_SIZE
            /\ due[k] = q * WORK_WHEEL_SIZE + r - c
            /\ q = 1 /\ r < c => /\ due[k] \in 1 .. WORK_WHEEL_SIZE - 1
                                 /\ r = c + due[k] - WORK_WHEEL_SIZE
        <4> DEFINE n == due[k]
        <4>1. n \in 1 .. ASSISTANT_WHEEL_SIZE * WORK_WHEEL_SIZE /\ i = c + n  BY <2>3
        <4>2. c \in 0 .. WORK_WHEEL_SIZE - 1 /\ i \in Nat /\ i >= WORK_WHEEL_SIZE
          BY <2>4, <2>8 DEF WorkIndex
        <4> HIDE DEF n, i, c
        <4>3. /\ i \div WORK_WHEEL_SIZE \in 1 .. ASSISTANT_WHEEL_SIZE
              /\ n = (i \div WORK_WHEEL_SIZE) * WORK_WHEEL_SIZE + (i % WORK_WHEEL_SIZE) - c
              /\ i \div WORK_WHEEL_SIZE = 1 /\ i % WORK_WHEEL_SIZE < c =>
                    /\ n \in 1 .. WORK_WHEEL_SIZE - 1
                    /\ i % WORK_WHEEL_SIZE = c + n - WORK_WHEEL_SIZE
          BY <4>1, <4>2, Sizes, ChooseArith
        <4> QED BY <4>3 DEF n
      <3>2. remainder_interval_ms' = [remainder_interval_ms EXCEPT ![k] = r]
        BY <2>4, <2>8, Sizes DEF AddTaskChoose, GetWorkWheelIndex
      <3>3. remainder_interval_ms'[k] = r  BY <2>4, <3>2
      <3>4. adding' = IF q = 1 /\ r < c
                        THEN [adding EXCEPT ![k].at = "work", ![k].index = r]
                        ELSE [adding EXCEPT ![k].at = "assistant", ![k].index = q]
        BY <2>4, <2>8, Sizes DEF AddTaskChoose, GetWorkWheelIndex
      <3>5. CASE q = 1 /\ r < c
        <4>1. adding'[k].at = "work" /\ adding'[k].index = r  BY <2>4, <3>4, <3>5 DEF Adding
        <4>2. DueAdding(k)'  BY <2>6, <3>1, <3>5, <4>1 DEF DueAdding, Ahead
        <4> QED BY <2>5, <4>2 DEF Due
      <3>6. CASE ~(q = 1 /\ r < c)
        <4>1. adding'[k].at = "assistant" /\ adding'[k].index = q
          BY <2>4, <3>4, <3>6 DEF Adding
        <4>2. tickAt' # "wrap"  BY <2>6 DEF Turning
        <4>3. DueAdding(k)'  BY <2>6, <3>1, <3>3, <4>1, <4>2 DEF DueAdding, TicksAhead
        <4> QED BY <2>5, <4>3 DEF Due
      <3> QED BY <3>5, <3>6
    <2> QED BY <2>4, <2>7, <2>8, Sizes DEF AddTaskChoose
  <1> QED BY <1>1, <1>3, <1>4 DEF DueInv

\* A task goes into the bucket that its ticks left name, unless the tick
\* thread has passed it.
LEMMA PutDue ==
    ASSUME TypeInv, TypeInv', DueInv, PlaceInv, NEW k \in Task, AddTaskPut(k),
           UNCHANGED <<task_, job, callbackAt>>
    PROVE  DueInv'
  <1> DEFINE c == current_work_wheel_index_
             a == current_assistant_wheel_index_
  <1>1. /\ UNCHANGED <<c, a, tickAt, tickTask, due, raced, remainder_interval_ms>>
        /\ adding' = [adding EXCEPT ![k] = NotAdding]
    BY DEF AddTaskPut
  <1>2. \A j \in Task : Alive(j)' = Alive(j)  BY <1>1, AliveStays
  <1>3. BeingAdded(k) /\ adding[k].at # "no"  BY DEF AddTaskPut, BeingAdded, NotAdding
  <1>4. ~OnWheel(work_wheel_, k) /\ ~OnWheel(assistant_wheel_, k)
    BY <1>3 DEF PlaceInv, Exclusive
  <1>5. /\ \A b \in WorkIndex : ~Occurs(work_wheel_[b], k)
        /\ \A b \in AssistantRange : ~Occurs(assistant_wheel_[b], k)
    BY <1>4 DEF OnWheel, TypeInv, WheelTypes
  <1>6. adding'[k] = NotAdding /\ \A j \in Task : j # k => adding'[j] = adding[j]
    BY <1>1 DEF TypeInv, AddTypes
  <1>7. DueAdding(k)'  BY <1>6 DEF DueAdding, BeingAdded, NotAdding
  <1>8. Alive(k)' /\ ~raced'[k] => DueAdding(k)  BY <1>1, <1>2 DEF DueInv, Due
  <1>9. CASE /\ adding[k].at = "work"
             /\ work_wheel_' = [work_wheel_ EXCEPT ![adding[k].index] = Append(@, k)]
             /\ UNCHANGED assistant_wheel_
    <2> DEFINE i == adding[k].index
               f == work_wheel_
               g == work_wheel_'
    <2>1. i \in WorkIndex /\ f \in [WorkIndex -> Seq(Task)]
      BY <1>9 DEF TypeInv, AddTypes, WheelTypes
    <2>2. /\ g \in [WorkIndex -> Seq(Task)] /\ g[i] = Append(f[i], k)
          /\ \A b \in WorkIndex : b # i => g[b] = f[b]
      BY <1>9, <2>1 DEF TypeInv, WheelTypes
    <2>4. \A b \in WorkIndex : \A j : Occurs(g[b], j) <=> Occurs(f[b], j) \/ (b = i /\ j = k)
      <3>1. f[i] \in Seq(Task)  BY <2>1
      <3> HIDE DEF f, g, i
      <3>2. \A j : Occurs(Append(f[i], k), j) <=> Occurs(f[i], j) \/ j = k
        BY <3>1, OnceAppend
      <3> QED BY <2>2, <3>2
    <2>5. ASSUME NEW j \in Task, j # k, Alive(j)', ~raced'[j] PROVE Due(j)'
      <3>1. Due(j) /\ due[j] \in Int  BY <1>1, <1>2, <2>5 DEF DueInv
      <3>2. \A b \in WorkIndex : Occurs(g[b], j) => Occurs(f[b], j)  BY <2>4, <2>5
      <3> QED BY <1>1, <1>6, <1>9, <2>5, <3>1, <3>2, DueStays
    <2>6. ASSUME Alive(k)', ~raced'[k] PROVE Due(k)'
      <3>1. due[k] \in 1 .. WORK_WHEEL_SIZE - 1 /\ Ahead(i, due[k])
        BY <1>8, <1>9, <2>6 DEF DueAdding
      <3>2. \A b \in WorkIndex : Occurs(g[b], k) => b = i  BY <1>5, <2>4
      <3>3. DueWork(k)'
        <4> SUFFICES ASSUME NEW b \in WorkIndex, Occurs(g[b], k)
                     PROVE  /\ due'[k] \in 0 .. WORK_WHEEL_SIZE - 1
                            /\ Ahead(b, due[k])'
                            /\ tickAt' = "sleep" => due'[k] # 0
          BY DEF DueWork
        <4>1. b = i  BY <3>2
        <4>2. Ahead(b, due[k])'  BY <1>1, <3>1, <4>1 DEF Ahead
        <4>3. due'[k] \in 0 .. WORK_WHEEL_SIZE - 1 /\ due'[k] # 0  BY <1>1, <3>1, Sizes
        <4> QED BY <4>2, <4>3
      <3>4. DueAssistant(k)'  BY <1>5, <1>9 DEF DueAssistant
      <3> QED BY <1>7, <3>3, <3>4 DEF Due
    <2> QED BY <1>1, <2>5, <2>6 DEF DueInv
  <1>10. CASE /\ adding[k].at = "assistant"
              /\ ~(tickAt = "distribute" /\ AssistantIndex(k) = a)
              /\ assistant_wheel_' = [assistant_wheel_ EXCEPT ![AssistantIndex(k)] = Append(@, k)]
              /\ UNCHANGED work_wheel_
    <2> DEFINE i == AssistantIndex(k)
               f == assistant_wheel_
               g == assistant_wheel_'
    <2>1. i \in AssistantRange /\ f \in [AssistantRange -> Seq(Task)]
      BY AssistantIndexType DEF TypeInv, WheelTypes
    <2>2. /\ g \in [AssistantRange -> Seq(Task)] /\ g[i] = Append(f[i], k)
          /\ \A b \in AssistantRange : b # i => g[b] = f[b]
      BY <1>10, <2>1 DEF TypeInv, WheelTypes
    <2>4. \A b \in AssistantRange : \A j : Occurs(g[b], j) <=> Occurs(f[b], j) \/ (b = i /\ j = k)
      <3>1. f[i] \in Seq(Task)  BY <2>1
      <3> HIDE DEF f, g, i
      <3>2. \A j : Occurs(Append(f[i], k), j) <=> Occurs(f[i], j) \/ j = k
        BY <3>1, OnceAppend
      <3> QED BY <2>2, <3>2
    <2>5. ASSUME NEW j \in Task, j # k, Alive(j)', ~raced'[j] PROVE Due(j)'
      <3>1. Due(j) /\ due[j] \in Int  BY <1>1, <1>2, <2>5 DEF DueInv
      <3>2. \A b \in AssistantRange : Occurs(g[b], j) => Occurs(f[b], j)  BY <2>4, <2>5
      <3> QED BY <1>1, <1>6, <1>10, <2>5, <3>1, <3>2, DueStays
    <2>6. ASSUME Alive(k)', ~raced'[k] PROVE Due(k)'
      <3>1. PICK n \in 1 .. ASSISTANT_WHEEL_SIZE : n = adding[k].index
        BY <1>8, <1>10, <2>6 DEF DueAdding
      <3>2. due[k] = TicksAhead(k, n) /\ tickAt \notin Turning
        BY <1>3, <1>8, <1>10, <2>6, <3>1 DEF DueAdding
      <3>3. a \in 0 .. ASSISTANT_WHEEL_SIZE - 1  BY DEF TypeInv, WheelTypes, AssistantRange
      <3>4. a + n \in Nat /\ a + n < 2 * ASSISTANT_WHEEL_SIZE  BY <3>3, Sizes
      <3>5. i = (a + n) % ASSISTANT_WHEEL_SIZE
        BY <3>1 DEF AssistantIndex, GetAssistantWheelIndex
      <3>6. i = IF a + n < ASSISTANT_WHEEL_SIZE THEN a + n ELSE a + n - ASSISTANT_WHEEL_SIZE
        <4>0. PICK m \in Nat : m = a + n  BY <3>4
        <4>1. m \in Nat /\ m < 2 * ASSISTANT_WHEEL_SIZE  BY <3>4, <4>0
        <4>2. m % ASSISTANT_WHEEL_SIZE =
                IF m < ASSISTANT_WHEEL_SIZE THEN m ELSE m - ASSISTANT_WHEEL_SIZE
          BY <4>1, Sizes, ModOnce
        <4>3. i = m % ASSISTANT_WHEEL_SIZE  BY <3>5, <4>0
        <4> HIDE DEF i, a
        <4>4. i = IF m < ASSISTANT_WHEEL_SIZE THEN m ELSE m - ASSISTANT_WHEEL_SIZE
          BY <4>2, <4>3, Zenon
        <4> QED BY <3>3, <4>0, <4>4, Sizes
      <3>7. TurnsAhead(i, n)  BY <3>6 DEF TurnsAhead
      <3>8. n \in Turns
        <4>1. tickAt = "distribute" => n # ASSISTANT_WHEEL_SIZE  BY <1>10, <3>3, <3>6, Sizes
        <4> QED BY <3>2, <4>1, Sizes DEF Turns, Turning
      <3>9. \A b \in AssistantRange : Occurs(g[b], k) => b = i  BY <1>5, <2>4
      <3>10. DueAssistant(k)'
        <4> SUFFICES ASSUME NEW b \in AssistantRange, Occurs(g[b], k)
                     PROVE  \E m \in Turns' : TurnsAhead(b, m)' /\ due'[k] = TicksAhead(k, m)'
          BY DEF DueAssistant
        <4>1. b = i  BY <3>9
        <4>2. n \in Turns' /\ TicksAhead(k, n)' = TicksAhead(k, n)
          BY <1>1, <3>8 DEF Turns, TicksAhead
        <4>3. TurnsAhead(b, n)'  BY <1>1, <3>7, <4>1 DEF TurnsAhead
        <4> QED BY <1>1, <3>2, <4>2, <4>3
      <3>11. DueWork(k)'  BY <1>5, <1>10 DEF DueWork
      <3> QED BY <1>7, <3>10, <3>11 DEF Due
    <2> QED BY <1>1, <2>5, <2>6 DEF DueInv
  <1> QED BY <1>9, <1>10 DEF AddTaskPut

-----------------------------------------------------------------------------
(* The tick thread and the ticks.                                          *)

\* A wheel f has lost the task k from bucket b, and is now g.
Loses(D, f, g, b, k) ==
    /\ Occurs(f[b], k)
    /\ \A c \in D : ~Occurs(g[c], k)
    /\ \A c \in D, j \in Task : Occurs(g[c], j) => Occurs(f[c], j)

\* That is what erasing the head of a bucket does.
LEMMA LostHead ==
    ASSUME NEW D, NEW f \in [D -> Seq(Task)], OnceOn(f), NEW b \in D, f[b] # <<>>,
           NEW k \in Task, k = Head(f[b]),
           NEW g \in [D -> Seq(Task)], g[b] = Tail(f[b]), \A c \in D : c # b => g[c] = f[c]
    PROVE  Loses(D, f, g, b, k)
  <1>1. f[b] \in Seq(Task) /\ Once(f[b]) /\ DOMAIN f = D  BY DEF OnceOn
  <1>2. /\ Occurs(f[b], Head(f[b]))
        /\ \A j : Occurs(Tail(f[b]), j) <=> Occurs(f[b], j) /\ j # Head(f[b])
    BY <1>1, OnceTail
  <1>3. /\ Occurs(f[b], k)
        /\ \A j : Occurs(g[b], j) <=> Occurs(f[b], j) /\ j # k
    BY <1>2
  <1>4. ASSUME NEW c \in D PROVE ~Occurs(g[c], k)
    <2>1. CASE c = b  BY <1>3, <2>1
    <2>2. CASE c # b
      <3>1. g[c] = f[c]  BY <2>2
      <3>2. ~Occurs(f[c], k)  BY <1>1, <1>3, <2>2 DEF OnceOn
      <3> QED BY <3>1, <3>2
    <2> QED BY <2>1, <2>2
  <1>5. ASSUME NEW c \in D, NEW j \in Task, Occurs(g[c], j) PROVE Occurs(f[c], j)
    <2>1. CASE c = b  BY <1>3, <1>5, <2>1
    <2>2. CASE c # b  BY <1>5, <2>2
    <2> QED BY <2>1, <2>2
  <1> QED BY <1>3, <1>4, <1>5 DEF Loses

\* An empty bucket has nothing.
LEMMA EmptyBucket == \A j : ~Occurs(<<>>, j)
  <1>1. Len(<<>>) = 0  OBVIOUS
  <1> QED BY <1>1 DEF Occurs

\* The tick between two entries leaves every bucket due as it was.
LEMMA LoopDue ==
    ASSUME TypeInv, TypeInv', DueInv, TickLoop \/ TickNotify
    PROVE  DueInv'
  <1>1. UNCHANGED <<adding, due, raced, remainder_interval_ms, work_wheel_, assistant_wheel_,
                    current_work_wheel_index_, current_assistant_wheel_index_, task_, job,
                    callbackAt>>
    BY DEF TickLoop, TickNotify, NotifyTask, timerVars, taskVars
  <1>2. /\ tickAt \in Calm /\ tickAt' \in Calm
        /\ tickAt' = "sleep" => WorkBucket = <<>>
    BY DEF TickLoop, TickNotify, TickOn, Calm
  <1>3. ASSUME NEW j \in Task, Alive(j)' PROVE Alive(j)
    <2>1. tickTask' = tickTask \/ tickTask' = NoJob  BY DEF TickLoop, TickNotify
    <2>2. NoJob # j  BY Sizes
    <2> QED BY <1>1, <1>3, <2>1, <2>2 DEF Alive, HeldByTimer
  <1>4. ASSUME NEW j \in Task, Alive(j)', ~raced'[j] PROVE Due(j)'
    <2>1. Due(j) /\ due[j] \in Int  BY <1>1, <1>3, <1>4 DEF DueInv
    <2>2. tickAt' = "sleep" => ~Occurs(work_wheel_'[current_work_wheel_index_], j)
      BY <1>1, <1>2, EmptyBucket DEF WorkBucket
    <2> QED BY <1>1, <1>2, <2>1, <2>2, DueStays
  <1> QED BY <1>1, <1>2, <1>4 DEF DueInv, Calm

\* A task is handed over when none of its ticks is left.
LEMMA HeadIsDue ==
    ASSUME TypeInv, DueInv, PlaceInv, TickEntry, NEW k \in Task, k = Head(WorkBucket),
           Alive(k), ~raced[k]
    PROVE  due[k] = 0
  <1> DEFINE b == current_work_wheel_index_
  <1>1. b \in WorkIndex /\ work_wheel_[b] \in Seq(Task) /\ WorkBucket = work_wheel_[b]
        /\ WorkBucket # <<>>
    BY DEF TickEntry, TypeInv, WheelTypes, WorkBucket
  <1>2. Once(work_wheel_[b])  BY <1>1 DEF PlaceInv, OnceOn, TypeInv, WheelTypes
  <1>3. Occurs(work_wheel_[b], k)  BY <1>1, <1>2, OnceTail
  <1>4. due[k] \in 0 .. WORK_WHEEL_SIZE - 1 /\ Ahead(b, due[k])
    BY <1>1, <1>3 DEF DueInv, Due, DueWork
  <1> QED BY <1>1, <1>4, Sizes DEF Ahead, WorkIndex

\* The tick takes tasks out of the bucket that is due now.
LEMMA EntryDue ==
    ASSUME TypeInv, TypeInv', DueInv, PlaceInv, TickEntry
    PROVE  DueInv'
  <1> DEFINE b == current_work_wheel_index_
             f == work_wheel_
             g == work_wheel_'
  <1>0. PICK k \in Task : k = Head(WorkBucket)
    BY HeadTail DEF TickEntry, TypeInv, WheelTypes, WorkBucket
  <1>1. /\ b \in WorkIndex /\ f \in [WorkIndex -> Seq(Task)]
        /\ WorkBucket = f[b] /\ f[b] # <<>> /\ k = Head(f[b])
    BY <1>0 DEF TickEntry, TypeInv, WheelTypes, WorkBucket
  <1>2. /\ g \in [WorkIndex -> Seq(Task)] /\ g[b] = Tail(f[b])
        /\ \A c \in WorkIndex : c # b => g[c] = f[c]
    BY <1>1 DEF TickEntry, TypeInv, WheelTypes
  <1>3. OnceOn(f)  BY DEF PlaceInv
  <1>4. /\ Occurs(f[b], k)
        /\ \A c \in WorkIndex : ~Occurs(g[c], k)
        /\ \A c \in WorkIndex, j \in Task : Occurs(g[c], j) => Occurs(f[c], j)
    <2> HIDE DEF b, f, g
    <2>1. Loses(WorkIndex, f, g, b, k)  BY <1>1, <1>2, <1>3, LostHead
    <2> QED BY <2>1 DEF Loses
  <1>5. /\ UNCHANGED <<adding, remainder_interval_ms, assistant_wheel_, b,
                       current_assistant_wheel_index_, task_, callbackAt, job>>
        /\ due' = [due EXCEPT ![k] = 0] /\ raced' = [raced EXCEPT ![k] = FALSE]
    BY <1>0 DEF TickEntry, Enqueue, taskVars
  <1>6. /\ tickAt = "tick" /\ tickAt' \in Calm
        /\ tickAt' = "sleep" => Tail(WorkBucket) = <<>>
    BY DEF TickEntry, TickOn, Calm
  <1>7. ASSUME NEW j \in Task, Alive(j)' PROVE Alive(j)
    <2>1. \/ tickTask' = tickTask
          \/ Alive(k) /\ tickTask' = k
      BY <1>0 DEF TickEntry
    <2> QED BY <1>5, <1>7, <2>1 DEF Alive, HeldByTimer
  <1>8. Due(k)'
    <2>1. ~OnWheel(assistant_wheel_, k) /\ ~BeingAdded(k)
      <3>1. OnWheel(work_wheel_, k)  BY <1>1, <1>4 DEF OnWheel
      <3> QED BY <3>1 DEF PlaceInv, Exclusive
    <2>2. DueAdding(k)'  BY <1>5, <2>1 DEF DueAdding, BeingAdded, NotAdding
    <2>3. DueWork(k)'  BY <1>4 DEF DueWork
    <2>4. DueAssistant(k)'
      BY <1>5, <2>1 DEF DueAssistant, OnWheel, TypeInv, WheelTypes
    <2> QED BY <2>2, <2>3, <2>4 DEF Due
  <1>9. ASSUME NEW j \in Task, j # k, Alive(j)', ~raced'[j] PROVE Due(j)'
    <2>1. due'[j] = due[j] /\ raced'[j] = raced[j]  BY <1>5, <1>9 DEF DueInv
    <2>2. Due(j) /\ due[j] \in Int  BY <1>7, <1>9, <2>1 DEF DueInv
    <2>3. tickAt' = "sleep" => ~Occurs(work_wheel_'[current_work_wheel_index_], j)
      BY <1>1, <1>2, <1>6, EmptyBucket
    <2>4. tickAt \in Calm  BY <1>6 DEF Calm
    <2> QED BY <1>4, <1>5, <1>6, <2>1, <2>2, <2>3, <2>4, DueStays
  <1>10. due' \in [Task -> Int] /\ raced' \in [Task -> BOOLEAN]  BY <1>5 DEF DueInv
  <1> QED BY <1>6, <1>8, <1>9, <1>10 DEF DueInv, Calm

\* The property's InWheel is the proof's OnWheel on either wheel.
LEMMA InWheelIs ==
    ASSUME TypeInv, NEW j \in Task
    PROVE  InWheel(j) <=> OnWheel(work_wheel_, j) \/ OnWheel(assistant_wheel_, j)
  <1>1. \A s \in Seq(Task) : j \in ToSet(s) <=> Occurs(s, j)
    <2> SUFFICES ASSUME NEW s \in Seq(Task) PROVE j \in ToSet(s) <=> Occurs(s, j)  OBVIOUS
    <2>1. DOMAIN s = 1 .. Len(s)  OBVIOUS
    <2> QED BY <2>1 DEF ToSet, Occurs
  <1>2. /\ \A b \in DOMAIN work_wheel_ : work_wheel_[b] \in Seq(Task)
        /\ \A b \in DOMAIN assistant_wheel_ : assistant_wheel_[b] \in Seq(Task)
    BY DEF TypeInv, WheelTypes
  <1> QED BY <1>1, <1>2 DEF InWheel, OnWheel

\* The current bucket advances by one, and everything ahead is one nearer.
LEMMA AdvanceArith ==
    ASSUME NEW W \in Nat \ {0}, NEW c \in 0 .. W - 1
    PROVE  (c + 1) % W = IF c + 1 < W THEN c + 1 ELSE c + 1 - W
  <1>1. PICK m \in Nat : m = c + 1  OBVIOUS
  <1>2. m < 2 * W  BY <1>1
  <1>3. m % W = IF m < W THEN m ELSE m - W  BY <1>2, ModOnce
  <1> QED BY <1>1, <1>3

\* One tick brings every task and every bucket one tick closer.
LEMMA AdvanceDue ==
    ASSUME TypeInv, TypeInv', DueInv, TickAdvance
    PROVE  DueInv'
  <1> DEFINE c == current_work_wheel_index_
             W == WORK_WHEEL_SIZE
  <1>1. /\ UNCHANGED <<work_wheel_, assistant_wheel_, current_assistant_wheel_index_,
                       remainder_interval_ms, task_, tickTask, job, callbackAt>>
        /\ tickAt = "sleep" /\ tickAt' = IF c' = 0 THEN "wrap" ELSE "loop"
        /\ c' = (c + 1) % W
    BY DEF TickAdvance, GetWorkWheelIndex, taskVars
  <1>2. c \in 0 .. W - 1 /\ W \in Nat \ {0}  BY Sizes DEF TypeInv, WheelTypes, WorkIndex
  <1>3. c' = IF c + 1 < W THEN c + 1 ELSE c + 1 - W
    <2> HIDE DEF c, W
    <2> QED BY <1>1, <1>2, AdvanceArith
  <1>4. due' \in [Task -> Int] /\ raced' \in [Task -> BOOLEAN]  BY DEF TickAdvance, DueInv
  <1>5. \A j \in Task : Alive(j)' = Alive(j)  BY <1>1, AliveStays
  <1>6. ASSUME NEW j \in Task, Alive(j)', ~raced'[j] PROVE Due(j)'
    <2>1. Alive(j)  BY <1>5, <1>6
    <2>2. ~raced[j] /\ adding[j] = NotAdding  BY <1>6, <2>1 DEF TickAdvance
    <2>3. adding'[j] = NotAdding  BY <2>2 DEF TickAdvance
    <2>4. InWheel(j) => due'[j] = due[j] - 1  BY <2>1 DEF TickAdvance
    <2>5. Due(j) /\ due[j] \in Int  BY <2>1, <2>2 DEF DueInv
    <2>6. DueAdding(j)'  BY <2>3 DEF DueAdding, BeingAdded, NotAdding
    <2>7. DueWork(j)'
      <3> SUFFICES ASSUME NEW b \in WorkIndex, Occurs(work_wheel_[b], j)
                   PROVE  /\ due'[j] \in 0 .. W - 1
                          /\ Ahead(b, due[j])'
                          /\ tickAt' = "sleep" => due'[j] # 0
        BY <1>1 DEF DueWork
      <3>1. due'[j] = due[j] - 1  BY <2>4, InWheelIs DEF OnWheel, TypeInv, WheelTypes
      <3>2. /\ due[j] \in 0 .. W - 1 /\ due[j] # 0
            /\ b = c + due[j] \/ b = c + due[j] - W
        BY <1>1, <2>5 DEF Due, DueWork, Ahead
      <3>3. b \in 0 .. W - 1  BY DEF WorkIndex
      <3>4. due'[j] \in 0 .. W - 1  BY <1>2, <3>1, <3>2
      <3>5. b = c' + due'[j] \/ b = c' + due'[j] - W
        <4> HIDE DEF c, W
        <4> QED BY <1>2, <1>3, <3>1, <3>2, <3>3
      <3>6. Ahead(b, due[j])'  BY <3>5 DEF Ahead
      <3> QED BY <1>1, <3>4, <3>6
    <2>8. DueAssistant(j)'
      <3> SUFFICES ASSUME NEW b \in AssistantRange, Occurs(assistant_wheel_[b], j)
                   PROVE  \E n \in Turns' : TurnsAhead(b, n)' /\ due'[j] = TicksAhead(j, n)'
        BY <1>1 DEF DueAssistant
      <3>1. due'[j] = due[j] - 1  BY <2>4, InWheelIs DEF OnWheel, TypeInv, WheelTypes
      <3>2. PICK n \in Turns : TurnsAhead(b, n) /\ due[j] = TicksAhead(j, n)
        BY <2>5 DEF Due, DueAssistant
      <3>3. n \in 1 .. ASSISTANT_WHEEL_SIZE  BY <1>1 DEF Turns
      <3>4. n \in Turns'  BY <1>1, <3>3 DEF Turns
      <3>5. TurnsAhead(b, n)'  BY <1>1, <3>2 DEF TurnsAhead
      <3>6. TicksAhead(j, n)' = TicksAhead(j, n) - 1
        <4> DEFINE r == remainder_interval_ms[j]
                   p == n * W
        <4>1. r \in Nat /\ p \in Nat  BY <3>3, Sizes DEF TypeInv, AddTypes, WorkIndex
        <4>2. TicksAhead(j, n) = p + r - c  BY <1>1 DEF TicksAhead
        <4>3. TicksAhead(j, n)' = p + r - (IF c' = 0 THEN W ELSE c')
          BY <1>1 DEF TicksAhead
        <4> HIDE DEF p, r, c, W
        <4> QED BY <1>2, <1>3, <4>1, <4>2, <4>3
      <3> QED BY <3>1, <3>2, <3>4, <3>5, <3>6
    <2> QED BY <2>6, <2>7, <2>8 DEF Due
  <1> QED BY <1>1, <1>4, <1>6 DEF DueInv

\* When the work wheel wraps, the next assistant bucket becomes the one to
\* distribute.
LEMMA WrapDue ==
    ASSUME TypeInv, TypeInv', DueInv, TickWrap
    PROVE  DueInv'
  <1> DEFINE a == current_assistant_wheel_index_
             A == ASSISTANT_WHEEL_SIZE
  <1>1. /\ UNCHANGED <<work_wheel_, assistant_wheel_, current_work_wheel_index_, adding, due,
                       remainder_interval_ms, task_, tickTask, job, callbackAt>>
        /\ tickAt = "wrap" /\ tickAt' = "cascade" /\ current_work_wheel_index_ = 0
        /\ a' = (a + 1) % A
    BY DEF TickWrap, GetAssistantWheelIndex, taskVars, DueInv
  <1>2. a \in 0 .. A - 1 /\ A \in Nat \ {0}  BY Sizes DEF TypeInv, WheelTypes, AssistantRange
  <1>3. a' = IF a + 1 < A THEN a + 1 ELSE a + 1 - A
    <2> HIDE DEF a, A
    <2> QED BY <1>1, <1>2, AdvanceArith
  <1>4. raced' \in [Task -> BOOLEAN]  BY DEF TickWrap
  <1>5. \A j \in Task : Alive(j)' = Alive(j)  BY <1>1, AliveStays
  <1>6. ASSUME NEW j \in Task, Alive(j)', ~raced'[j] PROVE Due(j)'
    <2>1. Alive(j)  BY <1>5, <1>6
    <2>2. ~raced[j] /\ adding[j] = NotAdding  BY <1>6 DEF TickWrap
    <2>3. Due(j) /\ due[j] \in Int  BY <2>1, <2>2 DEF DueInv
    <2>4. DueAdding(j)'  BY <1>1, <2>2 DEF DueAdding, BeingAdded, NotAdding
    <2>5. DueWork(j)'  BY <1>1, <2>3 DEF Due, DueWork, Ahead
    <2>6. DueAssistant(j)'
      <3> SUFFICES ASSUME NEW b \in AssistantRange, Occurs(assistant_wheel_[b], j)
                   PROVE  \E n \in Turns' : TurnsAhead(b, n)' /\ due'[j] = TicksAhead(j, n)'
        BY <1>1 DEF DueAssistant
      <3>1. PICK n \in Turns : TurnsAhead(b, n) /\ due[j] = TicksAhead(j, n)
        BY <2>3 DEF Due, DueAssistant
      <3>2. n \in 1 .. A /\ b \in 0 .. A - 1  BY <1>1 DEF Turns, AssistantRange
      <3>3. PICK m \in 0 .. A - 1 : m = n - 1  BY <1>2, <3>2
      <3>4. m \in Turns'  BY <1>1 DEF Turns
      <3>5. b = a + n \/ b = a + n - A  BY <3>1 DEF TurnsAhead
      <3>6. b = a' + m \/ b = a' + m - A
        <4> HIDE DEF a, A
        <4> QED BY <1>2, <1>3, <3>2, <3>3, <3>5
      <3>7. TurnsAhead(b, m)'  BY <3>6 DEF TurnsAhead
      <3>8. TicksAhead(j, m)' = TicksAhead(j, n)
        <4> DEFINE r == remainder_interval_ms[j]
                   W == WORK_WHEEL_SIZE
        <4>1. r \in Nat /\ W \in Nat  BY Sizes DEF TypeInv, AddTypes, WorkIndex
        <4>2. TicksAhead(j, n) = n * W + r - W  BY <1>1 DEF TicksAhead
        <4>3. TicksAhead(j, m)' = m * W + r - 0  BY <1>1 DEF TicksAhead
        <4>4. n * W = m * W + W /\ m * W \in Nat  BY <3>2, <3>3, <4>1
        <4> HIDE DEF W, r
        <4> QED BY <4>1, <4>2, <4>3, <4>4
      <3> QED BY <1>1, <3>1, <3>4, <3>7, <3>8
    <2> QED BY <2>4, <2>5, <2>6 DEF Due
  <1> QED BY <1>1, <1>4, <1>6 DEF DueInv

\* What the distribution of a bucket does not touch.
LEMMA CascadeStays ==
    ASSUME TypeInv, TypeInv', NEW j \in Task, Due(j), due[j] \in Int,
           current_work_wheel_index_ = 0, tickAt \in {"cascade", "distribute"},
           tickAt' \in {"loop", "distribute"},
           UNCHANGED <<adding, due, remainder_interval_ms, current_work_wheel_index_,
                       current_assistant_wheel_index_>>,
           \A b \in WorkIndex : Occurs(work_wheel_'[b], j) => Occurs(work_wheel_[b], j),
           \A b \in AssistantRange :
               Occurs(assistant_wheel_'[b], j) => Occurs(assistant_wheel_[b], j),
           tickAt' = "loop" => ~Occurs(assistant_wheel_'[current_assistant_wheel_index_], j)
    PROVE  Due(j)'
  <1>1. \A n : TicksAhead(j, n)' = TicksAhead(j, n)  BY DEF TicksAhead
  <1>2. \A b, n : /\ TurnsAhead(b, n)' = TurnsAhead(b, n)
                  /\ Ahead(b, n)' = Ahead(b, n)
    BY DEF TurnsAhead, Ahead
  <1>3. DueAdding(j)'
    BY <1>1, <1>2 DEF Due, DueAdding, BeingAdded, Turning
  <1>4. DueWork(j)'
    <2> SUFFICES ASSUME NEW b \in WorkIndex, Occurs(work_wheel_'[b], j)
                 PROVE  /\ due'[j] \in 0 .. WORK_WHEEL_SIZE - 1
                        /\ Ahead(b, due[j])'
                        /\ tickAt' = "sleep" => due'[j] # 0
      BY DEF DueWork
    <2>1. due[j] \in 0 .. WORK_WHEEL_SIZE - 1 /\ Ahead(b, due[j])  BY DEF Due, DueWork
    <2> QED BY <2>1 DEF Ahead
  <1>5. DueAssistant(j)'
    <2> SUFFICES ASSUME NEW b \in AssistantRange, Occurs(assistant_wheel_'[b], j)
                 PROVE  \E n \in Turns' : TurnsAhead(b, n)' /\ due'[j] = TicksAhead(j, n)'
      BY DEF DueAssistant
    <2>1. PICK n \in Turns : TurnsAhead(b, n) /\ due[j] = TicksAhead(j, n)
      BY DEF Due, DueAssistant
    <2>2. n \in 0 .. ASSISTANT_WHEEL_SIZE - 1  BY DEF Turns
    <2>3. tickAt' = "loop" => n # 0
      <3> SUFFICES ASSUME tickAt' = "loop", n = 0 PROVE FALSE  OBVIOUS
      <3>1. b = current_assistant_wheel_index_
        BY <2>1, Sizes DEF TurnsAhead, TypeInv, WheelTypes, AssistantRange
      <3> QED BY <3>1
    <2>4. n \in Turns'  BY <2>2, <2>3, Sizes DEF Turns
    <2> QED BY <1>1, <1>2, <2>1, <2>4
  <1> QED BY <1>3, <1>4, <1>5 DEF Due

\* A task of that bucket moves to the work bucket of its remainder.
LEMMA CascadeDue ==
    ASSUME TypeInv, TypeInv', DueInv, PlaceInv, Cascade
    PROVE  DueInv'
  <1> DEFINE a == current_assistant_wheel_index_
             f == assistant_wheel_
             g == assistant_wheel_'
             h == work_wheel_
             i == work_wheel_'
  <1>1. /\ UNCHANGED <<adding, due, raced, remainder_interval_ms, current_work_wheel_index_, a,
                       task_, tickTask, job, callbackAt>>
        /\ tickAt \in {"cascade", "distribute"} /\ tickAt' \in {"loop", "distribute"}
    BY DEF Cascade, Distribute, taskVars, timerVars
  <1>2. current_work_wheel_index_ = 0  BY <1>1 DEF DueInv
  <1>3. \A j \in Task : Alive(j)' = Alive(j)  BY <1>1, AliveStays
  <1>4. \A j \in Task : Alive(j)' /\ ~raced'[j] => Due(j) /\ due[j] \in Int
    BY <1>1, <1>3 DEF DueInv
  <1>5. CASE AssistantBucket = <<>> /\ UNCHANGED <<work_wheel_, assistant_wheel_>>
    <2>1. ASSUME NEW j \in Task, Alive(j)', ~raced'[j] PROVE Due(j)'
      <3>1. ~Occurs(g[a], j)  BY <1>5, EmptyBucket DEF AssistantBucket
      <3> QED BY <1>1, <1>2, <1>4, <1>5, <2>1, <3>1, CascadeStays
    <2> QED BY <1>1, <2>1 DEF DueInv
  <1>6. CASE /\ AssistantBucket # <<>>
             /\ tickAt' = IF Tail(AssistantBucket) = <<>> THEN "loop" ELSE "distribute"
             /\ g = [f EXCEPT ![a] = Tail(@)]
             /\ \/ i = h
                \/ i = [h EXCEPT ![remainder_interval_ms[Head(AssistantBucket)]] =
                           Append(@, Head(AssistantBucket))]
    <2>0. PICK k \in Task : k = Head(AssistantBucket)
      BY <1>6, HeadTail DEF TypeInv, WheelTypes, AssistantBucket
    <2>1. /\ a \in AssistantRange /\ f \in [AssistantRange -> Seq(Task)]
          /\ f[a] # <<>> /\ k = Head(f[a]) /\ AssistantBucket = f[a]
      BY <1>6, <2>0 DEF TypeInv, WheelTypes, AssistantBucket
    <2>2. /\ g \in [AssistantRange -> Seq(Task)] /\ g[a] = Tail(f[a])
          /\ \A c \in AssistantRange : c # a => g[c] = f[c]
      BY <1>6, <2>1 DEF TypeInv, WheelTypes
    <2>3. OnceOn(f)  BY DEF PlaceInv
    <2>4. /\ Occurs(f[a], k)
          /\ \A c \in AssistantRange : ~Occurs(g[c], k)
          /\ \A c \in AssistantRange, j \in Task : Occurs(g[c], j) => Occurs(f[c], j)
      <3> HIDE DEF a, f, g
      <3>1. Loses(AssistantRange, f, g, a, k)  BY <2>1, <2>2, <2>3, LostHead
      <3> QED BY <3>1 DEF Loses
    <2>5. PICK r \in WorkIndex : r = remainder_interval_ms[k]  BY DEF TypeInv, AddTypes
    <2>6. h \in [WorkIndex -> Seq(Task)]  BY DEF TypeInv, WheelTypes
    <2>7. \A b \in WorkIndex, j \in Task : Occurs(i[b], j) => Occurs(h[b], j) \/ (b = r /\ j = k)
      <3>1. CASE i = h  BY <3>1
      <3>2. CASE i = [h EXCEPT ![r] = Append(@, k)]
        <4>1. i[r] = Append(h[r], k) /\ \A b \in WorkIndex : b # r => i[b] = h[b]
          BY <2>6, <3>2
        <4>2. h[r] \in Seq(Task)  BY <2>6
        <4> HIDE DEF h, i
        <4>3. \A j : Occurs(Append(h[r], k), j) <=> Occurs(h[r], j) \/ j = k
          BY <4>2, OnceAppend
        <4> QED BY <4>1, <4>3
      <3> QED BY <1>6, <2>0, <2>5, <3>1, <3>2
    <2>8. tickAt' = "loop" => \A j : ~Occurs(g[a], j)
      BY <1>6, <2>1, <2>2, EmptyBucket
    <2>9. ASSUME NEW j \in Task, j # k, Alive(j)', ~raced'[j] PROVE Due(j)'
      <3>1. \A b \in WorkIndex : Occurs(i[b], j) => Occurs(h[b], j)  BY <2>7, <2>9
      <3>2. Due(j) /\ due[j] \in Int  BY <1>4, <2>9
      <3> QED BY <1>1, <1>2, <2>4, <2>8, <3>1, <3>2, CascadeStays
    <2>10. ASSUME Alive(k)', ~raced'[k] PROVE Due(k)'
      <3>1. OnWheel(f, k)  BY <2>1, <2>4 DEF OnWheel
      <3>2. ~BeingAdded(k) /\ ~OnWheel(h, k)  BY <3>1 DEF PlaceInv, Exclusive
      <3>3. DueAdding(k)'  BY <1>1, <3>2 DEF DueAdding, BeingAdded, NotAdding
      <3>4. DueAssistant(k)'  BY <2>4 DEF DueAssistant
      <3>5. due[k] = r
        <4>1. PICK n \in Turns : TurnsAhead(a, n) /\ due[k] = TicksAhead(k, n)
          BY <1>4, <2>1, <2>4, <2>10 DEF Due, DueAssistant
        <4>2. n \in 0 .. ASSISTANT_WHEEL_SIZE - 1  BY <1>1, <4>1 DEF Turns
        <4>3. n = 0  BY <2>1, <4>1, <4>2, Sizes DEF TurnsAhead, AssistantRange
        <4>4. TicksAhead(k, n) = 0 * WORK_WHEEL_SIZE + r - 0
          BY <1>1, <1>2, <2>5, <4>3 DEF TicksAhead
        <4> QED BY <4>1, <4>4, Sizes DEF WorkIndex
      <3>6. DueWork(k)'
        <4> SUFFICES ASSUME NEW b \in WorkIndex, Occurs(i[b], k)
                     PROVE  /\ due'[k] \in 0 .. WORK_WHEEL_SIZE - 1
                            /\ Ahead(b, due[k])'
                            /\ tickAt' = "sleep" => due'[k] # 0
          BY DEF DueWork
        <4>1. b = r  BY <2>6, <2>7, <3>2 DEF OnWheel
        <4>2. due'[k] = r /\ current_work_wheel_index_' = 0  BY <1>1, <1>2, <3>5
        <4>3. Ahead(b, due[k])'  BY <4>1, <4>2, Sizes DEF Ahead, WorkIndex
        <4>4. r \in 0 .. WORK_WHEEL_SIZE - 1  BY DEF WorkIndex
        <4> QED BY <1>1, <4>2, <4>3, <4>4
      <3> QED BY <3>3, <3>4, <3>6 DEF Due
    <2> QED BY <1>1, <1>2, <2>9, <2>10 DEF DueInv
  <1>7. \/ AssistantBucket = <<>> /\ UNCHANGED <<work_wheel_, assistant_wheel_>>
        \/ /\ AssistantBucket # <<>>
           /\ tickAt' = IF Tail(AssistantBucket) = <<>> THEN "loop" ELSE "distribute"
           /\ g = [f EXCEPT ![a] = Tail(@)]
           /\ \/ i = h
              \/ i = [h EXCEPT ![remainder_interval_ms[Head(AssistantBucket)]] =
                         Append(@, Head(AssistantBucket))]
    BY DEF Cascade, Distribute
  <1> QED BY <1>5, <1>6, <1>7

\* The tick thread keeps every task in the bucket of its ticks left.
LEMMA TickDue ==
    ASSUME TypeInv, TypeInv', DueInv, PlaceInv, TickStep
    PROVE  DueInv'
  BY LoopDue, EntryDue, AdvanceDue, WrapDue, CascadeDue DEF TickStep

-----------------------------------------------------------------------------
(* The other threads and the ticks.                                        *)

\* A routine that leaves the wheels and AddTask() alone.
LEMMA RoutineDue ==
    ASSUME TypeInv, TypeInv', DueInv, NEW w \in Worker,
           UNCHANGED <<wheelVars, task_, adding, due, raced, remainder_interval_ms>>,
           \A v \in Worker : v # w => job'[v] = job[v] /\ callbackAt'[v] = callbackAt[v],
           \A j \in Task : job'[w] = j /\ callbackAt'[w] \in {"locked", "callback", "add"}
                           => Alive(j)
    PROVE  DueInv'
  <1>1. \A j \in Task : Alive(j)' => Alive(j)  BY RoutineAlive DEF wheelVars
  <1> QED BY <1>1, DueKept DEF wheelVars

\* So do the routines that run the callbacks and add the next round.
LEMMA WorkerDue ==
    ASSUME TypeInv, TypeInv', DueInv, QuietInv, PlaceInv, PlaceInv',
           NEW w \in Worker, WorkerStep(w)
    PROVE  DueInv'
  <1>0. RoutineTypes  BY DEF TypeInv
  <1>1. CASE TakeTask(w)
    <2>1. UNCHANGED <<wheelVars, task_, adding, due, raced, remainder_interval_ms>>
      BY <1>1 DEF TakeTask
    <2>2. callbackAt[w] \in {"no"}
      BY <1>0, <1>1 DEF TakeTask, WorkerLoop, HangUp, Resume, RoutineTypes
    <2>3. \/ UNCHANGED callbackAt
          \/ callbackAt' = [callbackAt EXCEPT ![w] = "lambda"]
      BY <1>1 DEF TakeTask, At
    <2>4. /\ callbackAt'[w] \notin {"locked", "callback", "add"}
          /\ \A v \in Worker : v # w => callbackAt'[v] = callbackAt[v]
      BY <1>0, <2>2, <2>3 DEF RoutineTypes
    <2>5. \A v \in Worker : v # w => job'[v] = job[v]
      BY <1>0, <1>1 DEF TakeTask, WorkerLoop, HangUp, Resume, RoutineTypes
    <2> QED BY <2>1, <2>4, <2>5, RoutineDue
  <1>2. ASSUME TaskDone(w), At(w, "no"),
               UNCHANGED <<wheelVars, task_, adding, due, raced, remainder_interval_ms>>
        PROVE  DueInv'
    <2>1. /\ callbackAt'[w] = "no"
          /\ \A v \in Worker : v # w => job'[v] = job[v] /\ callbackAt'[v] = callbackAt[v]
      BY <1>0, <1>2 DEF TaskDone, At, RoutineTypes
    <2> QED BY <1>2, <2>1, RoutineDue
  <1>3. CASE Lambda(w)
    <2>1. UNCHANGED <<wheelVars, task_, adding, due, raced, remainder_interval_ms>>
      BY <1>3 DEF Lambda
    <2>2. \/ TaskDone(w) /\ At(w, "no")
          \/ UNCHANGED <<taskVars, callbackAt>>
          \/ Alive(job[w]) /\ At(w, "locked") /\ UNCHANGED taskVars
      BY <1>3 DEF Lambda
    <2>3. CASE UNCHANGED <<taskVars, callbackAt>>
      <3>1. UNCHANGED <<job, callbackAt>> /\ callbackAt[w] = "lambda"
        BY <1>3, <2>3 DEF taskVars, Lambda
      <3> QED BY <2>1, <3>1, RoutineDue
    <2>4. CASE Alive(job[w]) /\ At(w, "locked") /\ UNCHANGED taskVars
      <3>1. /\ UNCHANGED job
            /\ \A v \in Worker : v # w => callbackAt'[v] = callbackAt[v]
        BY <1>0, <2>4 DEF taskVars, At, RoutineTypes
      <3> QED BY <2>1, <2>4, <3>1, RoutineDue
    <2> QED BY <1>2, <2>1, <2>2, <2>3, <2>4
  <1>4. CASE RunCallback(w)
    <2>1. /\ UNCHANGED <<wheelVars, task_, adding, due, raced, remainder_interval_ms, job>>
          /\ callbackAt[w] = "locked"
      BY <1>4 DEF RunCallback, taskVars
    <2>2. \A v \in Worker : v # w => callbackAt'[v] = callbackAt[v]
      BY <1>0, <1>4 DEF RunCallback, At, RoutineTypes
    <2>3. \A j \in Task : job[w] = j => Alive(j)  BY <2>1 DEF Alive
    <2> QED BY <2>1, <2>2, <2>3, RoutineDue
  <1>5. CASE CallbackReturns(w)
    <2>1. UNCHANGED task_ /\ callbackAt[w] = "callback"  BY <1>5 DEF CallbackReturns
    <2>2. CASE /\ TaskDone(w) /\ At(w, "no")
               /\ UNCHANGED <<wheelVars, adding, remainder_interval_ms, due, raced>>
      BY <1>2, <2>1, <2>2
    <2>3. CASE At(w, "add") /\ UNCHANGED taskVars /\ \E ms \in Durations : AddTaskBegin(job[w], ms)
      <3>1. PICK k \in Task : k = job[w]  BY <1>0, <2>1 DEF RoutineTypes
      <3>2. PICK ms \in Durations : AddTaskBegin(k, ms)  BY <2>3, <3>1
      <3>3. ms \in Nat /\ ms > 0 /\ ms < TIMER_MAX_INTERVAL_MS  BY DurationType
      <3>4. workerAt[w] = "task" /\ clear \in ClearLabel
        BY <2>1 DEF TypeInv, RoutineTypes, OwnerTypes
      <3>5. running_ \/ tickAt = "off"  BY <3>4 DEF QuietInv, ClearLabel
      <3>6. UNCHANGED <<job, tickTask>>  BY <2>3, <3>2 DEF taskVars, AddTaskBegin
      <3>7. \A v \in Worker : v # w => callbackAt'[v] = callbackAt[v]
        BY <1>0, <2>3 DEF At, RoutineTypes
      <3>8. \A j \in Task : job[w] = j => Alive(j)  BY <2>1 DEF Alive
      <3>9. ASSUME NEW j \in Task, Alive(j)' PROVE Alive(j)
        BY <2>1, <3>6, <3>7, <3>8, <3>9, RoutineAlive
      <3> QED BY <3>2, <3>3, <3>5, <3>9, BeginDue
    <2> QED BY <1>5, <2>2, <2>3 DEF CallbackReturns
  <1>6. CASE WorkerAdds(w)
    <2>1. UNCHANGED task_ /\ callbackAt[w] = "add"  BY <1>6 DEF WorkerAdds
    <2>2. CASE /\ TaskDone(w) /\ At(w, "no")
               /\ UNCHANGED <<wheelVars, adding, remainder_interval_ms, due, raced>>
      BY <1>2, <2>1, <2>2
    <2>3. CASE /\ AddTaskChoose(job[w]) \/ AddTaskPut(job[w])
               /\ UNCHANGED <<taskVars, callbackAt>>
      <3>1. job[w] \in Task  BY <1>0, <2>1 DEF RoutineTypes
      <3>2. UNCHANGED job  BY <2>3 DEF taskVars
      <3> QED BY <2>1, <2>3, <3>1, <3>2, ChooseDue, PutDue
    <2> QED BY <1>6, <2>2, <2>3 DEF WorkerAdds
  <1> QED BY <1>1, <1>3, <1>4, <1>5, <1>6 DEF WorkerStep

\* Timer::Start() gives the new task the ticks of its period.
LEMMA StartDue ==
    ASSUME TypeInv, TypeInv', DueInv, QuietInv, PlaceInv', NEW t \in Timer, Start(t)
    PROVE  DueInv'
  <1>1. PICK n \in 1 .. MaxStarts : n = starts[t] + 1
    BY Sizes DEF Start, TypeInv, OwnerTypes
  <1>2. PICK k \in Task : k = <<t, n>>  BY TaskPair
  <1>3. UNCHANGED <<job, callbackAt>> /\ clear = "no"  BY DEF Start, taskVars
  <1>4. PICK o \in Options[t] :
            \/ /\ task_' = [task_ EXCEPT ![t] = n]
               /\ AddTaskBegin(k, o.period)
               /\ o.period > 0 /\ o.period < TIMER_MAX_INTERVAL_MS
            \/ UNCHANGED <<task_, adding, remainder_interval_ms, due, raced, wheelVars>>
    BY <1>1, <1>2 DEF Start
  <1>5. o.period \in Nat  BY TimingWheelAssumption
  <1>6. CASE UNCHANGED <<task_, adding, remainder_interval_ms, due, raced, wheelVars>>
    <2>1. \A j \in Task : Alive(j)' => Alive(j)
      BY <1>3, <1>6, AliveStays DEF wheelVars
    <2> QED BY <1>6, <2>1, DueKept DEF wheelVars
  <1>7. CASE /\ task_' = [task_ EXCEPT ![t] = n]
             /\ AddTaskBegin(k, o.period)
             /\ o.period > 0 /\ o.period < TIMER_MAX_INTERVAL_MS
    <2>1. running_ \/ tickAt = "off"  BY <1>3 DEF QuietInv
    <2>2. ASSUME NEW j \in Task, j # k, Alive(j)' PROVE Alive(j)
      <3>1. UNCHANGED tickTask  BY <1>7 DEF AddTaskBegin
      <3>2. j[1] \in Timer /\ j = <<j[1], j[2]>>  BY TaskPair
      <3>3. HeldByTimer(j)' => HeldByTimer(j)
        <4>1. CASE j[1] = t
          <5>1. j[2] # n  BY <1>2, <2>2, <3>2, <4>1
          <5>2. task_'[t] = n  BY <1>7 DEF TypeInv, OwnerTypes
          <5> QED BY <4>1, <5>1, <5>2 DEF HeldByTimer
        <4>2. CASE j[1] # t
          <5>1. task_'[j[1]] = task_[j[1]]  BY <1>7, <3>2, <4>2 DEF TypeInv, OwnerTypes
          <5> QED BY <5>1 DEF HeldByTimer
        <4> QED BY <4>1, <4>2
      <3> QED BY <1>3, <2>2, <3>1, <3>3 DEF Alive
    <2> QED BY <1>5, <1>7, <2>1, <2>2, BeginDue
  <1> QED BY <1>4, <1>6, <1>7

\* Timer::Stop() drops its reference and moves no task.
LEMMA StopDue ==
    ASSUME TypeInv, TypeInv', DueInv, NEW t \in Timer, Stop(t)
    PROVE  DueInv'
  <1>1. /\ UNCHANGED <<wheelVars, adding, due, raced, remainder_interval_ms, job, callbackAt>>
        /\ task_' = [task_ EXCEPT ![t] = 0]
    BY DEF Stop, taskVars
  <1>2. ASSUME NEW j \in Task, Alive(j)' PROVE Alive(j)
    <2>1. j[1] \in Timer /\ j[2] \in 1 .. MaxStarts  BY TaskPair
    <2>2. HeldByTimer(j)' => HeldByTimer(j)
      BY <1>1, <2>1, Sizes DEF HeldByTimer, TypeInv, OwnerTypes
    <2> QED BY <1>1, <1>2, <2>2 DEF Alive, wheelVars
  <1> QED BY <1>1, <1>2, DueKept DEF wheelVars

\* Every step keeps every task in the bucket of its ticks left.
LEMMA DueStep ==
    TypeInv /\ TypeInv' /\ QuietInv /\ PlaceInv /\ PlaceInv' /\ DueInv /\ [Next]_vars => DueInv'
  <1> SUFFICES ASSUME TypeInv, TypeInv', QuietInv, PlaceInv, PlaceInv', DueInv, [Next]_vars
               PROVE  DueInv'
    OBVIOUS
  <1>0. ASSUME UNCHANGED <<adding, due, raced, remainder_interval_ms, work_wheel_,
                           assistant_wheel_, current_work_wheel_index_,
                           current_assistant_wheel_index_, tickAt, task_, tickTask, job,
                           callbackAt>>
        PROVE  DueInv'
    BY <1>0, AliveStays, DueKept
  <1>1. CASE UNCHANGED vars
    BY <1>0, <1>1 DEF vars, taskVars, wheelVars, timerVars
  <1>2. CASE TickStep  BY <1>2, TickDue
  <1>3. ASSUME NEW w \in Worker, WorkerStep(w) PROVE DueInv'  BY <1>3, WorkerDue
  <1>4. ASSUME NEW t \in Timer, Start(t) PROVE DueInv'  BY <1>4, StartDue
  <1>5. ASSUME NEW t \in Timer, UNCHANGED clear, OwnerAdds(t) PROVE DueInv'
    <2>1. <<t, task_[t]>> \in Task  BY <1>5, OwnerStepTypes
    <2>2. UNCHANGED <<task_, job, callbackAt>>  BY <1>5 DEF OwnerAdds, taskVars
    <2> QED BY <1>5, <2>1, <2>2, ChooseDue, PutDue DEF OwnerAdds
  <1>6. ASSUME NEW t \in Timer, Stop(t) PROVE DueInv'  BY <1>6, StopDue
  <1>7. CASE ClearBegin \/ ClearTasks \/ ClearWheel
    BY <1>0, <1>7 DEF ClearBegin, ClearTasks, ClearWheel, StopTasks, RemoveTask,
                      taskVars, wheelVars, timerVars
  <1> QED BY <1>1, <1>2, <1>3, <1>4, <1>5, <1>6, <1>7 DEF Next, OwnerStep, ClearStep, Ended

\* The empty wheels hold no task in a wrong bucket.
LEMMA DueInit == Init => DueInv
  <1> SUFFICES ASSUME Init PROVE DueInv  OBVIOUS
  <1>1. PlaceInv /\ TypeInv  BY PlaceInit, TypeInit
  <1>2. \A k \in Task : ~BeingAdded(k) /\ adding[k].at = "no"
    BY DEF Init, BeingAdded, NotAdding
  <1>3. /\ \A b \in WorkIndex : work_wheel_[b] = <<>>
        /\ \A b \in AssistantRange : assistant_wheel_[b] = <<>>
    BY DEF Init, WorkIndex, AssistantRange
  <1>4. \A k \in Task : Due(k)
    BY <1>2, <1>3, EmptyBucket DEF Due, DueAdding, DueWork, DueAssistant
  <1>5. due \in [Task -> Int] /\ raced \in [Task -> BOOLEAN] /\ tickAt = "off"  BY DEF Init
  <1> QED BY <1>4, <1>5 DEF DueInv

\* Only Tick() takes a reference to a task.
LEMMA HandOver ==
    ASSUME TypeInv, DueInv, PlaceInv, [Next]_vars, NEW k \in Task, HandsOver(k), ~raced[k]
    PROVE  due[k] = 0
  <1>1. tickTask' = k /\ tickTask # k /\ k # NoJob  BY Sizes DEF HandsOver
  <1>2. TickEntry
    <2>1. CASE UNCHANGED tickTask  BY <1>1, <2>1
    <2>2. CASE TickStep
      <3>1. TickNotify => tickTask' \in {tickTask, NoJob}  BY DEF TickNotify
      <3>2. TickLoop \/ TickAdvance \/ TickWrap \/ Cascade => UNCHANGED tickTask
        BY DEF TickLoop, TickAdvance, TickWrap, Cascade, Distribute
      <3> QED BY <1>1, <2>2, <3>1, <3>2 DEF TickStep
    <2>3. ASSUME NEW w \in Worker, WorkerStep(w) PROVE UNCHANGED tickTask
      BY <2>3 DEF WorkerStep, TakeTask, Lambda, RunCallback, CallbackReturns, WorkerAdds,
                  AddTaskBegin, AddTaskChoose, AddTaskPut, wheelVars
    <2>4. ASSUME NEW t \in Timer, Start(t) \/ Stop(t) \/ OwnerAdds(t) PROVE UNCHANGED tickTask
      BY <2>4 DEF Start, Stop, OwnerAdds, AddTaskBegin, AddTaskChoose, AddTaskPut, wheelVars
    <2>5. ClearBegin \/ ClearTasks \/ ClearWheel => UNCHANGED tickTask
      BY DEF ClearBegin, ClearTasks, ClearWheel, wheelVars
    <2>6. UNCHANGED vars => UNCHANGED tickTask  BY DEF vars, wheelVars
    <2> QED BY <2>1, <2>2, <2>3, <2>4, <2>5, <2>6 DEF Next, OwnerStep, ClearStep, Ended
  <1>3. k = Head(WorkBucket) /\ Alive(k)  BY <1>1, <1>2 DEF TickEntry
  <1> QED BY <1>2, <1>3, HeadIsDue

\* The wheels fire a task in the tick it is due: whatever the sizes of the two
\* wheels, the number of timers and the durations, a task whose AddTask() met
\* no tick between two of its steps is handed over to the task manager when
\* exactly its duration has passed (TimingWheel::AddTask(), Tick(), Cascade()).
\* This is FiresOnTime without its exception for tasks that raced.
THEOREM FiresInItsTick == Spec => [][OnTime]_vars
  <1> DEFINE Inv == TypeInv /\ QuietInv /\ PlaceInv /\ DueInv
  <1>1. Init => Inv
    <2>1. Init => QuietInv  BY DEF Init, QuietInv
    <2> QED BY <2>1, TypeInit, PlaceInit, DueInit
  <1>2. Inv /\ [Next]_vars => Inv'
    BY TypeStep, QuietStep, PlaceStep, DueStep
  <1>3. Inv /\ [Next]_vars => [OnTime]_vars
    BY HandOver DEF OnTime
  <1> QED BY <1>1, <1>2, <1>3, PTL DEF Spec
=============================================================================
