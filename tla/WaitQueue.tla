------------------------------ MODULE WaitQueue ------------------------------
(***************************************************************************)
(* The waiting methods of base::BoundedQueue (WaitEnqueue, WaitDequeue and *)
(* BreakAllWait in code/cyber/base/bounded_queue.h) and the wait           *)
(* strategies they use (code/cyber/base/wait_strategy.h).                  *)
(*                                                                         *)
(* Enqueue() and Dequeue() are one step each here: module BoundedQueue     *)
(* shows that the ring behaves like the sequence queue.  What is fine      *)
(* grained is what happens between a call that fails and the wait, and     *)
(* between a call that succeeds and its notification.                      *)
(*                                                                         *)
(* Strategy "poll" stands for SleepWaitStrategy, YieldWaitStrategy and     *)
(* BusySpinWaitStrategy, whose EmptyWait() just returns true; "block" for  *)
(* BlockWaitStrategy and "timeout" for TimeoutBlockWaitStrategy, whose     *)
(* NotifyOne() and BreakAllWait() signal the condition variable without    *)
(* its mutex and whose EmptyWait() waits without a predicate.              *)
(***************************************************************************)
EXTENDS Naturals, Sequences

CONSTANTS
    Enqueuer,      \* threads that call WaitEnqueue()
    Dequeuer,      \* threads that call WaitDequeue()
    Size,          \* the size given to Init()
    MaxCalls,      \* bound: elements each enqueuer adds
    Strategies     \* the strategies Init() may be called with

ASSUME WaitAssumption ==
    /\ Size \in Nat \ {0}
    /\ MaxCalls \in Nat
    /\ Enqueuer \cap Dequeuer = {}
    /\ Strategies \subseteq {"poll", "block", "timeout"}

Thread == Enqueuer \cup Dequeuer

VARIABLES
    queue,
    wait_strategy_,
    break_all_wait_,
    breaker,       \* BreakAllWait(): "no", "set" (flag set), "done"
    pc,
    calls,
    missed         \* history: threads that could not hear a notification that
                   \* was meant for them

waitVars == <<wait_strategy_, break_all_wait_, breaker, missed>>
vars == <<queue, waitVars, pc, calls>>

Blocked == {t \in Thread : pc[t] = "blocked"}

Goto(t, place) == pc' = [pc EXCEPT ![t] = place]

Init ==
    /\ queue = <<>>
    /\ wait_strategy_ \in Strategies
    /\ break_all_wait_ = FALSE
    /\ breaker = "no"
    /\ pc = [t \in Thread |-> "idle"]
    /\ calls = [p \in Enqueuer |-> 0]
    /\ missed = {}

\* A thread calls WaitEnqueue() or WaitDequeue().
Call(t) ==
    /\ pc[t] = "idle"
    /\ t \in Enqueuer => calls[t] < MaxCalls
    /\ calls' = [p \in Enqueuer |-> IF p = t THEN calls[p] + 1 ELSE calls[p]]
    /\ Goto(t, "loop")
    /\ UNCHANGED <<queue, waitVars>>

\* A loop that looks at the flag only once.
LoopTest_FlagIgnored(t) ==
    /\ pc[t] = "loop"
    /\ Goto(t, "try")
    /\ UNCHANGED <<queue, waitVars, calls>>

\* while (!break_all_wait_): return false or try.
LoopTest(t) ==
    /\ pc[t] = "loop"
    /\ Goto(t, IF break_all_wait_ THEN "idle" ELSE "try")
    /\ UNCHANGED <<queue, waitVars, calls>>

\* An Enqueue() that forgets to notify.
TryEnqueue_Silent(p) ==
    /\ pc[p] = "try"
    /\ IF Len(queue) < Size
         THEN queue' = Append(queue, <<p, calls[p]>>) /\ Goto(p, "idle")
         ELSE queue' = queue /\ Goto(p, "wait")
    /\ UNCHANGED <<waitVars, calls>>

\* Enqueue() inside WaitEnqueue(); the notification is a later step.
TryEnqueue(p) ==
    /\ pc[p] = "try"
    /\ IF Len(queue) < Size
         THEN queue' = Append(queue, <<p, calls[p]>>) /\ Goto(p, "notify")
         ELSE queue' = queue /\ Goto(p, "wait")
    /\ UNCHANGED <<waitVars, calls>>

\* Consumers that have found the queue empty and do not run again by
\* themselves.
Waiting == {c \in Dequeuer : wait_strategy_ # "poll" /\ pc[c] \in {"wait", "blocked"}}

\* wait_strategy_->NotifyOne(): wakes one thread that is blocked by now, be
\* it a consumer or another producer.  Then Enqueue() returns true.  A
\* notification that reaches no consumer is missed by those that need it.
NotifyOne(p) ==
    /\ pc[p] = "notify"
    /\ \/ /\ wait_strategy_ = "poll" \/ Blocked = {}
          /\ Goto(p, "idle")
          /\ missed' = missed \cup Waiting
       \/ \E t \in Blocked :
            /\ pc' = [pc EXCEPT ![p] = "idle", ![t] = "loop"]
            /\ missed' = IF t \in Dequeuer THEN missed \ {t} ELSE missed \cup Waiting
    /\ UNCHANGED <<queue, wait_strategy_, break_all_wait_, breaker, calls>>

\* Dequeue() inside WaitDequeue(); it notifies nobody.
TryDequeue(c) ==
    /\ pc[c] = "try"
    /\ IF queue # <<>>
         THEN queue' = Tail(queue) /\ Goto(c, "idle")
         ELSE queue' = queue /\ Goto(c, "wait")
    /\ UNCHANGED <<waitVars, calls>>

\* EmptyWait() of the polling strategies returns at once; the others lock
\* the mutex and wait, whatever happened since the call failed.
EmptyWait(t) ==
    /\ pc[t] = "wait"
    /\ Goto(t, IF wait_strategy_ = "poll" THEN "loop" ELSE "blocked")
    /\ UNCHANGED <<queue, waitVars, calls>>

\* TimeoutBlockWaitStrategy: wait_for() timed out, the caller returns false.
TimedOut(t) ==
    /\ wait_strategy_ = "timeout"
    /\ pc[t] = "blocked"
    /\ Goto(t, "idle")
    /\ UNCHANGED <<queue, waitVars, calls>>

\* A condition variable may wake up without a notification.
SpuriousWakeup(t) ==
    /\ pc[t] = "blocked"
    /\ Goto(t, "loop")
    /\ missed' = missed \ {t}
    /\ UNCHANGED <<queue, wait_strategy_, break_all_wait_, breaker, calls>>

\* BreakAllWait(): set the flag, then notify_all().
BreakAllWait ==
    /\ breaker = "no"
    /\ break_all_wait_' = TRUE
    /\ breaker' = "set"
    /\ UNCHANGED <<queue, wait_strategy_, pc, calls, missed>>

NotifyAll ==
    /\ breaker = "set"
    /\ breaker' = "done"
    /\ pc' = [t \in Thread |-> IF t \in Blocked THEN "loop" ELSE pc[t]]
    /\ missed' = (missed \ Blocked) \cup {t \in Thread : pc[t] \in {"try", "wait"}}
    /\ UNCHANGED <<queue, wait_strategy_, break_all_wait_, calls>>

Step(t) ==
    \/ LoopTest(t)
    \/ EmptyWait(t)
    \/ t \in Enqueuer /\ (TryEnqueue(t) \/ NotifyOne(t))
    \/ t \in Dequeuer /\ TryDequeue(t)

Done ==
    /\ \A t \in Thread : pc[t] = "idle"
    /\ \A p \in Enqueuer : calls[p] = MaxCalls
    /\ breaker = "done"
    /\ UNCHANGED vars

Next ==
    \/ \E t \in Thread : Call(t) \/ Step(t) \/ TimedOut(t) \/ SpuriousWakeup(t)
    \/ BreakAllWait
    \/ NotifyAll
    \/ Done

Spec == Init /\ [][Next]_vars

\* A thread that is not blocked runs, a wait with a limit ends, and
\* BreakAllWait() is completed once it is called.  Nothing promises a
\* spurious wakeup.
FairSpec ==
    /\ Spec
    /\ \A t \in Thread : WF_vars(Step(t)) /\ WF_vars(TimedOut(t))
    /\ WF_vars(NotifyAll)

-----------------------------------------------------------------------------
(* Properties.                                                             *)

TypeOK ==
    /\ queue \in Seq(Enqueuer \X (1 .. MaxCalls)) /\ Len(queue) <= Size
    /\ wait_strategy_ \in Strategies
    /\ break_all_wait_ = (breaker # "no")
    /\ breaker \in {"no", "set", "done"}
    /\ pc \in [Thread -> {"idle", "loop", "try", "wait", "blocked", "notify"}]
    /\ calls \in [Enqueuer -> 0 .. MaxCalls]
    /\ missed \subseteq Thread

\* BreakAllWait() gets every thread out of WaitEnqueue() and WaitDequeue().
\* Under BlockWaitStrategy it may leave behind a thread that had tested the
\* flag and was not waiting yet; the other strategies release that one too.
BreakReleasesAll ==
    \A t \in Thread :
      (break_all_wait_ /\ pc[t] # "idle")
        ~> (pc[t] = "idle" \/ (wait_strategy_ = "block" /\ t \in missed))

\* A consumer in WaitDequeue() whose wait has no time limit and an element do
\* not stay in the queue together: the element is taken, by this consumer or
\* another, unless BreakAllWait() is called or the notification was sent
\* between the consumer's failed Dequeue() and its wait, or was spent on a
\* producer that waits on the same condition variable.
WaiterGetsElement ==
    \A c \in Dequeuer :
      (wait_strategy_ # "timeout" /\ queue # <<>> /\ pc[c] # "idle")
        ~> (queue = <<>> \/ break_all_wait_ \/ c \in missed)
=============================================================================
