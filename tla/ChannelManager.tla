--------------------------- MODULE ChannelManager ---------------------------
(***************************************************************************)
(* The channel manager of service discovery                                *)
(* (code/cyber/service_discovery), one per process, for one channel.  It   *)
(* keeps the known writers and readers in its warehouses, tells its        *)
(* listeners of every change and broadcasts the changes of its own process *)
(* over RTPS.                                                              *)
(*                                                                         *)
(* Dispose() runs on three kinds of threads of a process at once: the      *)
(* owners of its readers and writers (Join and Leave), the thread that     *)
(* delivers remote changes, and the one that delivers the comings and      *)
(* goings of participants.  The warehouses and the signal have locks of    *)
(* their own, so a call is a sequence of steps.                            *)
(*                                                                         *)
(* RTPS is external.  The topology topic is reliable, keeps all samples    *)
(* and is transient-local: each process receives the changes of another    *)
(* one in order and from the first one on.  A participant that dies, or    *)
(* whose lease runs out although it lives, is reported as removed; one     *)
(* that lives is discovered again and its changes are delivered anew.      *)
(***************************************************************************)
EXTENDS Sequences, Naturals, FiniteSets

CONSTANTS
    Process, Writer, Reader,
    proc, node,             \* the process and the node of each role
    host_name, process_id,  \* of each process
    NoRole,
    MaxChanges              \* bound: joins, leaves, processes that end or are dropped alive

Role == Writer \cup Reader

ASSUME RoleAssumption ==
    /\ Writer \cap Reader = {} /\ NoRole \notin Role
    /\ proc \in [Role -> Process] /\ MaxChanges \in Nat
    /\ DOMAIN node = Role /\ DOMAIN host_name = Process /\ DOMAIN process_id = Process
    /\ \A p, q \in Process :
          host_name[p] = host_name[q] /\ process_id[p] = process_id[q] => p = q
    /\ \A x, y \in Reader : proc[x] = proc[y] /\ node[x] = node[y] => x = y

\* The threads that change the topology: the owner of each role, and in each
\* process the thread of OnRemoteChange() and that of OnParticipantChange().
Owner(x) == <<"owner", x>>
Remote(p) == <<"remote", p>>
Participant(p) == <<"participant", p>>

ThreadsOf(p) == {Owner(x) : x \in {y \in Role : proc[y] = p}} \cup {Remote(p), Participant(p)}
Thread == UNION {ThreadsOf(p) : p \in Process}

ChangeMsg == [opt : {"join", "leave"}, role : Role]
Msg(opt, x) == [opt |-> opt, role |-> x]

Opposite(x, y) == (x \in Writer /\ y \in Reader) \/ (x \in Reader /\ y \in Writer)

\* One Receiver for each channel and process, whose id all its readers carry.
id(x) == IF x \in Reader THEN <<"receiver", proc[x]>> ELSE <<"transmitter", x>>

VARIABLES
    alive,
    warehouse,      \* channel_writers_ and channel_readers_ of each process
    slots_,         \* the listeners of signal_ that are connected
    call,           \* the Dispose() under way on each thread
    leaving,        \* the roles OnTopoModuleLeave() still has to remove
    published,      \* the changes each process has written
    taken,          \* how many of them each other process has received
    dropped,        \* the participants a process holds for gone
    changes,        \* how many of these there were
    overtaken       \* history: joins that were under way when their process was removed

managerVars == <<alive, warehouse, slots_, call, leaving, published, taken, dropped,
                 changes, overtaken>>

Call == [at : {"idle", "dispose", "signal", "notify"},
         msg : [opt : {"join", "leave"}, role : Role \cup {NoRole}],
         local : SUBSET Role,           \* the slots that still have to be called
         slot : Role \cup {NoRole}]     \* the one whose callback runs

NoCall == [at |-> "idle", msg |-> [opt |-> "join", role |-> NoRole], local |-> {}, slot |-> NoRole]

ManagerInit ==
    /\ alive = [p \in Process |-> TRUE]
    /\ warehouse = [p \in Process |-> {}]
    /\ slots_ = [p \in Process |-> {}]
    /\ call = [t \in Thread |-> NoCall]
    /\ leaving = [p \in Process |-> {}]
    /\ published = [p \in Process |-> <<>>]
    /\ taken = [p \in Process |-> [q \in Process |-> 0]]
    /\ dropped = [p \in Process |-> {}]
    /\ changes = 0
    /\ overtaken = {}

Idle(t) == call[t] = NoCall
Calling(msg) == [at |-> "dispose", msg |-> msg, local |-> {}, slot |-> NoRole]

\* The call has notified every listener: for Join() and Leave() the broadcast is
\* next, OnRemoteChange() and a removal by OnTopoModuleLeave() are over.
Done(c) == c.at = "notify" /\ c.slot = NoRole /\ c.local = {}
Notified(t) == Done(call[t])

GoOn(t, c) ==
    call' = [call EXCEPT ![t] = IF Done(c) /\ t[1] # "owner" THEN NoCall ELSE c]

-----------------------------------------------------------------------------
\* Mutant: the node of the role is not compared.
Match_NoNode(x, y) == id(x) = id(y) /\ proc[x] = proc[y]

\* Whether a stored role is the one that a change is about.
Match(x, y) == id(x) = id(y) /\ node[x] = node[y] /\ proc[x] = proc[y]

\* The warehouses are updated: DisposeJoin() or DisposeLeave().
Dispose(p, t) ==
    /\ call[t].at = "dispose"
    /\ LET msg == call[t].msg IN
         warehouse' = [warehouse EXCEPT ![p] =
             IF msg.opt = "join" THEN @ \cup {msg.role}
                                 ELSE {x \in @ : ~Match(x, msg.role)}]
    /\ call' = [call EXCEPT ![t].at = "signal"]
    /\ UNCHANGED <<alive, slots_, leaving, published, taken, dropped, changes, overtaken>>

\* The signal copies its slots.  Listeners of the role's own kind return at once
\* and are left out.
Signal(p, t) ==
    /\ call[t].at = "signal"
    /\ GoOn(t, [call[t] EXCEPT !.at = "notify",
                               !.local = {x \in slots_[p] : Opposite(x, call[t].msg.role)}])
    /\ UNCHANGED <<alive, warehouse, slots_, leaving, published, taken, dropped, changes, overtaken>>

\* The next slot is looked at: its callback runs if it is still connected.  They
\* are called in any order here, in the order of connection in the code.
NextSlot(p, t) ==
    /\ call[t].at = "notify" /\ call[t].slot = NoRole
    /\ \E x \in call[t].local :
         GoOn(t, [call[t] EXCEPT !.local = @ \ {x},
                                 !.slot = IF x \in slots_[p] THEN x ELSE NoRole])
    /\ UNCHANGED <<alive, warehouse, slots_, leaving, published, taken, dropped, changes, overtaken>>

-----------------------------------------------------------------------------
\* Join() and Leave() end with the broadcast of the change.
Publish(p, t) ==
    /\ published' = [published EXCEPT ![p] = Append(@, call[t].msg)]
    /\ call' = [call EXCEPT ![t] = NoCall]

\* Mutant: the host is not compared.
IsFromSameProcess_NoHost(p, msg) == process_id[proc[msg.role]] = process_id[p]

IsFromSameProcess(p, msg) ==
    /\ process_id[proc[msg.role]] = process_id[p]
    /\ host_name[proc[msg.role]] = host_name[p]

\* A change of another process arrives.  (A process receives its own ones, too, and
\* ignores them; those are left out.)
OnRemoteChange(p, q) ==
    /\ Idle(Remote(p)) /\ q # p /\ q \notin dropped[p]
    /\ taken[p][q] < Len(published[q])
    /\ LET msg == published[q][taken[p][q] + 1] IN
         call' = [call EXCEPT ![Remote(p)] =
                     IF IsFromSameProcess(p, msg) THEN NoCall ELSE Calling(msg)]
    /\ taken' = [taken EXCEPT ![p][q] = @ + 1]
    /\ UNCHANGED <<alive, warehouse, slots_, leaving, published, dropped, changes, overtaken>>

\* RTPS reports participant q as removed: its roles are searched by host and process.
OnTopoModuleLeave(p, q) ==
    /\ Idle(Participant(p)) /\ leaving[p] = {}
    /\ q # p /\ q \notin dropped[p]
    /\ alive[q] => changes < MaxChanges
    /\ changes' = IF alive[q] THEN changes + 1 ELSE changes
    /\ dropped' = [dropped EXCEPT ![p] = @ \cup {q}]
    /\ leaving' = [leaving EXCEPT ![p] =
           {x \in warehouse[p] : /\ host_name[proc[x]] = host_name[q]
                                 /\ process_id[proc[x]] = process_id[q]}]
    /\ overtaken' = overtaken \cup
           {<<p, x>> : x \in {y \in Role : /\ proc[y] = q
                                           /\ call[Remote(p)].msg.role = y}}
    /\ UNCHANGED <<alive, warehouse, slots_, call, published, taken>>

\* Its loops: the writers that were found, then the readers.
LeaveNext(p) ==
    /\ Idle(Participant(p))
    /\ \E x \in leaving[p] :
         /\ x \in Reader => leaving[p] \cap Writer = {}
         /\ leaving' = [leaving EXCEPT ![p] = @ \ {x}]
         /\ call' = [call EXCEPT ![Participant(p)] = Calling(Msg("leave", x))]
    /\ UNCHANGED <<alive, warehouse, slots_, published, taken, dropped, changes, overtaken>>

\* A participant that was dropped and lives is discovered again.
Rediscover(p, q) ==
    /\ Idle(Participant(p)) /\ leaving[p] = {}
    /\ q \in dropped[p] /\ alive[q]
    /\ dropped' = [dropped EXCEPT ![p] = @ \ {q}]
    /\ taken' = [taken EXCEPT ![p][q] = 0]
    /\ UNCHANGED <<alive, warehouse, slots_, call, leaving, published, changes, overtaken>>

\* What is left of a manager when its process ends.  Its changes may still be on
\* their way; no leave of its roles is broadcast.
ManagerEnds(p) ==
    /\ alive' = [alive EXCEPT ![p] = FALSE]
    /\ warehouse' = [warehouse EXCEPT ![p] = {}]
    /\ slots_' = [slots_ EXCEPT ![p] = {}]
    /\ call' = [t \in Thread |-> IF t \in ThreadsOf(p) THEN NoCall ELSE call[t]]
    /\ leaving' = [leaving EXCEPT ![p] = {}]
    /\ taken' = [taken EXCEPT ![p] = [q \in Process |-> 0]]
    /\ dropped' = [dropped EXCEPT ![p] = {}]
    /\ UNCHANGED <<published, overtaken>>
=============================================================================
