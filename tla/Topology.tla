------------------------------ MODULE Topology ------------------------------
(***************************************************************************)
(* Readers and writers of one channel in several processes                 *)
(* (code/cyber/node): how they join and leave the topology, and how the    *)
(* changes that the channel manager reports to them connect their          *)
(* transports.  A role is created and shut down once; a writer that is     *)
(* initialised again has a new id and is another role.                     *)
(***************************************************************************)
EXTENDS HybridTransport

VARIABLES
    at,     \* where the owner of each role is
    todo    \* the peers of the snapshot it has not enabled yet

roleVars == <<at, todo>>
vars == <<managerVars, transportVars, roleVars>>

Init ==
    /\ ManagerInit
    /\ TransportInit
    /\ at = [x \in Role |-> "new"]
    /\ todo = [x \in Role |-> {}]

-----------------------------------------------------------------------------
\* JoinTheTopology() connects the listener before it looks at the warehouse.
AddChangeListener(x) ==
    /\ at[x] = "new" /\ changes < MaxChanges
    /\ changes' = changes + 1
    /\ at' = [at EXCEPT ![x] = "connected"]
    /\ slots_' = [slots_ EXCEPT ![proc[x]] = @ \cup {x}]
    /\ UNCHANGED <<alive, warehouse, call, leaving, published, taken, dropped, overtaken>>
    /\ UNCHANGED <<transportVars, todo>>

\* GetReadersOfChannel() or GetWritersOfChannel().
GetPeers(x) ==
    /\ at[x] = "connected"
    /\ at' = [at EXCEPT ![x] = "enabling"]
    /\ todo' = [todo EXCEPT ![x] = {y \in warehouse[proc[x]] : Opposite(x, y)}]
    /\ UNCHANGED <<managerVars, transportVars>>

EnablePeer(x) ==
    /\ at[x] = "enabling"
    /\ \E y \in todo[x] :
         /\ Enable(x, y)
         /\ todo' = [todo EXCEPT ![x] = @ \ {y}]
    /\ UNCHANGED <<managerVars, at>>

Join(x) ==
    /\ at[x] = "enabling" /\ todo[x] = {}
    /\ at' = [at EXCEPT ![x] = "joining"]
    /\ call' = [call EXCEPT ![Owner(x)] = Calling(Msg("join", x))]
    /\ UNCHANGED <<alive, warehouse, slots_, leaving, published, taken, dropped, changes, overtaken>>
    /\ UNCHANGED <<transportVars, todo>>

PublishJoin(x) ==
    /\ at[x] = "joining" /\ Notified(Owner(x))
    /\ Publish(proc[x], Owner(x))
    /\ at' = [at EXCEPT ![x] = "joined"]
    /\ UNCHANGED <<alive, warehouse, slots_, leaving, taken, dropped, changes, overtaken>>
    /\ UNCHANGED <<transportVars, todo>>

\* LeaveTheTopology() disconnects the listener and calls Leave().
Leave(x) ==
    /\ at[x] = "joined" /\ changes < MaxChanges
    /\ at' = [at EXCEPT ![x] = "leaving"]
    /\ changes' = changes + 1
    /\ slots_' = [slots_ EXCEPT ![proc[x]] = @ \ {x}]
    /\ call' = [call EXCEPT ![Owner(x)] = Calling(Msg("leave", x))]
    /\ UNCHANGED <<alive, warehouse, leaving, published, taken, dropped, overtaken>>
    /\ UNCHANGED <<transportVars, todo>>

\* Mutant: the leave is only disposed of in the own process.
PublishLeave_Silent(x) ==
    /\ at[x] = "leaving" /\ Notified(Owner(x))
    /\ call' = [call EXCEPT ![Owner(x)] = NoCall]
    /\ at' = [at EXCEPT ![x] = "gone"]
    /\ ClearTransmitters({x} \cap Writer)
    /\ UNCHANGED <<alive, warehouse, slots_, leaving, published, taken, dropped, changes,
                   overtaken, transmitters_, todo>>

\* The leave is broadcast, and Shutdown() gives up the transmitter or the receiver.
PublishLeave(x) ==
    /\ at[x] = "leaving" /\ Notified(Owner(x))
    /\ Publish(proc[x], Owner(x))
    /\ at' = [at EXCEPT ![x] = "gone"]
    /\ ClearTransmitters({x} \cap Writer)
    /\ UNCHANGED <<alive, warehouse, slots_, leaving, taken, dropped, changes, overtaken>>
    /\ UNCHANGED <<transmitters_, todo>>

-----------------------------------------------------------------------------
\* Nothing of a process that ends is left.
ProcessEnds(p) ==
    /\ ManagerEnds(p)
    /\ TransportEnds(p)
    /\ at' = [x \in Role |-> IF proc[x] = p THEN "gone" ELSE at[x]]
    /\ todo' = [x \in Role |-> IF proc[x] = p THEN {} ELSE todo[x]]

\* OnChannelChange() of the reader or writer whose slot was found connected.  If
\* it was shut down since, its transmitter or receiver is a null pointer.
OnChannelChange(p, t) ==
    LET x == call[t].slot
        msg == call[t].msg
    IN /\ x # NoRole
       /\ \/ /\ at[x] # "gone"
             /\ \/ msg.opt = "join" /\ Enable(x, msg.role)
                \/ msg.opt = "leave" /\ Disable(x, msg.role)
             /\ GoOn(t, [call[t] EXCEPT !.slot = NoRole])
             /\ UNCHANGED <<alive, warehouse, slots_, leaving, published, taken, dropped,
                            changes, overtaken>>
             /\ UNCHANGED roleVars
          \/ at[x] = "gone" /\ ProcessEnds(p) /\ UNCHANGED changes

-----------------------------------------------------------------------------
\* Mutant: the peers are looked up before the listener is connected.
OwnerStep_PeersFirst(x) ==
    /\ alive[proc[x]]
    /\ \/ /\ at[x] = "new" /\ changes < MaxChanges
          /\ changes' = changes + 1
          /\ at' = [at EXCEPT ![x] = "connected"]
          /\ todo' = [todo EXCEPT ![x] = {y \in warehouse[proc[x]] : Opposite(x, y)}]
          /\ UNCHANGED <<alive, warehouse, slots_, call, leaving, published, taken, dropped,
                         overtaken, transportVars>>
       \/ /\ at[x] = "connected"
          /\ at' = [at EXCEPT ![x] = "enabling"]
          /\ slots_' = [slots_ EXCEPT ![proc[x]] = @ \cup {x}]
          /\ UNCHANGED <<alive, warehouse, call, leaving, published, taken, dropped,
                         changes, overtaken, transportVars, todo>>
       \/ EnablePeer(x) \/ Join(x) \/ PublishJoin(x) \/ Leave(x) \/ PublishLeave(x)

OwnerStep(x) ==
    /\ alive[proc[x]]
    /\ \/ AddChangeListener(x) \/ GetPeers(x) \/ EnablePeer(x)
       \/ Join(x) \/ PublishJoin(x) \/ Leave(x) \/ PublishLeave(x)

Notify(p, t) ==
    /\ alive[p]
    /\ \/ /\ Dispose(p, t) \/ Signal(p, t) \/ NextSlot(p, t)
          /\ UNCHANGED <<transportVars, roleVars>>
       \/ OnChannelChange(p, t)

Discovery(p) ==
    /\ alive[p]
    /\ LeaveNext(p) \/ \E q \in Process : \/ OnRemoteChange(p, q)
                                          \/ OnTopoModuleLeave(p, q)
                                          \/ Rediscover(p, q)
    /\ UNCHANGED <<transportVars, roleVars>>

\* A process ends without a word, by itself.
Ends(p) == alive[p] /\ changes < MaxChanges /\ changes' = changes + 1 /\ ProcessEnds(p)

Next ==
    \/ \E x \in Role : OwnerStep(x)
    \/ \E p \in Process : (\E t \in ThreadsOf(p) : Notify(p, t)) \/ Discovery(p) \/ Ends(p)

Spec == Init /\ [][Next]_vars

\* The threads go on; a role may stay new or joined, and a process may run for ever.
\* RTPS delivers what was published, reports a dead participant and finds a live
\* one again.
Fairness ==
    /\ \A x \in Role : WF_vars(at[x] # "new" /\ at[x] # "joined" /\ OwnerStep(x))
    /\ \A p \in Process :
         /\ \A t \in ThreadsOf(p) : WF_vars(Notify(p, t))
         /\ WF_vars(alive[p] /\ LeaveNext(p) /\ UNCHANGED <<transportVars, roleVars>>)
         /\ \A q \in Process :
              /\ WF_vars(alive[p] /\ OnRemoteChange(p, q) /\ UNCHANGED <<transportVars, roleVars>>)
              /\ WF_vars(alive[p] /\ Rediscover(p, q) /\ UNCHANGED <<transportVars, roleVars>>)
              /\ WF_vars(alive[p] /\ ~alive[q] /\ OnTopoModuleLeave(p, q)
                         /\ UNCHANGED <<transportVars, roleVars>>)

FairSpec == Spec /\ Fairness
-----------------------------------------------------------------------------
TypeOK ==
    /\ alive \in [Process -> BOOLEAN]
    /\ warehouse \in [Process -> SUBSET Role]
    /\ slots_ \in [Process -> SUBSET Role]
    /\ call \in [Thread -> Call]
    /\ leaving \in [Process -> SUBSET Role]
    /\ published \in [Process -> Seq(ChangeMsg)]
    /\ taken \in [Process -> [Process -> Nat]]
    /\ dropped \in [Process -> SUBSET Process]
    /\ changes \in 0..MaxChanges
    /\ overtaken \subseteq Process \X Role
    /\ receivers_ \in [Writer -> [Mode -> SUBSET {id(x) : x \in Reader}]]
    /\ enabled_ \in [Writer -> SUBSET Mode]
    /\ transmitters_ \in [Process -> [Mode -> SUBSET Writer]]
    /\ at \in [Role -> {"new", "connected", "enabling", "joining", "joined", "leaving", "gone"}]
    /\ todo \in [Role -> SUBSET Role]

\* Call c still has to tell x that y joined.
Tells(c, x, y) ==
    /\ c.msg = Msg("join", y)
    /\ c.at = "signal" \/ (c.at = "notify" /\ x \in c.local \cup {c.slot})

JoinUnderWay(p, x, y) == \E t \in ThreadsOf(p) : Tells(call[t], x, y)

\* Another reader with the receiver of reader y has left, or is leaving.
SharerLeft(y) ==
    \E z \in Reader : z # y /\ y \in Reader /\ id(z) = id(y) /\ at[z] \in {"leaving", "gone"}

\* What may keep x from serving a peer y that its channel manager knows: the peer is
\* still to come from the snapshot or from a notification under way, is about to be
\* removed with its process, came with a join that the removal of its process overtook,
\* or shares its Receiver with a reader that left.
Excused(p, x, y) ==
    \/ at[x] = "connected" \/ y \in todo[x]
    \/ JoinUnderWay(p, x, y)
    \/ y \in leaving[p] \/ call[Participant(p)].msg.role = y
    \/ <<p, y>> \in overtaken
    \/ SharerLeft(y)

\* Whatever the interleaving of joins, leaves, remote changes and lost participants,
\* a connected role serves every peer its channel manager knows, or is excused.
PeersServed ==
    \A p \in Process : \A x \in slots_[p] : \A y \in warehouse[p] :
       Opposite(x, y) => Serves(x, y) \/ Excused(p, x, y)

\* A process takes a role out of its warehouse only when that role leaves or has left, or
\* when RTPS reported the role's process as removed; the leave of one reader does not
\* take away another one that carries the same receiver id.
RemovedHasLeft ==
    [][\A p \in Process : \A x \in warehouse[p] \ warehouse'[p] :
          at[x] \in {"leaving", "gone"} \/ proc[x] \in dropped[p] \/ ~alive'[p]]_vars

\* A writer and a reader that both stay in the topology end up serving each other for
\* good, also when one process dropped the other for a while.
PeersConnect ==
    \A w \in Writer, r \in Reader :
       <>[](at[w] = "joined" /\ at[r] = "joined" /\ ~SharerLeft(r))
          => <>[](Serves(w, r) /\ Serves(r, w))

\* A role that left, by itself or with its process, is forgotten by every process that
\* lives on, unless the removal of its process overtook its join.
LeftIsForgotten ==
    \A p \in Process, x \in Role :
       <>[](at[x] = "gone" /\ alive[p] /\ <<p, x>> \notin overtaken)
          => <>[](x \notin warehouse[p])
=============================================================================
