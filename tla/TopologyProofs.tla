--------------------------- MODULE TopologyProofs ---------------------------
(***************************************************************************)
(* Proofs about Topology, for any processes, writers and readers:          *)
(* PeersServed and RemovedHasLeft.  The difficulty is that three kinds of  *)
(* threads of a process update the warehouse and notify the listeners at   *)
(* once; the inductive invariant says which of them can be busy with the   *)
(* same role.                                                              *)
(***************************************************************************)
EXTENDS Topology, TLAPS

\* A listener belongs to a role of the process that is between its connection and
\* its leave.
Connected ==
    \A p \in Process : \A x \in slots_[p] :
       proc[x] = p /\ at[x] \in {"connected", "enabling", "joining", "joined"}

\* The owner of a role disposes of nothing but that role, and when its state says so.
OwnerCalls ==
    \A x \in Role :
       LET c == call[Owner(x)] IN
       \/ c = NoCall /\ at[x] \notin {"joining", "leaving"}
       \/ c.at # "idle" /\ c.msg = Msg("join", x) /\ at[x] = "joining"
       \/ c.at # "idle" /\ c.msg = Msg("leave", x) /\ at[x] = "leaving"

\* A process broadcasts changes of its own roles, and a leave only when the role is gone.
PublishedIsOwn ==
    \A p \in Process : \A i \in 1..Len(published[p]) :
       LET m == published[p][i] IN
       proc[m.role] = p /\ (m.opt = "leave" => at[m.role] = "gone")

\* What the remote thread disposes of was broadcast by another process.
RemoteCalls ==
    \A p \in Process :
       LET c == call[Remote(p)] IN
       \/ c = NoCall
       \/ /\ c.at # "idle" /\ c.msg \in ChangeMsg
          /\ proc[c.msg.role] # p
          /\ c.msg.opt = "leave" => at[c.msg.role] = "gone"

\* The participant thread removes roles of dropped processes.
ParticipantCalls ==
    \A p \in Process :
       LET c == call[Participant(p)] IN
       /\ p \notin dropped[p]
       /\ \A x \in leaving[p] : proc[x] \in dropped[p]
       /\ \/ c = NoCall
          \/ /\ c.at # "idle" /\ c.msg \in ChangeMsg
             /\ c.msg.opt = "leave" /\ proc[c.msg.role] \in dropped[p]

\* The remote thread is busy with a role of a dropped process only if the removal of
\* the process overtook that change.
RemoteOvertaken ==
    \A p \in Process, y \in Role :
       proc[y] \in dropped[p] /\ call[Remote(p)].msg.role = y => <<p, y>> \in overtaken

\* The roles of a dropped process that are still in the warehouse are about to be
\* removed, or came with an overtaken join.
DroppedIsRemoved ==
    \A p \in Process : \A y \in warehouse[p] :
       proc[y] \in dropped[p] =>
          \/ y \in leaving[p]
          \/ call[Participant(p)].at = "dispose" /\ call[Participant(p)].msg.role = y
          \/ <<p, y>> \in overtaken

\* A role whose leave is being notified is out of the warehouse.
LeaveRemoves ==
    \A p \in Process : \A t \in ThreadsOf(p) :
       call[t].at \in {"signal", "notify"} /\ call[t].msg.opt = "leave" =>
          call[t].msg.role \notin warehouse[p] \/ <<p, call[t].msg.role>> \in overtaken

\* A slot that is being called, or still has to be, is that of a possible peer, and so
\* is what is left of a snapshot.
SlotsArePeers ==
    /\ \A x \in Role : \A y \in todo[x] : Opposite(x, y)
    /\ \A p \in Process : \A t \in ThreadsOf(p) :
          /\ \A x \in call[t].local : proc[x] = p /\ Opposite(x, call[t].msg.role)
          /\ call[t].slot # NoRole => /\ proc[call[t].slot] = p /\ call[t].at = "notify"
                                      /\ Opposite(call[t].slot, call[t].msg.role)

Threads == OwnerCalls /\ PublishedIsOwn /\ RemoteCalls /\ ParticipantCalls
Removal == RemoteOvertaken /\ DroppedIsRemoved /\ LeaveRemoves

IInv == TypeOK /\ Connected /\ SlotsArePeers /\ Threads /\ Removal /\ PeersServed

-----------------------------------------------------------------------------
\* The threads of a process, and how they differ.
LEMMA ThreadFacts ==
    /\ \A p \in Process : Remote(p) \in ThreadsOf(p) /\ Participant(p) \in ThreadsOf(p)
    /\ \A x \in Role : Owner(x) \in ThreadsOf(proc[x]) /\ proc[x] \in Process
    /\ \A p \in Process : \A t \in ThreadsOf(p) :
          /\ t \in Thread
          /\ \/ t = Remote(p) \/ t = Participant(p)
             \/ \E x \in Role : proc[x] = p /\ t = Owner(x)
    /\ \A p, q \in Process : \A t \in ThreadsOf(p) : t \in ThreadsOf(q) => p = q
    /\ \A x, y \in Role : Owner(x) = Owner(y) => x = y
    /\ \A x \in Role : Owner(x)[1] = "owner"
    /\ \A p \in Process : Remote(p)[1] # "owner" /\ Participant(p)[1] # "owner"
    /\ \A p, q \in Process : Remote(p) # Participant(q)
BY RoleAssumption DEF ThreadsOf, Thread, Owner, Remote, Participant, Role

\* The parts of messages and calls.
LEMMA CallFacts ==
    /\ NoCall \in Call /\ NoCall.at = "idle" /\ NoCall.local = {} /\ NoCall.slot = NoRole
    /\ NoCall.msg.role = NoRole /\ NoRole \notin Role
    /\ \A opt \in {"join", "leave"}, x \in Role :
          Msg(opt, x) \in ChangeMsg /\ Msg(opt, x).opt = opt /\ Msg(opt, x).role = x
    /\ \A m \in ChangeMsg :
          m.role \in Role /\ m.opt \in {"join", "leave"} /\ m = Msg(m.opt, m.role)
    /\ \A m \in ChangeMsg : /\ Calling(m) \in Call /\ Calling(m).at = "dispose"
                            /\ Calling(m).msg = m
                            /\ Calling(m).local = {} /\ Calling(m).slot = NoRole
    /\ \A c \in Call : /\ c.at \in {"idle", "dispose", "signal", "notify"}
                       /\ c.local \subseteq Role /\ c.slot \in Role \cup {NoRole}
                       /\ c.msg.role \in Role \cup {NoRole}
<1>1. NoCall \in Call
  BY DEF NoCall, Call
<1>2. /\ NoCall.at = "idle" /\ NoCall.local = {} /\ NoCall.slot = NoRole
      /\ NoCall.msg.role = NoRole /\ NoRole \notin Role
  BY RoleAssumption DEF NoCall
<1>3. \A opt \in {"join", "leave"}, x \in Role :
         Msg(opt, x) \in ChangeMsg /\ Msg(opt, x).opt = opt /\ Msg(opt, x).role = x
  BY DEF Msg, ChangeMsg
<1>4. \A m \in ChangeMsg :
         m.role \in Role /\ m.opt \in {"join", "leave"} /\ m = Msg(m.opt, m.role)
  BY DEF Msg, ChangeMsg
<1>5. ASSUME NEW m \in ChangeMsg
      PROVE  /\ Calling(m) \in Call /\ Calling(m).at = "dispose" /\ Calling(m).msg = m
             /\ Calling(m).local = {} /\ Calling(m).slot = NoRole
  <2>1. m \in [opt : {"join", "leave"}, role : Role \cup {NoRole}]
    BY DEF ChangeMsg
  <2> QED
    BY <2>1 DEF Call, Calling
<1>6. \A c \in Call : /\ c.at \in {"idle", "dispose", "signal", "notify"}
                      /\ c.local \subseteq Role /\ c.slot \in Role \cup {NoRole}
                      /\ c.msg.role \in Role \cup {NoRole}
  BY DEF Call
<1> QED
  BY <1>1, <1>2, <1>3, <1>4, <1>5, <1>6

\* Ids tell roles apart, except the readers of one process, which their nodes tell apart.
LEMMA IdFacts ==
    /\ \A x, y \in Role : id(x) = id(y) => x = y \/ (x \in Reader /\ y \in Reader /\ proc[x] = proc[y])
    /\ \A x, y \in Role : Match(x, y) <=> x = y
BY RoleAssumption DEF id, Match, Role

\* The configuration has a mode for each pair.
LEMMA ModeFacts == \A x, y \in Role : ModeOf(x, y) \in Mode
BY MappingAssumption DEF ModeOf, GetRelation, Relation, Role

\* A step of thread t, after which its call is d, keeps the joins under way that
\* the call does not give up.
LEMMA JoinKept ==
    ASSUME TypeOK, NEW t \in Thread, NEW d, call' = [call EXCEPT ![t] = d],
           NEW p, NEW x, NEW y, JoinUnderWay(p, x, y),
           t \in ThreadsOf(p) /\ Tells(call[t], x, y) => Tells(d, x, y)
    PROVE  JoinUnderWay(p, x, y)'
<1>1. PICK u \in ThreadsOf(p) : Tells(call[u], x, y)
  BY DEF JoinUnderWay
<1>2. Tells(call'[u], x, y)
  <2>1. CASE u = t
    BY <2>1, <1>1 DEF TypeOK
  <2>2. CASE u # t
    BY <2>2, <1>1
  <2> QED
    BY <2>1, <2>2
<1> QED
  BY <1>1, <1>2 DEF JoinUnderWay, Tells

\* Enabling a peer serves it and keeps the others served.
LEMMA EnableServes ==
    ASSUME TypeOK, NEW x \in Role, NEW y \in Role, Opposite(x, y), Enable(x, y)
    PROVE  /\ Serves(x, y)'
           /\ \A u, v \in Role : Opposite(u, v) /\ Serves(u, v) => Serves(u, v)'
           /\ receivers_' \in [Writer -> [Mode -> SUBSET {id(r) : r \in Reader}]]
           /\ enabled_' \in [Writer -> SUBSET Mode]
           /\ transmitters_' \in [Process -> [Mode -> SUBSET Writer]]
<1> DEFINE m == ModeOf(x, y)
<1>1. m \in Mode /\ proc[x] \in Process /\ (\A u, v \in Role : ModeOf(u, v) \in Mode)
  BY ModeFacts, ThreadFacts
<1>2. \A u \in Role : u \in Writer <=> u \notin Reader
  BY RoleAssumption DEF Role
<1> HIDE DEF m
<1>3. CASE x \in Writer
  <2>1. /\ receivers_' = [receivers_ EXCEPT ![x][m] = @ \cup {id(y)}]
        /\ enabled_' = [enabled_ EXCEPT ![x] = @ \cup {m}]
        /\ transmitters_' = transmitters_
    BY <1>2, <1>3 DEF Enable, TransmitterEnable, ReceiverEnable, m
  <2>2. y \in Reader
    BY <1>2, <1>3 DEF Opposite
  <2>3. /\ receivers_' \in [Writer -> [Mode -> SUBSET {id(r) : r \in Reader}]]
        /\ enabled_' \in [Writer -> SUBSET Mode]
        /\ transmitters_' \in [Process -> [Mode -> SUBSET Writer]]
    BY <2>1, <2>2, <1>1, <1>3 DEF TypeOK
  <2>4. Serves(x, y)'
    BY <2>1, <1>1, <1>3 DEF TypeOK, Serves, m
  <2>5. \A w \in Writer : /\ enabled_[w] \subseteq enabled_'[w]
                          /\ \A n \in Mode : receivers_[w][n] \subseteq receivers_'[w][n]
    BY <2>1, <1>1, <1>3 DEF TypeOK
  <2>6. \A u, v \in Role : Opposite(u, v) /\ Serves(u, v) => Serves(u, v)'
    BY <2>1, <2>5, <1>1 DEF Serves
  <2> QED
    BY <2>3, <2>4, <2>6
<1>4. CASE x \in Reader
  <2>1. /\ transmitters_' = [transmitters_ EXCEPT ![proc[x]][m] = @ \cup {y}]
        /\ receivers_' = receivers_ /\ enabled_' = enabled_
    BY <1>2, <1>4 DEF Enable, TransmitterEnable, ReceiverEnable, m
  <2>2. y \in Writer
    BY <1>2, <1>4 DEF Opposite
  <2>3. /\ receivers_' \in [Writer -> [Mode -> SUBSET {id(r) : r \in Reader}]]
        /\ enabled_' \in [Writer -> SUBSET Mode]
        /\ transmitters_' \in [Process -> [Mode -> SUBSET Writer]]
    BY <2>1, <2>2, <1>1 DEF TypeOK
  <2>4. Serves(x, y)'
    BY <2>1, <1>1, <1>4 DEF TypeOK, Serves, m
  <2>5. \A p \in Process : \A n \in Mode : transmitters_[p][n] \subseteq transmitters_'[p][n]
    BY <2>1, <1>1 DEF TypeOK
  <2>6. \A u, v \in Role : Opposite(u, v) /\ Serves(u, v) => Serves(u, v)'
    BY <2>1, <2>5, <1>1, ThreadFacts DEF Serves
  <2> QED
    BY <2>3, <2>4, <2>6
<1> QED
  BY <1>3, <1>4 DEF Role

\* Disabling a peer keeps those served that have another id, and those of other
\* processes: a mode is switched off only when nobody is left behind it.
LEMMA DisableServes ==
    ASSUME TypeOK, NEW x \in Role, NEW y \in Role, Opposite(x, y), Disable(x, y)
    PROVE  /\ \A u, v \in Role : Serves(u, v) /\ (id(v) # id(y) \/ proc[u] # proc[x]) => Serves(u, v)'
           /\ receivers_' \in [Writer -> [Mode -> SUBSET {id(r) : r \in Reader}]]
           /\ enabled_' \in [Writer -> SUBSET Mode]
           /\ transmitters_' \in [Process -> [Mode -> SUBSET Writer]]
<1> DEFINE m == ModeOf(x, y)
<1>1. m \in Mode /\ proc[x] \in Process /\ (\A u, v \in Role : ModeOf(u, v) \in Mode)
  BY ModeFacts, ThreadFacts
<1>2. \A u \in Role : u \in Writer <=> u \notin Reader
  BY RoleAssumption DEF Role
<1> HIDE DEF m
<1>3. CASE x \in Writer
  <2>1. /\ receivers_' = [receivers_ EXCEPT ![x][m] = @ \ {id(y)}]
        /\ enabled_' = [enabled_ EXCEPT ![x] = IF receivers_'[x][m] = {} THEN @ \ {m} ELSE @]
        /\ transmitters_' = transmitters_
    BY <1>2, <1>3 DEF Disable, TransmitterDisable, ReceiverDisable, m
  <2>2. /\ receivers_' \in [Writer -> [Mode -> SUBSET {id(r) : r \in Reader}]]
        /\ enabled_' \in [Writer -> SUBSET Mode]
        /\ transmitters_' \in [Process -> [Mode -> SUBSET Writer]]
    BY <2>1, <1>1, <1>3 DEF TypeOK
  <2>3. \A w \in Writer : \A n \in Mode : \A i \in receivers_[w][n] :
           i # id(y) \/ w # x => i \in receivers_'[w][n]
    BY <2>1, <1>1, <1>3 DEF TypeOK
  <2>4. \A w \in Writer : \A n \in enabled_[w] :
           receivers_'[w][n] # {} => n \in enabled_'[w]
    BY <2>1, <1>1, <1>3 DEF TypeOK
  <2>5. \A u, v \in Role : Serves(u, v) /\ (id(v) # id(y) \/ proc[u] # proc[x]) => Serves(u, v)'
    BY <2>1, <2>3, <2>4, <1>1 DEF Serves
  <2> QED
    BY <2>2, <2>5
<1>4. CASE x \in Reader
  <2>1. /\ transmitters_' = [transmitters_ EXCEPT ![proc[x]][m] = @ \ {y}]
        /\ receivers_' = receivers_ /\ enabled_' = enabled_
    BY <1>2, <1>4 DEF Disable, TransmitterDisable, ReceiverDisable, m
  <2>2. /\ receivers_' \in [Writer -> [Mode -> SUBSET {id(r) : r \in Reader}]]
        /\ enabled_' \in [Writer -> SUBSET Mode]
        /\ transmitters_' \in [Process -> [Mode -> SUBSET Writer]]
    BY <2>1, <1>1 DEF TypeOK
  <2>3. \A p \in Process : \A n \in Mode : \A v \in transmitters_[p][n] :
           v # y \/ p # proc[x] => v \in transmitters_'[p][n]
    BY <2>1, <1>1 DEF TypeOK
  <2>4. \A u, v \in Role : Serves(u, v) /\ (id(v) # id(y) \/ proc[u] # proc[x]) => Serves(u, v)'
    BY <2>1, <2>3, <1>1, ThreadFacts DEF Serves
  <2> QED
    BY <2>2, <2>4
<1> QED
  BY <1>3, <1>4 DEF Role

-----------------------------------------------------------------------------
\* The owner of a role joins the topology.
LEMMA AddChangeListenerStep ==
    ASSUME IInv, NEW x \in Role, AddChangeListener(x)
    PROVE  IInv'
<1> USE DEF IInv
<1>1. /\ slots_' = [slots_ EXCEPT ![proc[x]] = @ \cup {x}]
      /\ at' = [at EXCEPT ![x] = "connected"] /\ at[x] = "new"
      /\ changes' \in 0..MaxChanges
      /\ UNCHANGED <<alive, warehouse, call, leaving, published, taken, dropped, overtaken>>
      /\ UNCHANGED <<receivers_, enabled_, transmitters_, todo>>
  BY RoleAssumption DEF AddChangeListener, transportVars, TypeOK
<1>2. TypeOK'
  BY <1>1, ThreadFacts DEF TypeOK
<1>3. Connected' /\ SlotsArePeers'
  BY <1>1, ThreadFacts DEF TypeOK, Connected, SlotsArePeers
<1>4. Threads'
  BY <1>1 DEF TypeOK, Threads, OwnerCalls, PublishedIsOwn, RemoteCalls, ParticipantCalls
<1>5. Removal'
  BY <1>1 DEF Removal, RemoteOvertaken, DroppedIsRemoved, LeaveRemoves
<1>6. PeersServed'
  <2> SUFFICES ASSUME NEW p \in Process, NEW z \in slots_'[p], NEW y \in warehouse'[p],
                      Opposite(z, y), ~Serves(z, y)'
               PROVE  Excused(p, z, y)'
    BY DEF PeersServed
  <2>1. CASE z = x
    BY <2>1, <1>1 DEF TypeOK, Excused
  <2>2. CASE z # x
    <3>1. z \in slots_[p] /\ y \in warehouse[p]
      BY <2>2, <1>1, ThreadFacts DEF TypeOK
    <3>2. ~Serves(z, y)
      BY <1>1 DEF Serves
    <3>3. Excused(p, z, y)
      BY <3>1, <3>2 DEF PeersServed
    <3>4. JoinUnderWay(p, z, y) => JoinUnderWay(p, z, y)'
      BY <1>1 DEF JoinUnderWay
    <3>5. SharerLeft(y) => SharerLeft(y)'
      BY <1>1 DEF SharerLeft, TypeOK, Role
    <3>6. at'[z] = at[z]
      BY <2>2, <1>1 DEF TypeOK
    <3> QED
      BY <3>3, <3>4, <3>5, <3>6, <1>1 DEF Excused
  <2> QED
    BY <2>1, <2>2
<1> QED
  BY <1>2, <1>3, <1>4, <1>5, <1>6

\* The snapshot holds every peer of the warehouse, so nothing is lost with the excuse.
LEMMA GetPeersStep ==
    ASSUME IInv, NEW x \in Role, GetPeers(x)
    PROVE  IInv'
<1> USE DEF IInv
<1>1. /\ at' = [at EXCEPT ![x] = "enabling"] /\ at[x] = "connected"
      /\ todo' = [todo EXCEPT ![x] = {y \in warehouse[proc[x]] : Opposite(x, y)}]
      /\ UNCHANGED <<alive, warehouse, slots_, call, leaving, published, taken, dropped>>
      /\ UNCHANGED <<changes, overtaken, receivers_, enabled_, transmitters_>>
  BY DEF GetPeers, managerVars, transportVars
<1>2. TypeOK'
  BY <1>1, ThreadFacts DEF TypeOK
<1>3. Connected' /\ SlotsArePeers'
  BY <1>1, ThreadFacts DEF TypeOK, Connected, SlotsArePeers
<1>4. Threads'
  BY <1>1 DEF TypeOK, Threads, OwnerCalls, PublishedIsOwn, RemoteCalls, ParticipantCalls
<1>5. Removal'
  BY <1>1 DEF Removal, RemoteOvertaken, DroppedIsRemoved, LeaveRemoves
<1>6. PeersServed'
  <2> SUFFICES ASSUME NEW p \in Process, NEW z \in slots_[p], NEW y \in warehouse[p],
                      Opposite(z, y), ~Serves(z, y)'
               PROVE  Excused(p, z, y)'
    BY <1>1 DEF PeersServed
  <2>1. CASE z = x
    BY <2>1, <1>1 DEF TypeOK, Excused, Connected
  <2>2. CASE z # x
    <3>1. Excused(p, z, y)
      BY <1>1 DEF PeersServed, Serves
    <3>2. JoinUnderWay(p, z, y) => JoinUnderWay(p, z, y)'
      BY <1>1 DEF JoinUnderWay
    <3>3. SharerLeft(y) => SharerLeft(y)'
      BY <1>1 DEF SharerLeft, TypeOK, Role
    <3>4. at'[z] = at[z] /\ todo'[z] = todo[z]
      BY <2>2, <1>1 DEF TypeOK
    <3> QED
      BY <3>1, <3>2, <3>3, <3>4, <1>1 DEF Excused
  <2> QED
    BY <2>1, <2>2
<1> QED
  BY <1>2, <1>3, <1>4, <1>5, <1>6

\* A peer of the snapshot is enabled.
LEMMA EnablePeerStep ==
    ASSUME IInv, NEW x \in Role, EnablePeer(x)
    PROVE  IInv'
<1> USE DEF IInv
<1>1. PICK y \in todo[x] : Enable(x, y) /\ todo' = [todo EXCEPT ![x] = @ \ {y}]
  BY DEF EnablePeer
<1>2. /\ UNCHANGED <<alive, warehouse, slots_, call, leaving, published, taken, dropped>>
      /\ UNCHANGED <<changes, overtaken, at>>
  BY DEF EnablePeer, managerVars
<1>3. y \in Role /\ Opposite(x, y)
  BY <1>1 DEF TypeOK, SlotsArePeers
<1>4. TypeOK'
  BY <1>1, <1>2, <1>3, EnableServes DEF TypeOK
<1>5. Connected' /\ SlotsArePeers'
  BY <1>1, <1>2 DEF TypeOK, Connected, SlotsArePeers
<1>6. Threads' /\ Removal'
  BY <1>2 DEF Threads, OwnerCalls, PublishedIsOwn, RemoteCalls, ParticipantCalls,
              Removal, RemoteOvertaken, DroppedIsRemoved, LeaveRemoves
<1>7. PeersServed'
  <2> SUFFICES ASSUME NEW p \in Process, NEW z \in slots_[p], NEW v \in warehouse[p],
                      Opposite(z, v), ~Serves(z, v)'
               PROVE  Excused(p, z, v)'
    BY <1>2 DEF PeersServed
  <2>1. z \in Role /\ v \in Role
    BY DEF TypeOK
  <2>2. ~Serves(z, v) /\ ~(z = x /\ v = y)
    BY <2>1, <1>1, <1>3, EnableServes
  <2>3. Excused(p, z, v)
    BY <2>2 DEF PeersServed
  <2>4. v \in todo[z] => v \in todo'[z]
    BY <2>1, <2>2, <1>1 DEF TypeOK
  <2>5. JoinUnderWay(p, z, v) => JoinUnderWay(p, z, v)'
    BY <1>2 DEF JoinUnderWay
  <2>6. SharerLeft(v) => SharerLeft(v)'
    BY <1>2 DEF SharerLeft
  <2> QED
    BY <2>3, <2>4, <2>5, <2>6, <1>2 DEF Excused
<1> QED
  BY <1>4, <1>5, <1>6, <1>7

\* What a step of the owner of x leaves alone.
LEMMA OwnerKeepsOthers ==
    ASSUME TypeOK, NEW x \in Role, NEW d, call' = [call EXCEPT ![Owner(x)] = d]
    PROVE  /\ call'[Owner(x)] = d
           /\ \A t \in Thread : t # Owner(x) => call'[t] = call[t]
           /\ \A y \in Role : y # x => call'[Owner(y)] = call[Owner(y)]
           /\ \A p \in Process : /\ call'[Remote(p)] = call[Remote(p)]
                                 /\ call'[Participant(p)] = call[Participant(p)]
<1>1. Owner(x) \in Thread
  BY ThreadFacts
<1>2. /\ call'[Owner(x)] = d
      /\ \A t \in Thread : t # Owner(x) => call'[t] = call[t]
  BY <1>1 DEF TypeOK
<1>3. \A y \in Role : y # x => Owner(y) # Owner(x) /\ Owner(y) \in Thread
  BY ThreadFacts
<1>4. \A p \in Process : /\ Remote(p) # Owner(x) /\ Remote(p) \in Thread
                         /\ Participant(p) # Owner(x) /\ Participant(p) \in Thread
  BY ThreadFacts
<1> QED
  BY <1>2, <1>3, <1>4

\* Join() begins its Dispose().
LEMMA JoinStep ==
    ASSUME IInv, NEW x \in Role, Join(x)
    PROVE  IInv'
<1> USE DEF IInv
<1> DEFINE d == Calling(Msg("join", x))
<1>1. /\ at' = [at EXCEPT ![x] = "joining"] /\ at[x] = "enabling"
      /\ call' = [call EXCEPT ![Owner(x)] = d]
      /\ UNCHANGED <<alive, warehouse, slots_, leaving, published, taken, dropped, changes>>
      /\ UNCHANGED <<overtaken, receivers_, enabled_, transmitters_, todo>>
  BY DEF Join, transportVars
<1>2. d \in Call /\ d.at = "dispose" /\ d.msg = Msg("join", x) /\ d.local = {} /\ d.slot = NoRole
  BY CallFacts
<1> HIDE DEF d
<1>3. /\ call'[Owner(x)] = d
      /\ \A t \in Thread : t # Owner(x) => call'[t] = call[t]
      /\ \A y \in Role : y # x => call'[Owner(y)] = call[Owner(y)]
      /\ \A p \in Process : /\ call'[Remote(p)] = call[Remote(p)]
                            /\ call'[Participant(p)] = call[Participant(p)]
  BY <1>1, OwnerKeepsOthers
<1>4. TypeOK'
  BY <1>1, <1>2, ThreadFacts DEF TypeOK
<1>5. Connected' /\ SlotsArePeers'
  <2>1. Connected'
    BY <1>1 DEF TypeOK, Connected
  <2>2. SlotsArePeers'
    BY <1>1, <1>2, <1>3, ThreadFacts DEF SlotsArePeers
  <2> QED
    BY <2>1, <2>2
<1>6. Threads'
  <2>1. OwnerCalls'
    BY <1>1, <1>2, <1>3 DEF TypeOK, Threads, OwnerCalls
  <2>2. PublishedIsOwn' /\ RemoteCalls' /\ ParticipantCalls'
    BY <1>1, <1>3 DEF TypeOK, Threads, PublishedIsOwn, RemoteCalls, ParticipantCalls
  <2> QED
    BY <2>1, <2>2 DEF Threads
<1>7. Removal'
  <2>1. RemoteOvertaken' /\ DroppedIsRemoved'
    BY <1>1, <1>3 DEF Removal, RemoteOvertaken, DroppedIsRemoved
  <2>2. LeaveRemoves'
    <3> SUFFICES ASSUME NEW p \in Process, NEW t \in ThreadsOf(p),
                        call'[t].at \in {"signal", "notify"}, call'[t].msg.opt = "leave"
                 PROVE  \/ call'[t].msg.role \notin warehouse[p]
                        \/ <<p, call'[t].msg.role>> \in overtaken
      BY <1>1 DEF LeaveRemoves
    <3>1. t # Owner(x) /\ t \in Thread
      BY <1>2, <1>3, ThreadFacts
    <3> QED
      BY <3>1, <1>3 DEF Removal, LeaveRemoves
  <2> QED
    BY <2>1, <2>2 DEF Removal
<1>8. PeersServed'
  <2> SUFFICES ASSUME NEW p \in Process, NEW z \in slots_[p], NEW y \in warehouse[p],
                      Opposite(z, y), ~Serves(z, y)'
               PROVE  Excused(p, z, y)'
    BY <1>1 DEF PeersServed
  <2>1. Excused(p, z, y)
    BY <1>1 DEF PeersServed, Serves
  <2>2. ~Tells(call[Owner(x)], z, y)
    BY <1>1, CallFacts DEF Threads, OwnerCalls, Tells
  <2>3. JoinUnderWay(p, z, y) => JoinUnderWay(p, z, y)'
    BY <2>2, <1>1, JoinKept, ThreadFacts
  <2>4. SharerLeft(y) => SharerLeft(y)'
    BY <1>1 DEF SharerLeft, TypeOK, Role
  <2>5. at[z] = "connected" => at'[z] = "connected"
    BY <1>1 DEF TypeOK
  <2> QED
    BY <2>1, <2>3, <2>4, <2>5, <1>1, <1>3 DEF Excused
<1> QED
  BY <1>4, <1>5, <1>6, <1>7, <1>8

\* The join has been notified in the own process and is broadcast.
LEMMA PublishJoinStep ==
    ASSUME IInv, NEW x \in Role, PublishJoin(x)
    PROVE  IInv'
<1> USE DEF IInv
<1>1. /\ at' = [at EXCEPT ![x] = "joined"] /\ at[x] = "joining" /\ Notified(Owner(x))
      /\ call' = [call EXCEPT ![Owner(x)] = NoCall]
      /\ published' = [published EXCEPT ![proc[x]] = Append(@, call[Owner(x)].msg)]
      /\ UNCHANGED <<alive, warehouse, slots_, leaving, taken, dropped, changes>>
      /\ UNCHANGED <<overtaken, receivers_, enabled_, transmitters_, todo>>
  BY DEF PublishJoin, Publish, transportVars
<1>2. /\ call'[Owner(x)] = NoCall
      /\ \A t \in Thread : t # Owner(x) => call'[t] = call[t]
      /\ \A y \in Role : y # x => call'[Owner(y)] = call[Owner(y)]
      /\ \A p \in Process : /\ call'[Remote(p)] = call[Remote(p)]
                            /\ call'[Participant(p)] = call[Participant(p)]
  BY <1>1, OwnerKeepsOthers
<1>3. call[Owner(x)].msg = Msg("join", x) /\ Msg("join", x) \in ChangeMsg
  BY <1>1, CallFacts DEF Threads, OwnerCalls
<1>4. TypeOK'
  <2>1. published' \in [Process -> Seq(ChangeMsg)]
    BY <1>1, <1>3, ThreadFacts DEF TypeOK
  <2> QED
    BY <2>1, <1>1, ThreadFacts, CallFacts DEF TypeOK
<1>5. Connected' /\ SlotsArePeers'
  <2>1. Connected'
    BY <1>1 DEF TypeOK, Connected
  <2>2. SlotsArePeers'
    BY <1>1, <1>2, ThreadFacts, CallFacts DEF SlotsArePeers
  <2> QED
    BY <2>1, <2>2
<1>6. Threads'
  <2>1. OwnerCalls'
    BY <1>1, <1>2 DEF TypeOK, Threads, OwnerCalls
  <2>2. PublishedIsOwn'
    <3> SUFFICES ASSUME NEW p \in Process, NEW i \in 1..Len(published'[p])
                 PROVE  /\ proc[published'[p][i].role] = p
                        /\ published'[p][i].opt = "leave" => at'[published'[p][i].role] = "gone"
      BY DEF PublishedIsOwn
    <3>1. published[p] \in Seq(ChangeMsg)
      BY DEF TypeOK
    <3>2. CASE p = proc[x] /\ i = Len(published[p]) + 1
      <4>1. published'[p][i] = Msg("join", x)
        BY <3>1, <3>2, <1>1, <1>3 DEF TypeOK
      <4> QED
        BY <4>1, <3>2, CallFacts
    <3>3. CASE ~(p = proc[x] /\ i = Len(published[p]) + 1)
      <4>1. i \in 1..Len(published[p]) /\ published'[p][i] = published[p][i]
        BY <3>1, <3>3, <1>1, <1>3, ThreadFacts DEF TypeOK
      <4>2. published[p][i] \in ChangeMsg
        BY <3>1, <4>1
      <4>3. at[published[p][i].role] = "gone" => at'[published[p][i].role] = "gone"
        BY <4>2, <1>1, CallFacts DEF TypeOK
      <4> QED
        BY <4>1, <4>3 DEF Threads, PublishedIsOwn
    <3> QED
      BY <3>2, <3>3
  <2>3. RemoteCalls' /\ ParticipantCalls'
    BY <1>1, <1>2, CallFacts DEF TypeOK, Threads, RemoteCalls, ParticipantCalls
  <2> QED
    BY <2>1, <2>2, <2>3 DEF Threads
<1>7. Removal'
  <2>1. RemoteOvertaken' /\ DroppedIsRemoved'
    BY <1>1, <1>2 DEF Removal, RemoteOvertaken, DroppedIsRemoved
  <2>2. LeaveRemoves'
    <3> SUFFICES ASSUME NEW p \in Process, NEW t \in ThreadsOf(p),
                        call'[t].at \in {"signal", "notify"}, call'[t].msg.opt = "leave"
                 PROVE  \/ call'[t].msg.role \notin warehouse[p]
                        \/ <<p, call'[t].msg.role>> \in overtaken
      BY <1>1 DEF LeaveRemoves
    <3>1. t # Owner(x) /\ t \in Thread
      BY <1>2, CallFacts, ThreadFacts
    <3> QED
      BY <3>1, <1>2 DEF Removal, LeaveRemoves
  <2> QED
    BY <2>1, <2>2 DEF Removal
<1>8. PeersServed'
  <2> SUFFICES ASSUME NEW p \in Process, NEW z \in slots_[p], NEW y \in warehouse[p],
                      Opposite(z, y), ~Serves(z, y)'
               PROVE  Excused(p, z, y)'
    BY <1>1 DEF PeersServed
  <2>1. Excused(p, z, y)
    BY <1>1 DEF PeersServed, Serves
  <2>2. ~Tells(call[Owner(x)], z, y)
    BY <1>1, CallFacts DEF Notified, Done, Tells, TypeOK
  <2>3. JoinUnderWay(p, z, y) => JoinUnderWay(p, z, y)'
    BY <2>2, <1>1, JoinKept, ThreadFacts
  <2>4. SharerLeft(y) => SharerLeft(y)'
    BY <1>1 DEF SharerLeft, TypeOK, Role
  <2>5. at[z] = "connected" => at'[z] = "connected"
    BY <1>1 DEF TypeOK
  <2> QED
    BY <2>1, <2>3, <2>4, <2>5, <1>1, <1>2 DEF Excused
<1> QED
  BY <1>4, <1>5, <1>6, <1>7, <1>8

\* The owner of a role leaves the topology.
LEMMA LeaveStep ==
    ASSUME IInv, NEW x \in Role, Leave(x)
    PROVE  IInv'
<1> USE DEF IInv
<1> DEFINE d == Calling(Msg("leave", x))
<1>1. /\ at' = [at EXCEPT ![x] = "leaving"] /\ at[x] = "joined"
      /\ call' = [call EXCEPT ![Owner(x)] = d]
      /\ slots_' = [slots_ EXCEPT ![proc[x]] = @ \ {x}] /\ changes' \in 0..MaxChanges
      /\ UNCHANGED <<alive, warehouse, leaving, published, taken, dropped>>
      /\ UNCHANGED <<overtaken, receivers_, enabled_, transmitters_, todo>>
  BY RoleAssumption DEF TypeOK, Leave, transportVars
<1>2. d \in Call /\ d.at = "dispose" /\ d.msg = Msg("leave", x) /\ d.local = {} /\ d.slot = NoRole
  BY CallFacts
<1> HIDE DEF d
<1>3. /\ call'[Owner(x)] = d
      /\ \A t \in Thread : t # Owner(x) => call'[t] = call[t]
      /\ \A y \in Role : y # x => call'[Owner(y)] = call[Owner(y)]
      /\ \A p \in Process : /\ call'[Remote(p)] = call[Remote(p)]
                            /\ call'[Participant(p)] = call[Participant(p)]
  BY <1>1, OwnerKeepsOthers
<1>4. TypeOK'
  BY <1>1, <1>2, ThreadFacts DEF TypeOK
<1>5. Connected' /\ SlotsArePeers'
  <2>1. Connected'
    BY <1>1, ThreadFacts DEF TypeOK, Connected
  <2>2. SlotsArePeers'
    BY <1>1, <1>2, <1>3, ThreadFacts DEF SlotsArePeers
  <2> QED
    BY <2>1, <2>2
<1>6. Threads'
  <2>1. OwnerCalls'
    BY <1>1, <1>2, <1>3 DEF TypeOK, Threads, OwnerCalls
  <2>2. PublishedIsOwn' /\ RemoteCalls' /\ ParticipantCalls'
    BY <1>1, <1>3 DEF TypeOK, Threads, PublishedIsOwn, RemoteCalls, ParticipantCalls
  <2> QED
    BY <2>1, <2>2 DEF Threads
<1>7. Removal'
  <2>1. RemoteOvertaken' /\ DroppedIsRemoved'
    BY <1>1, <1>3 DEF Removal, RemoteOvertaken, DroppedIsRemoved
  <2>2. LeaveRemoves'
    <3> SUFFICES ASSUME NEW p \in Process, NEW t \in ThreadsOf(p),
                        call'[t].at \in {"signal", "notify"}, call'[t].msg.opt = "leave"
                 PROVE  \/ call'[t].msg.role \notin warehouse[p]
                        \/ <<p, call'[t].msg.role>> \in overtaken
      BY <1>1 DEF LeaveRemoves
    <3>1. t # Owner(x) /\ t \in Thread
      BY <1>2, <1>3, ThreadFacts
    <3> QED
      BY <3>1, <1>3 DEF Removal, LeaveRemoves
  <2> QED
    BY <2>1, <2>2 DEF Removal
<1>8. PeersServed'
  <2> SUFFICES ASSUME NEW p \in Process, NEW z \in slots_'[p], NEW y \in warehouse[p],
                      Opposite(z, y), ~Serves(z, y)'
               PROVE  Excused(p, z, y)'
    BY <1>1 DEF PeersServed
  <2>1. z \in slots_[p] /\ Excused(p, z, y)
    BY <1>1, ThreadFacts DEF TypeOK, PeersServed, Serves
  <2>2. ~Tells(call[Owner(x)], z, y)
    BY <1>1, CallFacts DEF Threads, OwnerCalls, Tells
  <2>3. JoinUnderWay(p, z, y) => JoinUnderWay(p, z, y)'
    BY <2>2, <1>1, JoinKept, ThreadFacts
  <2>4. SharerLeft(y) => SharerLeft(y)'
    BY <1>1 DEF SharerLeft, TypeOK, Role
  <2>5. at[z] = "connected" => at'[z] = "connected"
    BY <1>1 DEF TypeOK
  <2> QED
    BY <2>1, <2>3, <2>4, <2>5, <1>1, <1>3 DEF Excused
<1> QED
  BY <1>4, <1>5, <1>6, <1>7, <1>8

\* The leave is broadcast: its role is gone from then on.
LEMMA PublishLeaveStep ==
    ASSUME IInv, NEW x \in Role, PublishLeave(x)
    PROVE  IInv'
<1> USE DEF IInv
<1>1. /\ at' = [at EXCEPT ![x] = "gone"] /\ at[x] = "leaving" /\ Notified(Owner(x))
      /\ call' = [call EXCEPT ![Owner(x)] = NoCall]
      /\ published' = [published EXCEPT ![proc[x]] = Append(@, call[Owner(x)].msg)]
      /\ UNCHANGED <<alive, warehouse, slots_, leaving, taken, dropped, changes>>
      /\ ClearTransmitters({x} \cap Writer)
      /\ UNCHANGED <<overtaken, transmitters_, todo>>
  BY DEF PublishLeave, Publish
<1>2. /\ call'[Owner(x)] = NoCall
      /\ \A t \in Thread : t # Owner(x) => call'[t] = call[t]
      /\ \A y \in Role : y # x => call'[Owner(y)] = call[Owner(y)]
      /\ \A p \in Process : /\ call'[Remote(p)] = call[Remote(p)]
                            /\ call'[Participant(p)] = call[Participant(p)]
  BY <1>1, OwnerKeepsOthers
<1>3. call[Owner(x)].msg = Msg("leave", x) /\ Msg("leave", x) \in ChangeMsg
  BY <1>1, CallFacts DEF Threads, OwnerCalls
<1>4. TypeOK'
  <2>1. published' \in [Process -> Seq(ChangeMsg)]
    BY <1>1, <1>3, ThreadFacts DEF TypeOK
  <2>2. /\ receivers_' \in [Writer -> [Mode -> SUBSET {id(r) : r \in Reader}]]
        /\ enabled_' \in [Writer -> SUBSET Mode]
    BY <1>1 DEF TypeOK, ClearTransmitters
  <2> QED
    BY <2>1, <2>2, <1>1, ThreadFacts, CallFacts DEF TypeOK
<1>5. Connected' /\ SlotsArePeers'
  <2>1. Connected'
    BY <1>1 DEF TypeOK, Connected
  <2>2. SlotsArePeers'
    BY <1>1, <1>2, ThreadFacts, CallFacts DEF SlotsArePeers
  <2> QED
    BY <2>1, <2>2
<1>6. Threads'
  <2>1. OwnerCalls'
    BY <1>1, <1>2 DEF TypeOK, Threads, OwnerCalls
  <2>2. PublishedIsOwn'
    <3> SUFFICES ASSUME NEW p \in Process, NEW i \in 1..Len(published'[p])
                 PROVE  /\ proc[published'[p][i].role] = p
                        /\ published'[p][i].opt = "leave" => at'[published'[p][i].role] = "gone"
      BY DEF PublishedIsOwn
    <3>1. published[p] \in Seq(ChangeMsg)
      BY DEF TypeOK
    <3>2. CASE p = proc[x] /\ i = Len(published[p]) + 1
      <4>1. published'[p][i] = Msg("leave", x)
        BY <3>1, <3>2, <1>1, <1>3 DEF TypeOK
      <4> QED
        BY <4>1, <3>2, <1>1, CallFacts DEF TypeOK
    <3>3. CASE ~(p = proc[x] /\ i = Len(published[p]) + 1)
      <4>1. i \in 1..Len(published[p]) /\ published'[p][i] = published[p][i]
        BY <3>1, <3>3, <1>1, <1>3, ThreadFacts DEF TypeOK
      <4>2. published[p][i] \in ChangeMsg
        BY <3>1, <4>1
      <4>3. at[published[p][i].role] = "gone" => at'[published[p][i].role] = "gone"
        BY <4>2, <1>1, CallFacts DEF TypeOK
      <4> QED
        BY <4>1, <4>3 DEF Threads, PublishedIsOwn
    <3> QED
      BY <3>2, <3>3
  <2>3. RemoteCalls' /\ ParticipantCalls'
    BY <1>1, <1>2, CallFacts DEF TypeOK, Threads, RemoteCalls, ParticipantCalls
  <2> QED
    BY <2>1, <2>2, <2>3 DEF Threads
<1>7. Removal'
  <2>1. RemoteOvertaken' /\ DroppedIsRemoved'
    BY <1>1, <1>2 DEF Removal, RemoteOvertaken, DroppedIsRemoved
  <2>2. LeaveRemoves'
    <3> SUFFICES ASSUME NEW p \in Process, NEW t \in ThreadsOf(p),
                        call'[t].at \in {"signal", "notify"}, call'[t].msg.opt = "leave"
                 PROVE  \/ call'[t].msg.role \notin warehouse[p]
                        \/ <<p, call'[t].msg.role>> \in overtaken
      BY <1>1 DEF LeaveRemoves
    <3>1. t # Owner(x) /\ t \in Thread
      BY <1>2, CallFacts, ThreadFacts
    <3> QED
      BY <3>1, <1>2 DEF Removal, LeaveRemoves
  <2> QED
    BY <2>1, <2>2 DEF Removal
<1>8. PeersServed'
  <2> SUFFICES ASSUME NEW p \in Process, NEW z \in slots_[p], NEW y \in warehouse[p],
                      Opposite(z, y), ~Serves(z, y)'
               PROVE  Excused(p, z, y)'
    BY <1>1 DEF PeersServed
  <2>1. z # x /\ z \in Role
    BY <1>1 DEF TypeOK, Connected
  <2>2. ~Serves(z, y)
    BY <2>1, <1>1 DEF Serves, ClearTransmitters
  <2>3. Excused(p, z, y)
    BY <2>2 DEF PeersServed
  <2>4. ~Tells(call[Owner(x)], z, y)
    BY <1>1, CallFacts DEF Notified, Done, Tells, TypeOK
  <2>5. JoinUnderWay(p, z, y) => JoinUnderWay(p, z, y)'
    BY <2>4, <1>1, JoinKept, ThreadFacts
  <2>6. SharerLeft(y) => SharerLeft(y)'
    BY <1>1 DEF SharerLeft, TypeOK, Role
  <2>7. at[z] = "connected" => at'[z] = "connected"
    BY <1>1 DEF TypeOK
  <2> QED
    BY <2>3, <2>5, <2>6, <2>7, <1>1, <1>2 DEF Excused
<1> QED
  BY <1>4, <1>5, <1>6, <1>7, <1>8

-----------------------------------------------------------------------------
\* Steps of a call under way on thread t of process p.

\* A step of thread t leaves the other calls alone.
LEMMA ThreadKeepsOthers ==
    ASSUME TypeOK, NEW t \in Thread, NEW d, call' = [call EXCEPT ![t] = d]
    PROVE  call'[t] = d /\ \A u \in Thread : u # t => call'[u] = call[u]
BY DEF TypeOK

\* After a notification the call of the remote and of the participant thread may end.
LEMMA GoOnFacts ==
    ASSUME NEW p \in Process, NEW t \in ThreadsOf(p), NEW c \in Call, GoOn(t, c)
    PROVE  \E d \in Call : /\ call' = [call EXCEPT ![t] = d]
                           /\ \/ d = c
                              \/ d = NoCall /\ Done(c) /\ t \in {Remote(p), Participant(p)}
<1>1. CASE Done(c) /\ t[1] # "owner"
  <2>1. t \in {Remote(p), Participant(p)}
    BY <1>1, ThreadFacts
  <2> QED
    BY <1>1, <2>1, CallFacts DEF GoOn
<1>2. CASE ~(Done(c) /\ t[1] # "owner")
  BY <1>2 DEF GoOn
<1> QED
  BY <1>1, <1>2

\* A call that goes on with its message, or ends, changes nothing about who works on what.
LEMMA CallGoesOn ==
    ASSUME IInv, NEW p \in Process, NEW t \in ThreadsOf(p), NEW d \in Call,
           call' = [call EXCEPT ![t] = d],
           \/ d.msg = call[t].msg /\ d.at # "idle" /\ call[t].at # "idle"
           \/ d = NoCall /\ t \in {Remote(p), Participant(p)},
           UNCHANGED <<at, dropped, leaving, published, overtaken>>
    PROVE  Threads' /\ RemoteOvertaken'
<1> USE DEF IInv
<1>1. t \in Thread
  BY ThreadFacts
<1>2. call'[t] = d /\ \A u \in Thread : u # t => call'[u] = call[u]
  BY <1>1, ThreadKeepsOthers
<1>3. OwnerCalls'
  <2> SUFFICES ASSUME NEW x \in Role, Owner(x) = t
               PROVE  LET c == d IN
                      \/ c = NoCall /\ at[x] \notin {"joining", "leaving"}
                      \/ c.at # "idle" /\ c.msg = Msg("join", x) /\ at[x] = "joining"
                      \/ c.at # "idle" /\ c.msg = Msg("leave", x) /\ at[x] = "leaving"
    BY <1>2, ThreadFacts DEF Threads, OwnerCalls
  <2>1. t \notin {Remote(p), Participant(p)}
    BY ThreadFacts
  <2> QED
    BY <2>1, CallFacts DEF Threads, OwnerCalls
<1>4. RemoteCalls' /\ RemoteOvertaken'
  <2>1. \A q \in Process : /\ Remote(q) \in Thread
                           /\ Remote(q) = t => \/ d.msg = call[t].msg /\ d.at # "idle" /\ call[t].at # "idle"
                                               \/ d = NoCall
    BY ThreadFacts
  <2>2. \A q \in Process : \/ call'[Remote(q)] = call[Remote(q)]
                           \/ call'[Remote(q)] = NoCall
                           \/ /\ call'[Remote(q)].msg = call[Remote(q)].msg
                              /\ call'[Remote(q)].at # "idle" /\ call[Remote(q)].at # "idle"
    BY <1>2, <2>1
  <2> QED
    BY <2>2, CallFacts DEF Threads, RemoteCalls, Removal, RemoteOvertaken
<1>5. ParticipantCalls'
  <2>1. \A q \in Process : /\ Participant(q) \in Thread
                           /\ Participant(q) = t => \/ d.msg = call[t].msg /\ d.at # "idle" /\ call[t].at # "idle"
                                                    \/ d = NoCall
    BY ThreadFacts
  <2>2. \A q \in Process : \/ call'[Participant(q)] = call[Participant(q)]
                           \/ call'[Participant(q)] = NoCall
                           \/ /\ call'[Participant(q)].msg = call[Participant(q)].msg
                              /\ call'[Participant(q)].at # "idle" /\ call[Participant(q)].at # "idle"
    BY <1>2, <2>1
  <2> QED
    BY <2>2, CallFacts DEF Threads, ParticipantCalls
<1>6. PublishedIsOwn'
  BY DEF Threads, PublishedIsOwn
<1> QED
  BY <1>3, <1>4, <1>5, <1>6 DEF Threads

\* The warehouse is updated: a new peer is still to be signalled, and a removed one
\* was removed by the only thread that may be busy with it.
LEMMA DisposeStep ==
    ASSUME IInv, NEW p \in Process, NEW t \in ThreadsOf(p), Dispose(p, t),
           UNCHANGED <<transportVars, roleVars>>
    PROVE  IInv'
<1> USE DEF IInv
<1> DEFINE m == call[t].msg
           d == [call[t] EXCEPT !.at = "signal"]
<1>1. /\ call[t].at = "dispose"
      /\ warehouse' = [warehouse EXCEPT ![p] = IF m.opt = "join" THEN @ \cup {m.role}
                                               ELSE {x \in @ : ~Match(x, m.role)}]
      /\ call' = [call EXCEPT ![t] = d]
      /\ UNCHANGED <<alive, slots_, leaving, published, taken, dropped, changes, overtaken>>
      /\ UNCHANGED <<receivers_, enabled_, transmitters_, at, todo>>
  BY ThreadFacts DEF Dispose, transportVars, roleVars, TypeOK
<1>2. t \in Thread /\ call[t] \in Call
  BY ThreadFacts DEF TypeOK
<1>3. /\ d \in Call /\ d.at = "signal" /\ d.msg = m /\ d.local = call[t].local
      /\ d.slot = call[t].slot
  BY <1>2 DEF Call
<1>4. m.role \in Role /\ m \in ChangeMsg
  BY <1>1, CallFacts, ThreadFacts DEF Threads, OwnerCalls, RemoteCalls, ParticipantCalls
<1>5. call'[t] = d /\ \A u \in Thread : u # t => call'[u] = call[u]
  BY <1>1, <1>2, ThreadKeepsOthers
<1> HIDE DEF d
<1>6. \A y \in Role : y \in warehouse'[p] => y \in warehouse[p] \/ (m.opt = "join" /\ y = m.role)
  BY <1>1 DEF TypeOK
<1>7. m.opt # "join" => m.role \notin warehouse'[p]
  BY <1>1, <1>4, IdFacts DEF TypeOK
<1>8. \A q \in Process : q # p => warehouse'[q] = warehouse[q]
  BY <1>1 DEF TypeOK
<1> HIDE DEF m
<1>9. TypeOK'
  BY <1>1, <1>2, <1>3, <1>4 DEF TypeOK
<1>10. Connected' /\ SlotsArePeers'
  <2>1. Connected'
    BY <1>1 DEF Connected
  <2>2. call[t].slot = NoRole
    BY <1>1 DEF SlotsArePeers
  <2>3. SlotsArePeers'
    BY <1>1, <1>3, <1>5, <2>2, ThreadFacts DEF SlotsArePeers, m
  <2> QED
    BY <2>1, <2>3
<1>11. Threads' /\ RemoteOvertaken'
  BY <1>1, <1>3, CallGoesOn DEF m
\* Who may bring a role into the warehouse: its owner, or the remote thread of another
\* process, which a removal under way has overtaken.
<1>12. m.opt = "join" =>
          \/ t = Owner(m.role) /\ proc[m.role] = p
          \/ t = Remote(p) /\ proc[m.role] # p
  BY <1>1, CallFacts, ThreadFacts DEF Threads, OwnerCalls, RemoteCalls, ParticipantCalls, m
<1>13. DroppedIsRemoved'
  <2> SUFFICES ASSUME NEW q \in Process, NEW y \in warehouse'[q], proc[y] \in dropped[q],
                      y \notin leaving[q], <<q, y>> \notin overtaken
               PROVE  call'[Participant(q)].at = "dispose" /\ call'[Participant(q)].msg.role = y
    BY <1>1 DEF DroppedIsRemoved
  <2>1. y \in Role
    BY <1>9 DEF TypeOK
  <2>2. y \in warehouse[q]
    <3>1. CASE q # p
      BY <3>1, <1>8
    <3>2. CASE q = p /\ m.opt = "join" /\ y = m.role
      <4>1. p \notin dropped[p]
        BY DEF Threads, ParticipantCalls
      <4>2. t = Remote(p)
        BY <4>1, <3>2, <1>12
      <4> QED
        BY <4>2, <3>2, <2>1 DEF Removal, RemoteOvertaken, m
    <3> QED
      BY <3>1, <3>2, <2>1, <1>6
  <2>3. call[Participant(q)].at = "dispose" /\ call[Participant(q)].msg.role = y
    BY <2>2 DEF Removal, DroppedIsRemoved
  <2>4. Participant(q) # t
    <3> SUFFICES ASSUME Participant(q) = t
                 PROVE  FALSE
      OBVIOUS
    <3>1. q = p
      BY ThreadFacts
    <3>2. m.opt # "join" /\ m.role = y
      BY <2>3, <1>1, CallFacts, ThreadFacts DEF Threads, ParticipantCalls, m
    <3> QED
      BY <3>1, <3>2, <1>7
  <2> QED
    BY <2>3, <2>4, <1>5, ThreadFacts
<1>14. LeaveRemoves'
  <2> SUFFICES ASSUME NEW q \in Process, NEW u \in ThreadsOf(q),
                      call'[u].at \in {"signal", "notify"}, call'[u].msg.opt = "leave",
                      call'[u].msg.role \in warehouse'[q]
               PROVE  <<q, call'[u].msg.role>> \in overtaken
    BY <1>1 DEF LeaveRemoves
  <2>1. CASE u = t
    <3>1. q = p
      BY <2>1, ThreadFacts
    <3> QED
      BY <3>1, <2>1, <1>3, <1>5, <1>7
  <2>2. CASE u # t
    <3>1. call'[u] = call[u] /\ u \in Thread
      BY <2>2, <1>5, ThreadFacts
    <3>2. call[u].msg.role \in Role
      BY <3>1, <1>9 DEF TypeOK
    <3>3. CASE call[u].msg.role \in warehouse[q]
      BY <3>1, <3>3 DEF Removal, LeaveRemoves
    <3>4. CASE q = p /\ m.opt = "join" /\ call[u].msg.role = m.role
      <4>1. CASE t = Owner(m.role) /\ proc[m.role] = p
        <5>1. u = Remote(p) \/ u = Participant(p) \/ \E x \in Role : u = Owner(x)
          BY <3>4, ThreadFacts
        <5>2. u # Remote(p)
          BY <4>1, <3>1, <3>4, CallFacts DEF Threads, RemoteCalls
        <5>3. u # Participant(p)
          BY <4>1, <3>1, <3>4, CallFacts DEF Threads, ParticipantCalls
        <5>4. \A x \in Role : u = Owner(x) => x = m.role
          BY <3>1, <3>2, <3>4, CallFacts DEF Threads, OwnerCalls
        <5> QED
          BY <5>1, <5>2, <5>3, <5>4, <4>1, <2>2
      <4>2. CASE t = Remote(p) /\ proc[m.role] # p
        <5>1. u = Participant(p) \/ \E x \in Role : proc[x] = p /\ u = Owner(x)
          BY <4>2, <3>4, <2>2, ThreadFacts
        <5>2. \A x \in Role : u = Owner(x) => x = m.role
          BY <3>1, <3>2, <3>4, CallFacts DEF Threads, OwnerCalls
        <5>3. u = Participant(p)
          BY <5>1, <5>2, <4>2
        <5>4. proc[m.role] \in dropped[p]
          BY <5>3, <3>1, <3>4, CallFacts DEF Threads, ParticipantCalls
        <5> QED
          BY <5>4, <4>2, <3>1, <3>4, <1>4 DEF Removal, RemoteOvertaken, m
      <4> QED
        BY <4>1, <4>2, <3>4, <1>12
    <3> QED
      BY <3>1, <3>2, <3>3, <3>4, <1>6, <1>8
  <2> QED
    BY <2>1, <2>2
<1>15. PeersServed'
  <2> SUFFICES ASSUME NEW q \in Process, NEW z \in slots_[q], NEW y \in warehouse'[q],
                      Opposite(z, y), ~Serves(z, y)'
               PROVE  Excused(q, z, y)'
    BY <1>1 DEF PeersServed
  <2>1. y \in Role
    BY <1>9 DEF TypeOK
  <2>2. CASE y \in warehouse[q]
    <3>1. Excused(q, z, y)
      BY <2>2, <1>1 DEF PeersServed, Serves
    <3>2. JoinUnderWay(q, z, y) => JoinUnderWay(q, z, y)'
      BY <1>1, <1>2, JoinKept DEF Tells
    <3>3. SharerLeft(y) => SharerLeft(y)'
      BY <1>1 DEF SharerLeft
    <3>4. call'[Participant(q)].msg = call[Participant(q)].msg
      BY <1>3, <1>5, ThreadFacts DEF m
    <3> QED
      BY <3>1, <3>2, <3>3, <3>4, <1>1 DEF Excused
  <2>3. CASE q = p /\ m.opt = "join" /\ y = m.role
    <3>1. Tells(call'[t], z, y)
      BY <2>3, <1>3, <1>4, <1>5, CallFacts DEF Tells
    <3> QED
      BY <3>1, <2>3 DEF Excused, JoinUnderWay, Tells
  <2> QED
    BY <2>1, <2>2, <2>3, <1>6, <1>8
<1> QED
  BY <1>9, <1>10, <1>11, <1>13, <1>14, <1>15 DEF Removal

\* A call that has changed the warehouse goes on notifying, or ends.
LEMMA NotifyGoesOn ==
    ASSUME IInv, NEW p \in Process, NEW t \in ThreadsOf(p), NEW d \in Call,
           call' = [call EXCEPT ![t] = d], call[t].at \in {"signal", "notify"},
           \/ /\ d.msg = call[t].msg /\ d.at = "notify"
              /\ \A x \in d.local : proc[x] = p /\ Opposite(x, d.msg.role)
              /\ d.slot # NoRole => proc[d.slot] = p /\ Opposite(d.slot, d.msg.role)
           \/ d = NoCall /\ t \in {Remote(p), Participant(p)},
           UNCHANGED <<warehouse, slots_, leaving, published, dropped, overtaken, at, todo>>
    PROVE  Connected' /\ SlotsArePeers' /\ Threads' /\ Removal'
<1> USE DEF IInv
<1>1. t \in Thread
  BY ThreadFacts
<1>2. call'[t] = d /\ \A u \in Thread : u # t => call'[u] = call[u]
  BY <1>1, ThreadKeepsOthers
<1>3. Connected'
  BY DEF Connected
<1>4. SlotsArePeers'
  BY <1>2, CallFacts, ThreadFacts DEF SlotsArePeers
<1>5. Threads' /\ RemoteOvertaken'
  BY CallGoesOn
<1>6. DroppedIsRemoved'
  <2> SUFFICES ASSUME NEW q \in Process, NEW y \in warehouse[q], proc[y] \in dropped[q],
                      y \notin leaving[q], <<q, y>> \notin overtaken
               PROVE  call'[Participant(q)].at = "dispose" /\ call'[Participant(q)].msg.role = y
    BY DEF DroppedIsRemoved
  <2>1. call[Participant(q)].at = "dispose" /\ call[Participant(q)].msg.role = y
    BY DEF Removal, DroppedIsRemoved
  <2>2. Participant(q) # t /\ Participant(q) \in Thread
    BY <2>1, ThreadFacts
  <2> QED
    BY <2>1, <2>2, <1>2
<1>7. LeaveRemoves'
  <2> SUFFICES ASSUME NEW q \in Process, NEW u \in ThreadsOf(q),
                      call'[u].at \in {"signal", "notify"}, call'[u].msg.opt = "leave"
               PROVE  \/ call'[u].msg.role \notin warehouse[q]
                      \/ <<q, call'[u].msg.role>> \in overtaken
    BY DEF LeaveRemoves
  <2>1. call'[u].msg = call[u].msg /\ call[u].at \in {"signal", "notify"}
    BY <1>2, CallFacts, ThreadFacts
  <2> QED
    BY <2>1 DEF Removal, LeaveRemoves
<1> QED
  BY <1>3, <1>4, <1>5, <1>6, <1>7 DEF Removal

\* The excuses that do not depend on thread t outlast a step of its call.  When the
\* participant thread ends the removal of a role, the role is out of the warehouse.
LEMMA ExcusedGoesOn ==
    ASSUME IInv, NEW p \in Process, NEW t \in ThreadsOf(p), NEW d \in Call,
           call' = [call EXCEPT ![t] = d], call[t].at \in {"signal", "notify"},
           d.msg = call[t].msg \/ d = NoCall,
           UNCHANGED <<leaving, overtaken, at, todo>>,
           NEW q \in Process, NEW z \in slots_[q], NEW y \in warehouse[q],
           Excused(q, z, y), q = p /\ Tells(call[t], z, y) => Tells(d, z, y)
    PROVE  Excused(q, z, y)'
<1> USE DEF IInv
<1>1. t \in Thread
  BY ThreadFacts
<1>2. call'[t] = d /\ \A u \in Thread : u # t => call'[u] = call[u]
  BY <1>1, ThreadKeepsOthers
<1>3. JoinUnderWay(q, z, y) => JoinUnderWay(q, z, y)'
  BY <1>1, JoinKept, ThreadFacts
<1>4. SharerLeft(y) => SharerLeft(y)'
  BY DEF SharerLeft
<1>5. CASE call[Participant(q)].msg.role = y
  <2>1. CASE Participant(q) = t
    <3>1. call[t].msg.opt = "leave"
      BY <2>1, CallFacts DEF Threads, ParticipantCalls
    <3>2. <<q, y>> \in overtaken
      BY <3>1, <2>1, <1>5, ThreadFacts DEF Removal, LeaveRemoves
    <3> QED
      BY <3>2 DEF Excused
  <2>2. CASE Participant(q) # t
    <3>1. call'[Participant(q)] = call[Participant(q)]
      BY <2>2, <1>2, ThreadFacts
    <3> QED
      BY <3>1, <1>5 DEF Excused
  <2> QED
    BY <2>1, <2>2
<1>6. CASE call[Participant(q)].msg.role # y
  BY <1>3, <1>4, <1>6 DEF Excused
<1> QED
  BY <1>5, <1>6

\* The slots are copied: a listener connected later finds the role in its snapshot.
LEMMA SignalStep ==
    ASSUME IInv, NEW p \in Process, NEW t \in ThreadsOf(p), Signal(p, t),
           UNCHANGED <<transportVars, roleVars>>
    PROVE  IInv'
<1> USE DEF IInv
<1> DEFINE L == {x \in slots_[p] : Opposite(x, call[t].msg.role)}
           c == [call[t] EXCEPT !.at = "notify", !.local = L]
<1>1. /\ call[t].at = "signal" /\ GoOn(t, c)
      /\ UNCHANGED <<alive, warehouse, slots_, leaving, published, taken, dropped, changes>>
      /\ UNCHANGED <<overtaken, receivers_, enabled_, transmitters_, at, todo>>
  BY DEF Signal, transportVars, roleVars
<1>2. t \in Thread /\ call[t] \in Call /\ L \subseteq Role
  BY ThreadFacts DEF TypeOK
<1>3. /\ c \in Call /\ c.at = "notify" /\ c.msg = call[t].msg /\ c.local = L
      /\ c.slot = call[t].slot
  BY <1>2 DEF Call
<1>4. call[t].slot = NoRole
  BY <1>1 DEF SlotsArePeers
<1> HIDE DEF c
<1>5. PICK d \in Call : /\ call' = [call EXCEPT ![t] = d]
                        /\ \/ d = c
                           \/ d = NoCall /\ Done(c) /\ t \in {Remote(p), Participant(p)}
  BY <1>1, <1>3, GoOnFacts
<1>6. TypeOK'
  BY <1>1, <1>2, <1>5 DEF TypeOK
<1>7. Connected' /\ SlotsArePeers' /\ Threads' /\ Removal'
  <2>1. \A x \in L : proc[x] = p
    BY DEF Connected
  <2> QED
    BY <2>1, <1>1, <1>3, <1>4, <1>5, NotifyGoesOn
<1>8. PeersServed'
  <2> SUFFICES ASSUME NEW q \in Process, NEW z \in slots_[q], NEW y \in warehouse[q],
                      Opposite(z, y), ~Serves(z, y)'
               PROVE  Excused(q, z, y)'
    BY <1>1 DEF PeersServed
  <2>1. Excused(q, z, y)
    BY <1>1 DEF PeersServed, Serves
  <2>2. ASSUME q = p, Tells(call[t], z, y)
        PROVE  Tells(d, z, y)
    <3>1. z \in L /\ y \in Role
      BY <2>2, CallFacts DEF Tells, TypeOK
    <3>2. d = c
      BY <3>1, <1>3, <1>5 DEF Done
    <3> QED
      BY <3>1, <3>2, <2>2, <1>3 DEF Tells
  <2> QED
    BY <2>1, <2>2, <1>1, <1>3, <1>5, ExcusedGoesOn
<1> QED
  BY <1>6, <1>7, <1>8

\* A slot that was disconnected in the meantime is skipped; its role is no listener.
LEMMA NextSlotStep ==
    ASSUME IInv, NEW p \in Process, NEW t \in ThreadsOf(p), NextSlot(p, t),
           UNCHANGED <<transportVars, roleVars>>
    PROVE  IInv'
<1> USE DEF IInv
<1>1. PICK x \in call[t].local :
         GoOn(t, [call[t] EXCEPT !.local = @ \ {x},
                                 !.slot = IF x \in slots_[p] THEN x ELSE NoRole])
  BY DEF NextSlot
<1> DEFINE c == [call[t] EXCEPT !.local = @ \ {x},
                                !.slot = IF x \in slots_[p] THEN x ELSE NoRole]
<1>2. /\ call[t].at = "notify" /\ call[t].slot = NoRole
      /\ UNCHANGED <<alive, warehouse, slots_, leaving, published, taken, dropped, changes>>
      /\ UNCHANGED <<overtaken, receivers_, enabled_, transmitters_, at, todo>>
  BY DEF NextSlot, transportVars, roleVars
<1>3. t \in Thread /\ call[t] \in Call /\ x \in Role
  BY <1>1, ThreadFacts, CallFacts DEF TypeOK
<1>4. /\ c \in Call /\ c.at = "notify" /\ c.msg = call[t].msg /\ c.local = call[t].local \ {x}
      /\ c.slot = IF x \in slots_[p] THEN x ELSE NoRole
  BY <1>2, <1>3 DEF Call
<1> HIDE DEF c
<1>5. PICK d \in Call : /\ call' = [call EXCEPT ![t] = d]
                        /\ \/ d = c
                           \/ d = NoCall /\ Done(c) /\ t \in {Remote(p), Participant(p)}
  BY <1>1, <1>4, GoOnFacts DEF c
<1>6. TypeOK'
  BY <1>2, <1>3, <1>5 DEF TypeOK
<1>7. Connected' /\ SlotsArePeers' /\ Threads' /\ Removal'
  <2>1. \A z \in call[t].local : proc[z] = p /\ Opposite(z, call[t].msg.role)
    BY DEF SlotsArePeers
  <2> QED
    BY <2>1, <1>1, <1>2, <1>4, <1>5, NotifyGoesOn
<1>8. PeersServed'
  <2> SUFFICES ASSUME NEW q \in Process, NEW z \in slots_[q], NEW y \in warehouse[q],
                      Opposite(z, y), ~Serves(z, y)'
               PROVE  Excused(q, z, y)'
    BY <1>2 DEF PeersServed
  <2>1. Excused(q, z, y)
    BY <1>2 DEF PeersServed, Serves
  <2>2. ASSUME q = p, Tells(call[t], z, y)
        PROVE  Tells(d, z, y)
    <3>1. z \in call[t].local /\ z \in Role
      BY <2>2, <1>2, CallFacts DEF Tells, TypeOK
    <3>2. z \in c.local \cup {c.slot}
      BY <3>1, <2>2, <1>4
    <3>3. d = c
      BY <3>1, <3>2, <1>5, CallFacts DEF Done
    <3> QED
      BY <3>2, <3>3, <2>2, <1>4 DEF Tells
  <2> QED
    BY <2>1, <2>2, <1>2, <1>4, <1>5, ExcusedGoesOn
<1> QED
  BY <1>6, <1>7, <1>8

\* The callback of a listener that has not been shut down.
LEMMA OnChannelChangeStep ==
    ASSUME IInv, NEW p \in Process, NEW t \in ThreadsOf(p), OnChannelChange(p, t),
           ~ProcessEnds(p)
    PROVE  IInv'
<1> USE DEF IInv
<1> DEFINE x == call[t].slot
           m == call[t].msg
           y == m.role
           c == [call[t] EXCEPT !.slot = NoRole]
<1>1. /\ x # NoRole /\ GoOn(t, c)
      /\ \/ m.opt = "join" /\ Enable(x, y)
         \/ m.opt = "leave" /\ Disable(x, y)
      /\ UNCHANGED <<alive, warehouse, slots_, leaving, published, taken, dropped, changes>>
      /\ UNCHANGED <<overtaken, at, todo>>
  BY DEF OnChannelChange, roleVars
<1>2. t \in Thread /\ call[t] \in Call /\ x \in Role
  BY <1>1, ThreadFacts, CallFacts DEF TypeOK
<1>3. call[t].at = "notify" /\ proc[x] = p /\ Opposite(x, y)
  BY <1>1 DEF SlotsArePeers
<1>4. y \in Role
  BY <1>3 DEF Opposite, Role
<1>5. /\ c \in Call /\ c.at = "notify" /\ c.msg = m /\ c.local = call[t].local /\ c.slot = NoRole
  BY <1>2, <1>3 DEF Call
<1> HIDE DEF c
<1>6. PICK d \in Call : /\ call' = [call EXCEPT ![t] = d]
                        /\ \/ d = c
                           \/ d = NoCall /\ Done(c) /\ t \in {Remote(p), Participant(p)}
  BY <1>1, <1>5, GoOnFacts
<1>7. TypeOK'
  <2>1. /\ receivers_' \in [Writer -> [Mode -> SUBSET {id(r) : r \in Reader}]]
        /\ enabled_' \in [Writer -> SUBSET Mode]
        /\ transmitters_' \in [Process -> [Mode -> SUBSET Writer]]
    BY <1>1, <1>2, <1>3, <1>4, EnableServes, DisableServes
  <2> QED
    BY <2>1, <1>1, <1>2, <1>6 DEF TypeOK
<1>8. Connected' /\ SlotsArePeers' /\ Threads' /\ Removal'
  <2>1. \A z \in call[t].local : proc[z] = p /\ Opposite(z, call[t].msg.role)
    BY DEF SlotsArePeers
  <2> QED
    BY <2>1, <1>1, <1>3, <1>5, <1>6, NotifyGoesOn
<1>9. PeersServed'
  <2> SUFFICES ASSUME NEW q \in Process, NEW z \in slots_[q], NEW v \in warehouse[q],
                      Opposite(z, v), ~Serves(z, v)'
               PROVE  Excused(q, z, v)'
    BY <1>1 DEF PeersServed
  <2>1. z \in Role /\ v \in Role /\ proc[z] = q
    BY DEF TypeOK, Connected
  <2>2. ASSUME Excused(q, z, v)
        PROVE  Excused(q, z, v)'
    <3>1. ASSUME q = p, Tells(call[t], z, v)
          PROVE  Tells(d, z, v)
      <4>1. v = y /\ m.opt = "join"
        BY <3>1, <2>1, CallFacts DEF Tells
      <4>2. z # x
        BY <4>1, <1>1, <1>2, <1>3, <1>4, EnableServes
      <4>3. z \in call[t].local
        BY <4>2, <3>1, <1>3 DEF Tells
      <4>4. d = c
        BY <4>3, <1>5, <1>6 DEF Done
      <4> QED
        BY <4>3, <4>4, <3>1, <1>5 DEF Tells
    <3> QED
      BY <2>2, <3>1, <1>1, <1>3, <1>5, <1>6, ExcusedGoesOn
  <2>3. ASSUME Serves(z, v)
        PROVE  Excused(q, z, v)'
    <3>1. m.opt = "leave" /\ Disable(x, y)
      BY <2>1, <2>3, <1>1, <1>2, <1>3, <1>4, EnableServes
    <3>2. id(v) = id(y) /\ q = p
      BY <3>1, <2>1, <2>3, <1>2, <1>3, <1>4, DisableServes
    <3>3. CASE v = y
      <4>1. <<q, v>> \in overtaken
        BY <3>1, <3>2, <3>3, <1>3 DEF Removal, LeaveRemoves
      <4> QED
        BY <4>1, <1>1 DEF Excused
    <3>4. CASE v # y
      <4>1. v \in Reader /\ y \in Reader /\ proc[v] = proc[y]
        BY <3>2, <3>4, <2>1, <1>4, IdFacts
      <4>2. CASE at[y] \in {"leaving", "gone"}
        BY <4>1, <4>2, <3>2, <3>4, <1>1 DEF Excused, SharerLeft
      <4>3. CASE t = Participant(p)
        <5>1. proc[v] \in dropped[p]
          BY <4>1, <4>3, <1>3, CallFacts DEF Threads, ParticipantCalls
        <5>2. v \in leaving[p] \/ <<p, v>> \in overtaken
          BY <5>1, <4>3, <3>2, <1>3 DEF Removal, DroppedIsRemoved
        <5> QED
          BY <5>2, <3>2, <1>1 DEF Excused
      <4>4. t = Participant(p) \/ at[y] \in {"leaving", "gone"}
        <5>1. CASE t = Remote(p)
          BY <5>1, <3>1, <1>3, CallFacts DEF Threads, RemoteCalls
        <5>2. ASSUME NEW r \in Role, t = Owner(r)
              PROVE  at[y] \in {"leaving", "gone"}
          BY <5>2, <3>1, <1>3, CallFacts DEF Threads, OwnerCalls
        <5> QED
          BY <5>1, <5>2, ThreadFacts
      <4> QED
        BY <4>2, <4>3, <4>4
    <3> QED
      BY <3>3, <3>4
  <2> QED
    BY <2>2, <2>3 DEF PeersServed
<1> QED
  BY <1>7, <1>8, <1>9

-----------------------------------------------------------------------------
\* What the discovery threads start.  A call that has just begun has told nobody yet.
LEMMA CallStarts ==
    ASSUME IInv, NEW p \in Process, NEW t \in ThreadsOf(p), Idle(t), NEW m \in ChangeMsg,
           call' = [call EXCEPT ![t] = Calling(m)],
           UNCHANGED <<warehouse, slots_, overtaken, at, todo>>
    PROVE  /\ call' \in [Thread -> Call]
           /\ call'[t] = Calling(m) /\ \A u \in Thread : u # t => call'[u] = call[u]
           /\ Connected' /\ SlotsArePeers' /\ LeaveRemoves'
           /\ \A q, x, y : JoinUnderWay(q, x, y) => JoinUnderWay(q, x, y)'
<1> USE DEF IInv
<1>1. t \in Thread
  BY ThreadFacts
<1>2. call'[t] = Calling(m) /\ \A u \in Thread : u # t => call'[u] = call[u]
  BY <1>1, ThreadKeepsOthers
<1>3. call' \in [Thread -> Call]
  BY <1>1, CallFacts DEF TypeOK
<1>4. Connected'
  BY DEF Connected
<1>5. SlotsArePeers'
  BY <1>2, CallFacts, ThreadFacts DEF SlotsArePeers
<1>6. LeaveRemoves'
  <2> SUFFICES ASSUME NEW q \in Process, NEW u \in ThreadsOf(q),
                      call'[u].at \in {"signal", "notify"}, call'[u].msg.opt = "leave"
               PROVE  \/ call'[u].msg.role \notin warehouse[q]
                      \/ <<q, call'[u].msg.role>> \in overtaken
    BY DEF LeaveRemoves
  <2>1. call'[u] = call[u]
    BY <1>2, CallFacts, ThreadFacts
  <2> QED
    BY <2>1 DEF Removal, LeaveRemoves
<1>7. ASSUME NEW q, NEW x, NEW y, JoinUnderWay(q, x, y)
      PROVE  JoinUnderWay(q, x, y)'
  <2>1. ~Tells(call[t], x, y)
    BY CallFacts DEF Idle, Tells
  <2> QED
    BY <2>1, <1>1, <1>7, JoinKept
<1> QED
  BY <1>2, <1>3, <1>4, <1>5, <1>6, <1>7

\* A role of a removed participant is next.
LEMMA LeaveNextStep ==
    ASSUME IInv, NEW p \in Process, LeaveNext(p), UNCHANGED <<transportVars, roleVars>>
    PROVE  IInv'
<1> USE DEF IInv
<1>1. PICK x \in leaving[p] :
         /\ leaving' = [leaving EXCEPT ![p] = @ \ {x}]
         /\ call' = [call EXCEPT ![Participant(p)] = Calling(Msg("leave", x))]
  BY DEF LeaveNext
<1>2. /\ Idle(Participant(p))
      /\ UNCHANGED <<alive, warehouse, slots_, published, taken, dropped, changes>>
      /\ UNCHANGED <<overtaken, receivers_, enabled_, transmitters_, at, todo>>
  BY DEF LeaveNext, transportVars, roleVars
<1> DEFINE t == Participant(p)
           m == Msg("leave", x)
<1>3. x \in Role /\ m \in ChangeMsg /\ m.opt = "leave" /\ m.role = x /\ t \in ThreadsOf(p)
  BY <1>1, CallFacts, ThreadFacts DEF TypeOK
<1> HIDE DEF m
<1>4. /\ call' \in [Thread -> Call]
      /\ call'[t] = Calling(m) /\ \A u \in Thread : u # t => call'[u] = call[u]
      /\ Connected' /\ SlotsArePeers' /\ LeaveRemoves'
      /\ \A q, u, v : JoinUnderWay(q, u, v) => JoinUnderWay(q, u, v)'
  BY <1>1, <1>2, <1>3, CallStarts DEF m
<1>5. /\ Calling(m).at = "dispose" /\ Calling(m).msg = m
  BY <1>3, CallFacts
<1>6. TypeOK'
  BY <1>1, <1>2, <1>4 DEF TypeOK
<1>7. /\ \A q \in Process : call'[Remote(q)] = call[Remote(q)]
      /\ \A u \in Role : call'[Owner(u)] = call[Owner(u)]
      /\ \A q \in Process : q # p => call'[Participant(q)] = call[Participant(q)] /\ leaving'[q] = leaving[q]
  <2>1. /\ \A q \in Process : Remote(q) \in Thread /\ Remote(q) # t
        /\ \A u \in Role : Owner(u) \in Thread /\ Owner(u) # t
        /\ \A q \in Process : q # p => Participant(q) \in Thread /\ Participant(q) # t
    BY ThreadFacts
  <2> QED
    BY <2>1, <1>1, <1>4 DEF TypeOK
<1>8. leaving'[p] = leaving[p] \ {x}
  BY <1>1 DEF TypeOK
<1>9. Threads'
  <2>1. OwnerCalls' /\ PublishedIsOwn' /\ RemoteCalls'
    BY <1>2, <1>7 DEF Threads, OwnerCalls, PublishedIsOwn, RemoteCalls
  <2>2. ParticipantCalls'
    BY <1>1, <1>2, <1>3, <1>4, <1>5, <1>7, <1>8 DEF Threads, ParticipantCalls
  <2> QED
    BY <2>1, <2>2 DEF Threads
<1>10. RemoteOvertaken'
  BY <1>2, <1>7 DEF Removal, RemoteOvertaken
<1>11. \A q \in Process, y \in Role :
          \/ y \in leaving[q]
          \/ call[Participant(q)].at = "dispose" /\ call[Participant(q)].msg.role = y
          => \/ y \in leaving'[q]
             \/ call'[Participant(q)].at = "dispose" /\ call'[Participant(q)].msg.role = y
  <2>1. call[t].at # "dispose"
    BY <1>2, CallFacts DEF Idle
  <2> QED
    BY <2>1, <1>3, <1>4, <1>5, <1>7, <1>8
<1>12. DroppedIsRemoved'
  BY <1>2, <1>11 DEF TypeOK, Removal, DroppedIsRemoved
<1>13. PeersServed'
  <2> SUFFICES ASSUME NEW q \in Process, NEW z \in slots_[q], NEW y \in warehouse[q],
                      Opposite(z, y), ~Serves(z, y)'
               PROVE  Excused(q, z, y)'
    BY <1>2 DEF PeersServed
  <2>1. Excused(q, z, y)
    BY <1>2 DEF PeersServed, Serves
  <2>2. JoinUnderWay(q, z, y) => JoinUnderWay(q, z, y)'
    BY <1>4
  <2>3. SharerLeft(y) => SharerLeft(y)'
    BY <1>2 DEF SharerLeft
  <2>4. y \in leaving[q] \/ call[Participant(q)].msg.role = y
        => y \in leaving'[q] \/ call'[Participant(q)].msg.role = y
    <3>1. y \in Role /\ call[t].msg.role # y
      BY <1>2, CallFacts DEF Idle, TypeOK
    <3> QED
      BY <3>1, <1>3, <1>4, <1>5, <1>7, <1>8
  <2> QED
    BY <2>1, <2>2, <2>3, <2>4, <1>2 DEF Excused
<1> QED
  BY <1>4, <1>6, <1>9, <1>10, <1>12, <1>13 DEF Removal

\* A change of a participant that is not dropped arrives.
LEMMA OnRemoteChangeStep ==
    ASSUME IInv, NEW p \in Process, NEW q \in Process, OnRemoteChange(p, q),
           UNCHANGED <<transportVars, roleVars>>
    PROVE  IInv'
<1> USE DEF IInv
<1> DEFINE t == Remote(p)
           m == published[q][taken[p][q] + 1]
<1>1. /\ Idle(t) /\ q # p /\ q \notin dropped[p] /\ taken[p][q] < Len(published[q])
      /\ call' = [call EXCEPT ![t] = IF IsFromSameProcess(p, m) THEN NoCall ELSE Calling(m)]
      /\ taken' = [taken EXCEPT ![p][q] = @ + 1]
      /\ UNCHANGED <<alive, warehouse, slots_, leaving, published, dropped, changes>>
      /\ UNCHANGED <<overtaken, receivers_, enabled_, transmitters_, at, todo>>
  BY DEF OnRemoteChange, transportVars, roleVars
<1>2. /\ m \in ChangeMsg /\ proc[m.role] = q
      /\ m.opt = "leave" => at[m.role] = "gone"
  <2>1. published[q] \in Seq(ChangeMsg) /\ taken[p][q] \in Nat
    BY DEF TypeOK
  <2>2. taken[p][q] + 1 \in 1..Len(published[q])
    BY <2>1, <1>1
  <2> QED
    BY <2>1, <2>2 DEF Threads, PublishedIsOwn
<1> HIDE DEF m
<1>3. ~IsFromSameProcess(p, m)
  BY <1>1, <1>2, RoleAssumption DEF IsFromSameProcess
<1>4. t \in ThreadsOf(p) /\ call' = [call EXCEPT ![t] = Calling(m)]
  BY <1>1, <1>3, ThreadFacts
<1>5. /\ call' \in [Thread -> Call]
      /\ call'[t] = Calling(m) /\ \A u \in Thread : u # t => call'[u] = call[u]
      /\ Connected' /\ SlotsArePeers' /\ LeaveRemoves'
      /\ \A r, u, v : JoinUnderWay(r, u, v) => JoinUnderWay(r, u, v)'
  BY <1>1, <1>2, <1>4, CallStarts
<1>6. /\ Calling(m).at = "dispose" /\ Calling(m).msg = m
  BY <1>2, CallFacts
<1>7. TypeOK'
  <2>1. taken' \in [Process -> [Process -> Nat]]
    BY <1>1 DEF TypeOK
  <2> QED
    BY <2>1, <1>1, <1>5 DEF TypeOK
<1>8. /\ \A r \in Process : r # p => call'[Remote(r)] = call[Remote(r)]
      /\ \A u \in Role : call'[Owner(u)] = call[Owner(u)]
      /\ \A r \in Process : call'[Participant(r)] = call[Participant(r)]
  <2>1. /\ \A r \in Process : r # p => Remote(r) \in Thread /\ Remote(r) # t
        /\ \A u \in Role : Owner(u) \in Thread /\ Owner(u) # t
        /\ \A r \in Process : Participant(r) \in Thread /\ Participant(r) # t
    BY ThreadFacts
  <2> QED
    BY <2>1, <1>5
<1>9. Threads'
  <2>1. OwnerCalls' /\ PublishedIsOwn' /\ ParticipantCalls'
    BY <1>1, <1>8 DEF Threads, OwnerCalls, PublishedIsOwn, ParticipantCalls
  <2>2. RemoteCalls'
    BY <1>1, <1>2, <1>5, <1>6, <1>8 DEF Threads, RemoteCalls
  <2> QED
    BY <2>1, <2>2 DEF Threads
<1>10. RemoteOvertaken' /\ DroppedIsRemoved'
  BY <1>1, <1>2, <1>5, <1>6, <1>8 DEF Removal, RemoteOvertaken, DroppedIsRemoved
<1>11. PeersServed'
  <2> SUFFICES ASSUME NEW r \in Process, NEW z \in slots_[r], NEW y \in warehouse[r],
                      Opposite(z, y), ~Serves(z, y)'
               PROVE  Excused(r, z, y)'
    BY <1>1 DEF PeersServed
  <2>1. Excused(r, z, y)
    BY <1>1 DEF PeersServed, Serves
  <2>2. JoinUnderWay(r, z, y) => JoinUnderWay(r, z, y)'
    BY <1>5
  <2>3. SharerLeft(y) => SharerLeft(y)'
    BY <1>1 DEF SharerLeft
  <2> QED
    BY <2>1, <2>2, <2>3, <1>1, <1>8 DEF Excused
<1> QED
  BY <1>5, <1>7, <1>9, <1>10, <1>11 DEF Removal

\* A participant is removed: what the warehouse has of it is now about to leave.
LEMMA OnTopoModuleLeaveStep ==
    ASSUME IInv, NEW p \in Process, NEW q \in Process, OnTopoModuleLeave(p, q),
           UNCHANGED <<transportVars, roleVars>>
    PROVE  IInv'
<1> USE DEF IInv
<1> DEFINE O == {<<p, x>> : x \in {y \in Role : proc[y] = q /\ call[Remote(p)].msg.role = y}}
           L == {x \in warehouse[p] : /\ host_name[proc[x]] = host_name[q]
                                      /\ process_id[proc[x]] = process_id[q]}
<1>1. /\ Idle(Participant(p)) /\ leaving[p] = {} /\ q # p
      /\ changes' \in 0..MaxChanges
      /\ dropped' = [dropped EXCEPT ![p] = @ \cup {q}]
      /\ leaving' = [leaving EXCEPT ![p] = L]
      /\ overtaken' = overtaken \cup O
      /\ UNCHANGED <<alive, warehouse, slots_, call, published, taken>>
      /\ UNCHANGED <<receivers_, enabled_, transmitters_, at, todo>>
  BY RoleAssumption DEF TypeOK, OnTopoModuleLeave, transportVars, roleVars
<1>2. L = {x \in warehouse[p] : proc[x] = q}
  BY RoleAssumption DEF TypeOK
<1> HIDE DEF L
<1>3. L \subseteq Role /\ O \subseteq Process \X Role
  BY <1>2 DEF TypeOK
<1>4. \A y \in Role : proc[y] = q /\ call[Remote(p)].msg.role = y => <<p, y>> \in O
  OBVIOUS
<1> HIDE DEF O
<1>5. TypeOK'
  BY <1>1, <1>3 DEF TypeOK
<1>6. /\ dropped'[p] = dropped[p] \cup {q} /\ leaving'[p] = L
      /\ \A r \in Process : r # p => dropped'[r] = dropped[r] /\ leaving'[r] = leaving[r]
  BY <1>1 DEF TypeOK
<1>7. Connected' /\ SlotsArePeers'
  BY <1>1 DEF Connected, SlotsArePeers
<1>8. Threads'
  <2>1. OwnerCalls' /\ PublishedIsOwn' /\ RemoteCalls'
    BY <1>1 DEF Threads, OwnerCalls, PublishedIsOwn, RemoteCalls
  <2>2. ParticipantCalls'
    BY <1>1, <1>2, <1>6 DEF Threads, ParticipantCalls
  <2> QED
    BY <2>1, <2>2 DEF Threads
<1>9. Removal'
  <2>1. RemoteOvertaken'
    BY <1>1, <1>4, <1>6 DEF Removal, RemoteOvertaken
  <2>2. DroppedIsRemoved'
    <3> SUFFICES ASSUME NEW r \in Process, NEW y \in warehouse[r], proc[y] \in dropped'[r],
                        y \notin leaving'[r], <<r, y>> \notin overtaken'
                 PROVE  call[Participant(r)].at = "dispose" /\ call[Participant(r)].msg.role = y
      BY <1>1 DEF DroppedIsRemoved
    <3>1. proc[y] \in dropped[r] /\ <<r, y>> \notin overtaken
      BY <1>1, <1>2, <1>6
    <3>2. r = p => y \notin leaving[r]
      BY <1>1
    <3> QED
      BY <3>1, <3>2, <1>6 DEF Removal, DroppedIsRemoved
  <2>3. LeaveRemoves'
    BY <1>1 DEF Removal, LeaveRemoves
  <2> QED
    BY <2>1, <2>2, <2>3 DEF Removal
<1>10. PeersServed'
  <2> SUFFICES ASSUME NEW r \in Process, NEW z \in slots_[r], NEW y \in warehouse[r],
                      Opposite(z, y), ~Serves(z, y)'
               PROVE  Excused(r, z, y)'
    BY <1>1 DEF PeersServed
  <2>1. Excused(r, z, y)
    BY <1>1 DEF PeersServed, Serves
  <2>2. JoinUnderWay(r, z, y) => JoinUnderWay(r, z, y)'
    BY <1>1 DEF JoinUnderWay
  <2>3. SharerLeft(y) => SharerLeft(y)'
    BY <1>1 DEF SharerLeft
  <2>4. y \in leaving[r] => y \in leaving'[r]
    BY <1>1, <1>6
  <2> QED
    BY <2>1, <2>2, <2>3, <2>4, <1>1 DEF Excused
<1> QED
  BY <1>5, <1>7, <1>8, <1>9, <1>10

\* A participant comes back once its removal is over.
LEMMA RediscoverStep ==
    ASSUME IInv, NEW p \in Process, NEW q \in Process, Rediscover(p, q),
           UNCHANGED <<transportVars, roleVars>>
    PROVE  IInv'
<1> USE DEF IInv
<1>1. /\ Idle(Participant(p)) /\ leaving[p] = {}
      /\ dropped' = [dropped EXCEPT ![p] = @ \ {q}]
      /\ taken' = [taken EXCEPT ![p][q] = 0]
      /\ UNCHANGED <<alive, warehouse, slots_, call, leaving, published, changes, overtaken>>
      /\ UNCHANGED <<receivers_, enabled_, transmitters_, at, todo>>
  BY DEF Rediscover, transportVars, roleVars
<1>2. TypeOK'
  BY <1>1 DEF TypeOK
<1>3. /\ \A r \in Process : dropped'[r] \subseteq dropped[r]
      /\ \A r \in Process : r # p => dropped'[r] = dropped[r]
  BY <1>1 DEF TypeOK
<1>4. Connected' /\ SlotsArePeers'
  BY <1>1 DEF Connected, SlotsArePeers
<1>5. Threads'
  <2>1. OwnerCalls' /\ PublishedIsOwn' /\ RemoteCalls'
    BY <1>1 DEF Threads, OwnerCalls, PublishedIsOwn, RemoteCalls
  <2>2. ParticipantCalls'
    BY <1>1, <1>3 DEF Threads, ParticipantCalls, Idle
  <2> QED
    BY <2>1, <2>2 DEF Threads
<1>6. Removal'
  BY <1>1, <1>3 DEF Removal, RemoteOvertaken, DroppedIsRemoved, LeaveRemoves
<1>7. PeersServed'
  BY <1>1 DEF PeersServed, Serves, Excused, JoinUnderWay, SharerLeft
<1> QED
  BY <1>2, <1>4, <1>5, <1>6, <1>7

-----------------------------------------------------------------------------
\* A process ends: the others keep what they know.
LEMMA ProcessEndsStep ==
    ASSUME IInv, NEW p \in Process, ProcessEnds(p), changes' \in 0..MaxChanges
    PROVE  IInv'
<1> USE DEF IInv
<1>1. /\ alive' = [alive EXCEPT ![p] = FALSE]
      /\ warehouse' = [warehouse EXCEPT ![p] = {}]
      /\ slots_' = [slots_ EXCEPT ![p] = {}]
      /\ call' = [t \in Thread |-> IF t \in ThreadsOf(p) THEN NoCall ELSE call[t]]
      /\ leaving' = [leaving EXCEPT ![p] = {}]
      /\ taken' = [taken EXCEPT ![p] = [q \in Process |-> 0]]
      /\ dropped' = [dropped EXCEPT ![p] = {}]
      /\ UNCHANGED <<published, overtaken>>
      /\ at' = [x \in Role |-> IF proc[x] = p THEN "gone" ELSE at[x]]
      /\ todo' = [x \in Role |-> IF proc[x] = p THEN {} ELSE todo[x]]
  BY DEF ProcessEnds, ManagerEnds
<1>2. /\ receivers_' = [w \in Writer |-> IF proc[w] = p THEN [m \in Mode |-> {}] ELSE receivers_[w]]
      /\ enabled_' = [w \in Writer |-> IF proc[w] = p THEN {} ELSE enabled_[w]]
      /\ transmitters_' = [transmitters_ EXCEPT ![p] = [m \in Mode |-> {}]]
  BY DEF ProcessEnds, TransportEnds, ClearTransmitters
<1>3. TypeOK'
  <2>1. call' \in [Thread -> Call]
    BY <1>1, CallFacts DEF TypeOK
  <2>2. /\ receivers_' \in [Writer -> [Mode -> SUBSET {id(x) : x \in Reader}]]
        /\ enabled_' \in [Writer -> SUBSET Mode]
        /\ transmitters_' \in [Process -> [Mode -> SUBSET Writer]]
    BY <1>2 DEF TypeOK
  <2> QED
    BY <2>1, <2>2, <1>1 DEF TypeOK
<1>4. \A q \in Process : \A t \in ThreadsOf(q) :
         IF q = p THEN call'[t] = NoCall ELSE call'[t] = call[t]
  BY <1>1, ThreadFacts
<1>5. /\ warehouse'[p] = {} /\ slots_'[p] = {} /\ leaving'[p] = {} /\ dropped'[p] = {}
      /\ \A q \in Process : q # p => /\ warehouse'[q] = warehouse[q] /\ slots_'[q] = slots_[q]
                                     /\ leaving'[q] = leaving[q] /\ dropped'[q] = dropped[q]
  BY <1>1 DEF TypeOK
<1>6. \A x \in Role : IF proc[x] = p THEN at'[x] = "gone" /\ todo'[x] = {}
                                     ELSE at'[x] = at[x] /\ todo'[x] = todo[x]
  BY <1>1
<1>7. Connected' /\ SlotsArePeers'
  <2>1. Connected'
    <3> SUFFICES ASSUME NEW q \in Process, NEW x \in slots_'[q]
                 PROVE  proc[x] = q /\ at'[x] \in {"connected", "enabling", "joining", "joined"}
      BY DEF Connected
    <3>1. q # p /\ x \in slots_[q] /\ x \in Role
      BY <1>5 DEF TypeOK
    <3>2. proc[x] = q /\ at[x] \in {"connected", "enabling", "joining", "joined"}
      BY <3>1 DEF Connected
    <3> QED
      BY <3>1, <3>2, <1>6
  <2>2. SlotsArePeers'
    BY <1>4, <1>6, CallFacts DEF SlotsArePeers
  <2> QED
    BY <2>1, <2>2
<1>8. Threads'
  <2>1. OwnerCalls'
    <3> SUFFICES ASSUME NEW x \in Role
                 PROVE  LET c == call'[Owner(x)] IN
                        \/ c = NoCall /\ at'[x] \notin {"joining", "leaving"}
                        \/ c.at # "idle" /\ c.msg = Msg("join", x) /\ at'[x] = "joining"
                        \/ c.at # "idle" /\ c.msg = Msg("leave", x) /\ at'[x] = "leaving"
      BY DEF OwnerCalls
    <3>1. Owner(x) \in ThreadsOf(proc[x]) /\ proc[x] \in Process
      BY ThreadFacts
    <3>2. CASE proc[x] = p
      BY <3>1, <3>2, <1>4, <1>6
    <3>3. CASE proc[x] # p
      <4>1. call'[Owner(x)] = call[Owner(x)] /\ at'[x] = at[x]
        BY <3>1, <3>3, <1>4, <1>6
      <4> QED
        BY <4>1 DEF Threads, OwnerCalls
    <3> QED
      BY <3>2, <3>3
  <2>2. PublishedIsOwn'
    <3> SUFFICES ASSUME NEW q \in Process, NEW i \in 1..Len(published[q])
                 PROVE  /\ proc[published[q][i].role] = q
                        /\ published[q][i].opt = "leave" => at'[published[q][i].role] = "gone"
      BY <1>1 DEF PublishedIsOwn
    <3>1. published[q][i] \in ChangeMsg
      BY DEF TypeOK
    <3> QED
      BY <3>1, <1>6, CallFacts DEF Threads, PublishedIsOwn
  <2>3. RemoteCalls'
    <3> SUFFICES ASSUME NEW q \in Process, call'[Remote(q)] # NoCall
                 PROVE  /\ call'[Remote(q)].at # "idle" /\ call'[Remote(q)].msg \in ChangeMsg
                        /\ proc[call'[Remote(q)].msg.role] # q
                        /\ call'[Remote(q)].msg.opt = "leave" => at'[call'[Remote(q)].msg.role] = "gone"
      BY DEF RemoteCalls
    <3>1. call'[Remote(q)] = call[Remote(q)]
      BY <1>4, ThreadFacts
    <3> QED
      BY <3>1, <1>6, CallFacts DEF Threads, RemoteCalls
  <2>4. ParticipantCalls'
    BY <1>4, <1>5, ThreadFacts DEF Threads, ParticipantCalls
  <2> QED
    BY <2>1, <2>2, <2>3, <2>4 DEF Threads
<1>9. Removal'
  <2>1. RemoteOvertaken' /\ DroppedIsRemoved'
    BY <1>1, <1>4, <1>5, ThreadFacts DEF Removal, RemoteOvertaken, DroppedIsRemoved
  <2>2. LeaveRemoves'
    <3> SUFFICES ASSUME NEW q \in Process, NEW t \in ThreadsOf(q),
                        call'[t].at \in {"signal", "notify"}, call'[t].msg.opt = "leave"
                 PROVE  \/ call'[t].msg.role \notin warehouse'[q]
                        \/ <<q, call'[t].msg.role>> \in overtaken
      BY <1>1 DEF LeaveRemoves
    <3>1. q # p /\ call'[t] = call[t]
      BY <1>4, CallFacts
    <3> QED
      BY <3>1, <1>5 DEF Removal, LeaveRemoves
  <2> QED
    BY <2>1, <2>2 DEF Removal
<1>10. PeersServed'
  <2> SUFFICES ASSUME NEW q \in Process, NEW z \in slots_'[q], NEW y \in warehouse'[q],
                      Opposite(z, y), ~Serves(z, y)'
               PROVE  Excused(q, z, y)'
    BY DEF PeersServed
  <2>1. q # p /\ z \in slots_[q] /\ y \in warehouse[q] /\ z \in Role
    BY <1>5 DEF TypeOK
  <2>2. proc[z] = q
    BY <2>1 DEF Connected
  <2>3. z \in Writer => receivers_'[z] = receivers_[z] /\ enabled_'[z] = enabled_[z]
    BY <2>1, <2>2, <1>2
  <2>4. transmitters_'[q] = transmitters_[q]
    BY <2>1, <1>2 DEF TypeOK
  <2>5. Excused(q, z, y)
    BY <2>1, <2>2, <2>3, <2>4 DEF PeersServed, Serves
  <2>6. JoinUnderWay(q, z, y) => JoinUnderWay(q, z, y)'
    BY <2>1, <1>4 DEF JoinUnderWay, Tells
  <2>7. SharerLeft(y) => SharerLeft(y)'
    BY <1>6 DEF SharerLeft, Role
  <2>8. call'[Participant(q)] = call[Participant(q)]
    BY <2>1, <1>4, ThreadFacts
  <2>9. at'[z] = at[z] /\ todo'[z] = todo[z]
    BY <2>1, <2>2, <1>6
  <2> QED
    BY <2>1, <2>5, <2>6, <2>7, <2>8, <2>9, <1>1, <1>5 DEF Excused
<1> QED
  BY <1>3, <1>7, <1>8, <1>9, <1>10

-----------------------------------------------------------------------------
\* The actions that a step of Next can be.
LEMMA Steps ==
    ASSUME Next
    PROVE  \/ \E x \in Role : \/ AddChangeListener(x) \/ GetPeers(x) \/ EnablePeer(x)
                              \/ Join(x) \/ PublishJoin(x) \/ Leave(x) \/ PublishLeave(x)
           \/ \E p \in Process :
                 \/ \E t \in ThreadsOf(p) :
                       \/ /\ Dispose(p, t) \/ Signal(p, t) \/ NextSlot(p, t)
                          /\ UNCHANGED <<transportVars, roleVars>>
                       \/ OnChannelChange(p, t)
                 \/ /\ LeaveNext(p) \/ \E q \in Process : \/ OnRemoteChange(p, q)
                                                         \/ OnTopoModuleLeave(p, q)
                                                         \/ Rediscover(p, q)
                    /\ UNCHANGED <<transportVars, roleVars>>
                 \/ Ends(p)
BY DEF Next, OwnerStep, Notify, Discovery

\* The empty topology.
LEMMA InitIInv == Init => IInv
<1> SUFFICES ASSUME Init PROVE IInv
  OBVIOUS
<1> USE DEF Init, ManagerInit, TransportInit
<1>1. \A p \in Process : \A t \in ThreadsOf(p) : call[t] = NoCall
  BY ThreadFacts
<1>2. /\ \A x \in Role : call[Owner(x)] = NoCall
      /\ \A p \in Process : call[Remote(p)] = NoCall /\ call[Participant(p)] = NoCall
  BY <1>1, ThreadFacts
<1>3. TypeOK
  <2>1. <<>> \in Seq(ChangeMsg) /\ 0 \in 0..MaxChanges /\ overtaken \subseteq Process \X Role
    BY RoleAssumption
  <2> QED
    BY <2>1, CallFacts DEF TypeOK
<1>4. Connected /\ SlotsArePeers
  BY <1>1, CallFacts DEF Connected, SlotsArePeers
<1>5. Threads
  <2>1. PublishedIsOwn
    BY DEF PublishedIsOwn
  <2> QED
    BY <2>1, <1>2 DEF Threads, OwnerCalls, RemoteCalls, ParticipantCalls
<1>6. Removal
  BY <1>1, <1>2, CallFacts DEF Removal, RemoteOvertaken, DroppedIsRemoved, LeaveRemoves
<1>7. PeersServed
  BY DEF PeersServed
<1> QED
  BY <1>3, <1>4, <1>5, <1>6, <1>7 DEF IInv

\* One case for each action.
LEMMA NextIInv == IInv /\ [Next]_vars => IInv'
<1> SUFFICES ASSUME IInv, [Next]_vars PROVE IInv'
  OBVIOUS
<1>1. ASSUME NEW x \in Role,
             \/ AddChangeListener(x) \/ GetPeers(x) \/ EnablePeer(x)
             \/ Join(x) \/ PublishJoin(x) \/ Leave(x) \/ PublishLeave(x)
      PROVE  IInv'
  BY <1>1, AddChangeListenerStep, GetPeersStep, EnablePeerStep, JoinStep, PublishJoinStep,
     LeaveStep, PublishLeaveStep
<1>2. ASSUME NEW p \in Process, NEW t \in ThreadsOf(p),
             Dispose(p, t) \/ Signal(p, t) \/ NextSlot(p, t),
             UNCHANGED <<transportVars, roleVars>>
      PROVE  IInv'
  BY <1>2, DisposeStep, SignalStep, NextSlotStep
<1>3. ASSUME NEW p \in Process, NEW t \in ThreadsOf(p), OnChannelChange(p, t)
      PROVE  IInv'
  <2>1. CASE ProcessEnds(p)
    <3>1. changes' = changes
      BY <1>3 DEF OnChannelChange
    <3>2. changes' \in 0..MaxChanges
      BY <3>1 DEF IInv, TypeOK
    <3> QED
      BY <3>2, <2>1, ProcessEndsStep
  <2>2. CASE ~ProcessEnds(p)
    BY <2>2, <1>3, OnChannelChangeStep
  <2> QED
    BY <2>1, <2>2
<1>4. ASSUME NEW p \in Process, UNCHANGED <<transportVars, roleVars>>,
             LeaveNext(p) \/ \E q \in Process : \/ OnRemoteChange(p, q)
                                                \/ OnTopoModuleLeave(p, q)
                                                \/ Rediscover(p, q)
      PROVE  IInv'
  BY <1>4, LeaveNextStep, OnRemoteChangeStep, OnTopoModuleLeaveStep, RediscoverStep
<1>5. ASSUME NEW p \in Process, Ends(p)
      PROVE  IInv'
  <2>1. changes' \in 0..MaxChanges
    BY <1>5, RoleAssumption DEF Ends, IInv, TypeOK
  <2> QED
    BY <2>1, <1>5, ProcessEndsStep DEF Ends
<1>6. CASE UNCHANGED vars
  <2>1. /\ UNCHANGED <<alive, warehouse, slots_, call, leaving, published, taken, dropped>>
        /\ UNCHANGED <<changes, overtaken, receivers_, enabled_, transmitters_, at, todo>>
    BY <1>6 DEF vars, managerVars, transportVars, roleVars
  <2>2. TypeOK' /\ Connected' /\ SlotsArePeers'
    BY <2>1 DEF IInv, TypeOK, Connected, SlotsArePeers
  <2>3. Threads' /\ Removal'
    BY <2>1 DEF IInv, Threads, OwnerCalls, PublishedIsOwn, RemoteCalls, ParticipantCalls,
                Removal, RemoteOvertaken, DroppedIsRemoved, LeaveRemoves
  <2>4. PeersServed'
    BY <2>1 DEF IInv, PeersServed, Serves, Excused, JoinUnderWay, SharerLeft
  <2> QED
    BY <2>2, <2>3, <2>4 DEF IInv
<1>7. CASE Next
  BY <1>1, <1>2, <1>3, <1>4, <1>5, <1>7, Steps
<1> QED
  BY <1>6, <1>7

\* The invariant that carries the proofs: which thread of a process may be busy with
\* which role, and what the roles of a dropped process wait for.
THEOREM TopologyInvariant == Spec => []IInv
<1> QED
  BY InitIInv, NextIInv, PTL DEF Spec

\* A connected reader or writer serves every peer that its channel manager knows, for any
\* number of processes and roles: no interleaving of its JoinTheTopology() with the
\* notifications of the other threads loses a peer, except for those that PeersServed
\* excuses.
THEOREM EveryPeerIsServed == Spec => []PeersServed
<1>1. IInv => PeersServed
  BY DEF IInv
<1> QED
  BY <1>1, TopologyInvariant, PTL

\* The removal that one step of any thread makes is backed by the role's own leave or
\* by the end of its participant.
LEMMA DisposeRemoves ==
    ASSUME IInv, NEW p \in Process, NEW t \in ThreadsOf(p), Dispose(p, t),
           NEW x \in warehouse[p] \ warehouse'[p]
    PROVE  at[x] \in {"leaving", "gone"} \/ proc[x] \in dropped[p]
<1> USE DEF IInv
<1>1. x \in Role /\ t \in Thread /\ call[t] \in Call
  BY ThreadFacts DEF TypeOK
<1>2. call[t].msg.opt = "leave" /\ Match(x, call[t].msg.role) /\ call[t].at = "dispose"
  BY <1>1 DEF Dispose, TypeOK, Call
<1>3. CASE t = Remote(p)
  <2>1. call[t].msg.role \in Role
    BY <1>2, <1>3, CallFacts DEF Threads, RemoteCalls
  <2> QED
    BY <2>1, <1>1, <1>2, <1>3, IdFacts, CallFacts DEF Threads, RemoteCalls
<1>4. CASE t = Participant(p)
  <2>1. call[t].msg.role \in Role
    BY <1>2, <1>4, CallFacts DEF Threads, ParticipantCalls
  <2> QED
    BY <2>1, <1>1, <1>2, <1>4, IdFacts, CallFacts DEF Threads, ParticipantCalls
<1>5. ASSUME NEW y \in Role, t = Owner(y)
      PROVE  at[x] \in {"leaving", "gone"}
  <2>1. call[t].msg.role = y /\ at[y] = "leaving"
    BY <1>2, <1>5, CallFacts DEF Threads, OwnerCalls
  <2> QED
    BY <2>1, <1>1, <1>2, IdFacts
<1> QED
  BY <1>3, <1>4, <1>5, ThreadFacts

\* No process forgets a writer or reader that is still there: a role leaves a warehouse
\* by its own leave, with its participant, or with the process of that warehouse.  In
\* particular the leave of one reader never removes another one with the same id.
THEOREM RemovedRolesHaveLeft == Spec => RemovedHasLeft
<1> DEFINE A == \A p \in Process : \A x \in warehouse[p] \ warehouse'[p] :
                   at[x] \in {"leaving", "gone"} \/ proc[x] \in dropped[p] \/ ~alive'[p]
<1>1. IInv /\ [Next]_vars => [A]_vars
  <2> SUFFICES ASSUME IInv, Next,
                      NEW p \in Process, NEW x \in warehouse[p] \ warehouse'[p]
               PROVE  at[x] \in {"leaving", "gone"} \/ proc[x] \in dropped[p] \/ ~alive'[p]
    OBVIOUS
  <2>1. ASSUME NEW y \in Role,
               \/ AddChangeListener(y) \/ GetPeers(y) \/ EnablePeer(y)
               \/ Join(y) \/ PublishJoin(y) \/ Leave(y) \/ PublishLeave(y)
        PROVE  FALSE
    BY <2>1 DEF AddChangeListener, GetPeers, EnablePeer, Join, PublishJoin, Leave,
                PublishLeave, managerVars
  <2>2. ASSUME NEW q \in Process, NEW t \in ThreadsOf(q), Dispose(q, t)
        PROVE  at[x] \in {"leaving", "gone"} \/ proc[x] \in dropped[p]
    <3>1. p = q
      BY <2>2 DEF Dispose, IInv, TypeOK
    <3> QED
      BY <3>1, <2>2, DisposeRemoves
  <2>3. ASSUME NEW q \in Process, NEW t, Signal(q, t) \/ NextSlot(q, t)
        PROVE  FALSE
    BY <2>3 DEF Signal, NextSlot
  <2>4. ASSUME NEW q \in Process, ProcessEnds(q)
        PROVE  ~alive'[p]
    BY <2>4 DEF ProcessEnds, ManagerEnds, IInv, TypeOK
  <2>5. ASSUME NEW q \in Process, NEW t, OnChannelChange(q, t)
        PROVE  ~alive'[p]
    <3>1. CASE ProcessEnds(q)
      BY <3>1, <2>4
    <3>2. CASE ~ProcessEnds(q)
      BY <3>2, <2>5 DEF OnChannelChange
    <3> QED
      BY <3>1, <3>2
  <2>6. ASSUME NEW q \in Process,
               LeaveNext(q) \/ \E r \in Process : \/ OnRemoteChange(q, r)
                                                  \/ OnTopoModuleLeave(q, r)
                                                  \/ Rediscover(q, r)
        PROVE  FALSE
    BY <2>6 DEF LeaveNext, OnRemoteChange, OnTopoModuleLeave, Rediscover
  <2>7. ASSUME NEW q \in Process, Ends(q)
        PROVE  ~alive'[p]
    BY <2>7, <2>4 DEF Ends
  <2> QED
    BY <2>1, <2>2, <2>3, <2>5, <2>6, <2>7, Steps
<1> QED
  BY <1>1, TopologyInvariant, PTL DEF Spec, RemovedHasLeft
=============================================================================
