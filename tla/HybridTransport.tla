--------------------------- MODULE HybridTransport ---------------------------
(***************************************************************************)
(* The hybrid transmitter of each writer and the hybrid receiver of each   *)
(* process (code/cyber/transport), for one channel.  A hybrid transmitter  *)
(* has one transmitter for each mode of communication in use and knows the *)
(* receivers behind it; a hybrid receiver listens to single writers.  Each *)
(* call runs under the mutex of its object.                                *)
(***************************************************************************)
EXTENDS ChannelManager

CONSTANTS
    host_ip,        \* of each process
    mapping_table   \* the mode for each relation, from the configuration

Relation == {"SAME_PROC", "DIFF_PROC", "DIFF_HOST"}
Mode == {"INTRA", "SHM", "RTPS"}

ASSUME MappingAssumption ==
    /\ mapping_table \in [Relation -> Mode]
    /\ DOMAIN host_ip = Process

VARIABLES
    receivers_,     \* of each writer's transmitter: the ids behind each mode
    enabled_,       \* the modes whose transmitter is enabled
    transmitters_   \* of each process's receiver: the writers it listens to

transportVars == <<receivers_, enabled_, transmitters_>>

TransportInit ==
    /\ receivers_ = [w \in Writer |-> [m \in Mode |-> {}]]
    /\ enabled_ = [w \in Writer |-> {}]
    /\ transmitters_ = [p \in Process |-> [m \in Mode |-> {}]]

GetRelation(x, y) ==
    IF host_ip[proc[x]] # host_ip[proc[y]] THEN "DIFF_HOST"
    ELSE IF process_id[proc[x]] # process_id[proc[y]] THEN "DIFF_PROC"
    ELSE "SAME_PROC"

ModeOf(x, y) == mapping_table[GetRelation(x, y)]

\* HybridTransmitter::Enable(attr) and Disable(attr), without the messages of
\* the history.
TransmitterEnable(x, y) ==
    /\ x \in Writer
    /\ receivers_' = [receivers_ EXCEPT ![x][ModeOf(x, y)] = @ \cup {id(y)}]
    /\ enabled_' = [enabled_ EXCEPT ![x] = @ \cup {ModeOf(x, y)}]
    /\ UNCHANGED transmitters_

TransmitterDisable(x, y) ==
    /\ x \in Writer
    /\ receivers_' = [receivers_ EXCEPT ![x][ModeOf(x, y)] = @ \ {id(y)}]
    /\ enabled_' = [enabled_ EXCEPT ![x] =
           IF receivers_'[x][ModeOf(x, y)] = {} THEN @ \ {ModeOf(x, y)} ELSE @]
    /\ UNCHANGED transmitters_

\* HybridReceiver::Enable(attr) and Disable(attr).
ReceiverEnable(x, y) ==
    /\ x \in Reader
    /\ transmitters_' = [transmitters_ EXCEPT ![proc[x]][ModeOf(x, y)] = @ \cup {y}]
    /\ UNCHANGED <<receivers_, enabled_>>

ReceiverDisable(x, y) ==
    /\ x \in Reader
    /\ transmitters_' = [transmitters_ EXCEPT ![proc[x]][ModeOf(x, y)] = @ \ {y}]
    /\ UNCHANGED <<receivers_, enabled_>>

\* What a role does with a peer that joins, and with one that leaves.
Enable(x, y) == TransmitterEnable(x, y) \/ ReceiverEnable(x, y)
Disable(x, y) == TransmitterDisable(x, y) \/ ReceiverDisable(x, y)

\* The transmitter of a writer is destroyed.  The receiver of a process stays.
ClearTransmitters(W) ==
    /\ receivers_' = [w \in Writer |-> IF w \in W THEN [m \in Mode |-> {}] ELSE receivers_[w]]
    /\ enabled_' = [w \in Writer |-> IF w \in W THEN {} ELSE enabled_[w]]

TransportEnds(p) ==
    /\ ClearTransmitters({w \in Writer : proc[w] = p})
    /\ transmitters_' = [transmitters_ EXCEPT ![p] = [m \in Mode |-> {}]]

\* What x sends, or is sent, reaches the other one as far as x is concerned.
Serves(x, y) ==
    \/ /\ x \in Writer
       /\ id(y) \in receivers_[x][ModeOf(x, y)]
       /\ ModeOf(x, y) \in enabled_[x]
    \/ /\ x \in Reader
       /\ y \in transmitters_[proc[x]][ModeOf(x, y)]
=============================================================================
