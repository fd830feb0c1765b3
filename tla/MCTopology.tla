----------------------------- MODULE MCTopology -----------------------------
(***************************************************************************)
(* Instance of Topology for TLC: a writer in one process, two readers that *)
(* share a receiver in another one.  The processes are on different hosts  *)
(* and have the same process id.                                           *)
(***************************************************************************)
EXTENDS Topology, TLC

CONSTANTS P1, P2, w, r1, r2

MCproc == (w :> P1) @@ (r1 :> P2) @@ (r2 :> P2)
MCnode == [x \in {w, r1, r2} |-> x]
MChost == [p \in {P1, P2} |-> p]
MCpid == [p \in {P1, P2} |-> 1]
MCmapping == ("SAME_PROC" :> "INTRA") @@ ("DIFF_PROC" :> "SHM") @@ ("DIFF_HOST" :> "RTPS")
=============================================================================
