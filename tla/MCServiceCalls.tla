--------------------------- MODULE MCServiceCalls ----------------------------
(* Instance of ServiceCalls for TLC: two calls of one client, one of another. *)
EXTENDS ServiceCalls, TLC

CONSTANTS c1, c2, k1, k2, k3, s1

MCclient == (k1 :> c1) @@ (k2 :> c2) @@ (k3 :> c1)
=============================================================================
