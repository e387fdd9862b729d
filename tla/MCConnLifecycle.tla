-------------------------- MODULE MCConnLifecycle --------------------------
(* A client, and two connections to one peer.                              *)
EXTENDS ConnLifecycle

CONSTANTS i1, o1, o2, a

OnePeer == [c \in Outbound |-> a]
=============================================================================
