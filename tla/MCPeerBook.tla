----------------------------- MODULE MCPeerBook -----------------------------
(* A seed, a host of another stream and the node's own onion address,      *)
(* which others announce too; a rating is good, neutral or bad, a host     *)
(* seen lately, hours or weeks ago.  Two connections are wanted, so that   *)
(* a cycle goes on after a dial that succeeds.                             *)
EXTENDS PeerBook

CONSTANTS s, x, me

MCWorst == 0 - 1
=============================================================================
