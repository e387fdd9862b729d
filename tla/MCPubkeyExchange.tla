-------------------------- MODULE MCPubkeyExchange --------------------------
(* An owner of a version 4 address, of its version 2 sibling as a chan and *)
(* of a version 5 address.  One request is valid at a time; three answer   *)
(* slots let a third answer of a version appear if it can.                 *)
EXTENDS PubkeyExchange

CONSTANTS g1, p1, p2, p3

(* The user wants version 3 while strangers ask for its siblings, or       *)
(* version 5 while strangers ask for that.                                 *)
DemandV3V5 == {<<3, {2, 4}>>, <<5, {5}>>}

(* The user and strangers want version 4.                                  *)
DemandV4 == {<<4, {4}>>}
=============================================================================
