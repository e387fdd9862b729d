---------------------------- MODULE MCDandelion ----------------------------
(* One object, an outbound peer s that offers the Dandelion service and    *)
(* another peer p.  Deadlines, epochs and age limits are a second or two:  *)
(* every comparison is met on both sides, and in every order of the        *)
(* others.                                                                 *)
EXTENDS Dandelion

CONSTANTS p, s, obj

MCPeers == {p, s}
MCStemmers == {s}
MCHashes == {obj}
=============================================================================
