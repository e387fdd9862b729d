------------------------- MODULE MCObjectExchange -------------------------
(* Two objects, one of which expires at once and carries the other as its  *)
(* ack; three requests in an array that starts with one place; a clock     *)
(* that passes both grace periods, which are equal here, the tightest the  *)
(* assumption allows.                                                      *)
EXTENDS ObjectExchange, TLC

CONSTANTS a, b

MCExpires == (a :> 1) @@ (b :> 9)
MCAckOf == (a :> b) @@ (b :> None)
MCWants == <<a, b, a>>
=============================================================================
