----------------------------- MODULE MCKeyring ------------------------------
(* One key pair, with its v3 and its v4 address, and two passphrases; one  *)
(* object is for the key pair and one for somebody else.                   *)
EXTENDS Keyring, TLC

CONSTANTS k, o1, o2, p, q

Mine == [o \in {o1, o2} |-> IF o = o1 THEN k ELSE None]
Symmetric == Permutations({p, q})
=============================================================================
