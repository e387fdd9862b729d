------------------------------ MODULE MCDaemon ------------------------------
(* One message beside the announcements of the address, which take the     *)
(* same queues, and two keys, so that a lost key would show.               *)
EXTENDS Daemon

CONSTANTS m1, k1, k2

Set(on) == [o \in Options |-> o \in on]

(* With Tor, with an address of the user's own, and without either.        *)
MCSettings == {Set({"inbound", "tor"}), Set({"inbound", "onion", "tor"}),
               Set({"no_connect"})}
=============================================================================
