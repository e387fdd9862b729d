------------------------------ MODULE UploadFifo ------------------------------
(***************************************************************************)
(* What a peer may expect of its getdata requests: the objects it asks for *)
(* are queued in the order of asking, up to a limit, and taken one by one  *)
(* from the front, each once, until the connection gives up on all of      *)
(* them.  Requests are known by their number.                              *)
(***************************************************************************)
EXTENDS Naturals, Sequences

CONSTANT Limit

VARIABLES
    fifo,   \* the requests accepted and not yet taken
    asked   \* how many objects the peer has asked for

(* Of n objects asked for the first k are accepted: all, or as many as     *)
(* there is room for, or none for want of memory or because n is too many. *)
Accept(n, k) ==
    /\ k \in {0, n} \/ Len(fifo) + k = Limit
    /\ Len(fifo) + k <= Limit
    /\ fifo' = fifo \o [i \in 1 .. k |-> asked + i]
    /\ asked' = asked + n

Take == fifo # <<>> /\ fifo' = Tail(fifo) /\ UNCHANGED asked

GiveUp == fifo' = <<>> /\ UNCHANGED asked

Init == fifo = <<>> /\ asked = 0

Next == (\E n \in 1 .. Limit + 1 : \E k \in 0 .. n : Accept(n, k)) \/ Take \/ GiveUp

Spec == Init /\ [][Next]_<<fifo, asked>>
=============================================================================
