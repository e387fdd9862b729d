---------------------------- MODULE MCSendQueue ----------------------------
(* One connection, the epoll thread and one other sender (reg->lock admits *)
(* one at a time), messages of one and of two bytes, a socket buffer of    *)
(* two.                                                                    *)
EXTENDS SendQueue
=============================================================================
