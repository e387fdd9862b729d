----------------------------- MODULE MCPowQueue -----------------------------
(* Five submissions: the two stages of one send (ack and msg share a key), *)
(* a resend of the same message, an unkeyed broadcast, an overlong key.    *)
EXTENDS PowQueue

CONSTANTS ack, msg, resend, bcast, bad, S

MCJobs == {ack, msg, resend, bcast, bad}
MCKeyOf == [j \in MCJobs |-> CASE j \in {ack, msg, resend} -> S
                               [] j = bcast -> NoKey
                               [] j = bad -> LongKey]
=============================================================================
