--------------------------- MODULE MCSendPipeline ---------------------------
(* A message to somebody else and one to oneself.                          *)
EXTENDS SendPipeline

CONSTANTS m, self

MCJobs == [msg : Msgs, n : 1 .. MaxSends, stage : Stages]
MCKeyOf == [j \in MCJobs |-> j.msg]
=============================================================================
