----------------------------- MODULE MCApiAsync -----------------------------
(* A batch of a send and a notification that sends; a single send; a call  *)
(* that sends nothing; a batch one call too long.                          *)
EXTENDS ApiAsync

CONSTANTS batch, single, plain, toolong

MCBody == [r \in Requests |->
              CASE r = batch -> <<"send", "note">>
                [] r = single -> <<"send">>
                [] r = plain -> <<"call">>
                [] r = toolong -> <<"send", "send", "send">>]
=============================================================================
