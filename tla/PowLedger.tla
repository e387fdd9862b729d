----------------------------- MODULE PowLedger ------------------------------
(***************************************************************************)
(* What src/pow/pow_queue.h promises the callers of the job queue, with no *)
(* worker, lock or list: a ledger of the jobs accepted and of the          *)
(* completion callbacks made.  Callbacks settle the accepted jobs one by   *)
(* one in the order of acceptance; a job is not accepted while one with    *)
(* the same key is unsettled, nor more than Capacity unsettled jobs beside *)
(* the one being worked on, nor any after the ledger is closed.            *)
(***************************************************************************)
EXTENDS Integers, Sequences

CONSTANTS Jobs, NoKey, KeyOf, Capacity

VARIABLES accepted, delivered, closed

lvars == <<accepted, delivered, closed>>

Unsettled == Len(delivered) + 1 .. Len(accepted)

LedgerInit == accepted = <<>> /\ delivered = <<>> /\ closed = FALSE

Accept(j) ==
    /\ ~closed
    /\ Len(accepted) - Len(delivered) <= Capacity
    /\ \A i \in 1 .. Len(accepted) : accepted[i] # j
    /\ KeyOf[j] # NoKey => \A i \in Unsettled : KeyOf[accepted[i]] # KeyOf[j]
    /\ accepted' = Append(accepted, j)
    /\ UNCHANGED <<delivered, closed>>

(* The object is absent when the job was abandoned.                        *)
Settle ==
    /\ Unsettled # {}
    /\ \E out \in {"object", "nomem", "cancelled"} :
          /\ out = "cancelled" => closed
          /\ delivered' = Append(delivered,
                            [job |-> accepted[Len(delivered) + 1], out |-> out])
    /\ UNCHANGED <<accepted, closed>>

Close == ~closed /\ closed' = TRUE /\ UNCHANGED <<accepted, delivered>>

LedgerNext == (\E j \in Jobs : Accept(j)) \/ Settle \/ Close

LedgerSpec == LedgerInit /\ [][LedgerNext]_lvars
=============================================================================
