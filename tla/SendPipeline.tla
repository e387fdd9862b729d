---------------------------- MODULE SendPipeline ----------------------------
(***************************************************************************)
(* Sending a message: src/core/send_pipeline.c over the job queue of       *)
(* PowQueue, the `sent' table of src/core/messages_store.c, and the resend *)
(* check of src/infra/object_sync.c.                                       *)
(*                                                                         *)
(* One attempt to send a message to somebody else is two jobs with the same*)
(* key: the proof of work of the ack, whose callback submits that of the   *)
(* msg that carries the ack.  A message to oneself is one job.  When the   *)
(* msg is done its callback writes the row of the message and hands the    *)
(* object on to be stored and announced.  The epoll thread marks the row   *)
(* when the ack comes back, and from time to time tries again every row    *)
(* whose ack is overdue.  Three threads share the table: the worker, the   *)
(* epoll thread and the one that shuts the queue down.                     *)
(*                                                                         *)
(* The steps are those of PowQueue joined with what the callbacks and the  *)
(* callers do.  An operator X_Suffix is a wrong form of X, as in PowQueue. *)
(***************************************************************************)
EXTENDS PowQueue

CONSTANTS
    Msgs,         \* msg_id: what names a message through all its attempts
    SelfMsgs,     \* those whose recipient is one of the node's identities
    MaxAttempts,  \* BM_RESEND_MAX_ATTEMPTS
    DbOutcomes,   \* may a write of messages.db succeed (TRUE), fail (FALSE)
    MaxSends,     \* bound: attempts for one message
    MaxRestarts   \* bound: times the process ends and starts again

Sends == Msgs \X (1 .. MaxSends)
Stages == {"ack", "msg"}
Job(s, stage) == [msg |-> s[1], n |-> s[2], stage |-> stage]
SendOf(j) == <<j.msg, j.n>>

(* Every job of the queue is a stage of an attempt, keyed by its msg_id.   *)
ASSUME JobAssumption ==
    /\ Jobs = [msg : Msgs, n : 1 .. MaxSends, stage : Stages]
    /\ Keys = Msgs /\ KeyOf = [j \in Jobs |-> j.msg]
    /\ SelfMsgs \subseteq Msgs

ASSUME NumberAssumption ==
    /\ MaxAttempts \in Nat /\ MaxSends \in Nat /\ MaxRestarts \in Nat
    /\ DbOutcomes \in SUBSET BOOLEAN

VARIABLES
    rows,       \* the table sent of messages.db
    inbox,      \* the copies of attempts in the table inbox
    cb,         \* where the worker is in a completion callback
    cands,      \* the candidates the resend check has yet to submit
    done,       \* how often the caller's done was called, per attempt
    handed,     \* the attempts whose object was handed on to be announced
    tries,      \* history: the attempts accepted so far, per message
    confirmed,  \* history: the messages whose ack has been recorded
    restarts

store == <<rows, inbox>>
svars == <<rows, inbox, cb, cands, done, handed, tries, confirmed, restarts>>
allvars == <<vars, svars>>

(* ack: the attempt whose ack object is in ack_data, 0 if it is empty.     *)
(* due: next_resend_time has passed.                                       *)
Statuses == {"none", "sent", "ackreceived", "msgsentnoackexpected"}
Rows == [status : Statuses, ack : 0 .. MaxSends, count : Nat, due : BOOLEAN]
NoRow == [status |-> "none", ack |-> 0, count |-> 0, due |-> FALSE]

SendInit ==
    /\ Init
    /\ rows = [m \in Msgs |-> NoRow] /\ inbox = {} /\ cb = "none" /\ cands = {}
    /\ done = [s \in Sends |-> 0] /\ handed = {} /\ tries = [m \in Msgs |-> 0]
    /\ confirmed = {} /\ restarts = 0

-----------------------------------------------------------------------------
(* done(user_data, rc, ...): the caller's completion, called for attempt s.*)
Report(s) == done' = [done EXCEPT ![s] = @ + 1]

(* bm_send_pipeline_send_message_async once the addresses and keys are     *)
(* resolved: submit the first stage.  The attempt counts if it is accepted.*)
FirstStage(m) ==
    Job(<<m, tries[m] + 1>>, IF m \in SelfMsgs THEN "msg" ELSE "ack")
bm_send_pipeline_send_message_async(m) ==
    /\ tries[m] < MaxSends
    /\ bm_pow_queue_submit("other", FirstStage(m))
    /\ tries' = [tries EXCEPT ![m] =
                    IF accepted' # accepted THEN @ + 1 ELSE @]

(* A thread of the API sends a new message, under a msg_id of its own.     *)
SendMessage(m) ==
    /\ tries[m] = 0
    /\ bm_send_pipeline_send_message_async(m)
    /\ UNCHANGED <<store, cb, cands, done, handed, confirmed, restarts>>

-----------------------------------------------------------------------------
(* The worker's callbacks.  The job they are for is still q->running.      *)
Outcome == delivered[Len(delivered)].out
InCallback(stage) == wpc = "done" /\ cb = "entry" /\ running.stage = stage

(* ack_pow_done without an object, or without memory for the packet or the *)
(* msg: the attempt has failed.                                            *)
AckFailed ==
    /\ InCallback("ack")
    /\ Report(SendOf(running)) /\ cb' = "return"
    /\ UNCHANGED <<vars, store, cands, handed, tries, confirmed, restarts>>

(* ack_pow_done, build_and_submit_msg: a refused second stage is reported  *)
(* as a failure.                                                           *)
AckPowDone_RefusalUnreported ==
    /\ InCallback("ack") /\ Outcome = "object"
    /\ bm_pow_queue_submit("worker", [running EXCEPT !.stage = "msg"])
    /\ cb' = "return"
    /\ UNCHANGED <<store, cands, done, handed, tries, confirmed, restarts>>
AckPowDone ==
    /\ InCallback("ack") /\ Outcome = "object"
    /\ bm_pow_queue_submit("worker", [running EXCEPT !.stage = "msg"])
    /\ IF accepted' = accepted THEN Report(SendOf(running)) ELSE UNCHANGED done
    /\ cb' = "return"
    /\ UNCHANGED <<store, cands, handed, tries, confirmed, restarts>>

(* msg_pow_done without an object, or unable to write the row.             *)
MsgFailed ==
    /\ InCallback("msg")
    /\ Outcome # "object" \/ FALSE \in DbOutcomes
    /\ Report(SendOf(running)) /\ cb' = "return"
    /\ UNCHANGED <<vars, store, cands, handed, tries, confirmed, restarts>>

(* bm_messages_store_insert_sent: insert the row, or on a conflict replace *)
(* its ack and its status and count a resend.  The new next_resend_time    *)
(* lies ahead.                                                             *)
bm_messages_store_insert_sent_KeepsAck(m, n) ==
    rows' = [rows EXCEPT ![m] =
        IF @.status = "none"
        THEN [status |-> IF m \in SelfMsgs THEN "msgsentnoackexpected" ELSE "sent",
              ack |-> IF m \in SelfMsgs THEN 0 ELSE n, count |-> 0, due |-> FALSE]
        ELSE [@ EXCEPT !.status = "sent", !.count = @ + 1, !.due = FALSE]]
bm_messages_store_insert_sent(m, n) ==
    rows' = [rows EXCEPT ![m] =
        [status |-> IF m \in SelfMsgs THEN "msgsentnoackexpected" ELSE "sent",
         ack    |-> IF m \in SelfMsgs THEN 0 ELSE n,
         count  |-> IF @.status = "none" THEN 0 ELSE @.count + 1,
         due    |-> FALSE]]

(* msg_pow_done, first part: write the row.                                *)
MsgStored ==
    /\ InCallback("msg") /\ Outcome = "object" /\ TRUE \in DbOutcomes
    /\ bm_messages_store_insert_sent(running.msg, running.n)
    /\ cb' = "stored"
    /\ UNCHANGED <<vars, inbox, cands, done, handed, tries, confirmed, restarts>>

(* Second part, for a message to oneself: copy it to the inbox.  Nobody    *)
(* looks whether the write succeeded.                                      *)
InboxCopy ==
    /\ cb = "stored" /\ running.msg \in SelfMsgs
    /\ \E ok \in DbOutcomes :
          inbox' = IF ok THEN inbox \cup {SendOf(running)} ELSE inbox
    /\ cb' = "copied"
    /\ UNCHANGED <<vars, rows, cands, done, handed, tries, confirmed, restarts>>

(* Last part: done(0, object), whose callers store and announce the object.*)
MsgReported ==
    /\ \/ cb = "stored" /\ running.msg \notin SelfMsgs
       \/ cb = "copied"
    /\ Report(SendOf(running))
    /\ handed' = handed \cup {SendOf(running)}
    /\ cb' = "return"
    /\ UNCHANGED <<vars, store, cands, tries, confirmed, restarts>>

Callback == AckFailed \/ AckPowDone \/ MsgFailed \/ MsgStored \/ InboxCopy
            \/ MsgReported

(* The worker and the shutting-down thread in the queue.  A callback begins*)
(* where PowQueue delivers on the worker; it must return before the worker *)
(* goes on.  The shutting-down thread's callbacks get no object and fail   *)
(* the attempt at once.                                                    *)
QueueRuns ==
    /\ WorkerEnter \/ SpuriousWakeup \/ ShutdownJoin \/ ShutdownReturn
    /\ UNCHANGED svars

BeginCallback ==
    /\ PowFound \/ PowCancelled
    /\ cb' = "entry"
    /\ UNCHANGED <<store, cands, done, handed, tries, confirmed, restarts>>

EndCallback ==
    /\ cb = "return" /\ WorkerFinish
    /\ cb' = "none"
    /\ UNCHANGED <<store, cands, done, handed, tries, confirmed, restarts>>

Discard ==
    /\ ShutdownDiscard
    /\ Report(SendOf(Head(doomed)))
    /\ UNCHANGED <<store, cb, cands, handed, tries, confirmed, restarts>>

ShutDown == bm_pow_queue_shutdown /\ UNCHANGED svars

-----------------------------------------------------------------------------
(* The epoll thread.  It is in the loop of the resend check while cands is *)
(* not empty, and dispatches no object then.                               *)

(* bm_messages_store_list_resend_candidates                                *)
Candidates_AckedToo ==
    {m \in Msgs : /\ rows[m].status \notin {"none", "msgsentnoackexpected"}
                  /\ rows[m].due /\ rows[m].count < MaxAttempts}
Candidates_OneLess ==
    {m \in Msgs : /\ rows[m].status = "sent"
                  /\ rows[m].due /\ rows[m].count + 1 < MaxAttempts}
Candidates ==
    {m \in Msgs :
        /\ rows[m].status \notin {"none", "ackreceived", "msgsentnoackexpected"}
        /\ rows[m].due
        /\ rows[m].count < MaxAttempts}

bm_object_sync_check_resends ==
    /\ cands = {} /\ Candidates # {}
    /\ cands' = Candidates
    /\ UNCHANGED <<vars, store, cb, done, handed, tries, confirmed, restarts>>

(* One turn of the loop: submit an attempt ...                             *)
Resend(m) ==
    /\ m \in cands /\ cands' = cands \ {m}
    /\ bm_send_pipeline_send_message_async(m)
    /\ UNCHANGED <<store, cb, done, handed, confirmed, restarts>>

(* ... or skip: the sender is locked, the recipient's key is not cached, or*)
(* no memory.                                                              *)
ResendSkipped(m) ==
    /\ m \in cands /\ cands' = cands \ {m}
    /\ UNCHANGED <<vars, store, cb, done, handed, tries, confirmed, restarts>>

(* bm_messages_store_try_mark_ack_received, for the ack of an attempt that *)
(* was sent: it may come at any later time, again, or never.  Only the ack *)
(* that is in the row is known.                                            *)
bm_messages_store_try_mark_ack_received(s) ==
    /\ cands = {} /\ s \in handed
    /\ rows[s[1]].status # "ackreceived" /\ rows[s[1]].ack = s[2]
    /\ rows' = [rows EXCEPT ![s[1]].status = "ackreceived"]
    /\ confirmed' = confirmed \cup {s[1]}
    /\ UNCHANGED <<vars, inbox, cb, cands, done, handed, tries, restarts>>

(* next_resend_time of a row passes; that of a message to oneself is of no *)
(* interest to anyone.                                                     *)
Overdue(m) ==
    /\ rows[m].status \notin {"none", "msgsentnoackexpected"} /\ ~rows[m].due
    /\ rows' = [rows EXCEPT ![m].due = TRUE]
    /\ UNCHANGED <<vars, inbox, cb, cands, done, handed, tries, confirmed, restarts>>

(* The process ends, killed or shut down, and starts again: messages.db is *)
(* what is left.                                                           *)
Restart ==
    /\ restarts < MaxRestarts /\ restarts' = restarts + 1
    /\ waiting' = <<>> /\ pending' = 0 /\ running' = None
    /\ shutdown' = FALSE /\ cancel' = FALSE /\ completed' = 0
    /\ wpc' = "start" /\ spc' = "idle" /\ doomed' = <<>>
    /\ accepted' = <<>> /\ delivered' = <<>>
    /\ cb' = "none" /\ cands' = {} /\ done' = [s \in Sends |-> 0]
    /\ UNCHANGED <<store, handed, tries, confirmed>>

-----------------------------------------------------------------------------
SendNext ==
    \/ \E m \in Msgs : SendMessage(m)
    \/ Callback
    \/ QueueRuns \/ BeginCallback \/ EndCallback \/ Discard \/ ShutDown
    \/ bm_object_sync_check_resends
    \/ \E m \in Msgs : Resend(m) \/ ResendSkipped(m)
    \/ \E s \in Sends : bm_messages_store_try_mark_ack_received(s)
    \/ \E m \in Msgs : Overdue(m)
    \/ Restart

(* The threads run, searches succeed, time passes, and messages keep coming*)
(* from the peers, which is what starts the resend check.                  *)
SendFairness ==
    /\ WF_allvars(Callback) /\ WF_allvars(EndCallback) /\ WF_allvars(BeginCallback)
    /\ WF_allvars(WorkerEnter /\ UNCHANGED svars)
    /\ WF_allvars((ShutdownJoin \/ ShutdownReturn) /\ UNCHANGED svars)
    /\ WF_allvars(Discard)
    /\ WF_allvars(bm_object_sync_check_resends)
    /\ \A m \in Msgs \ SelfMsgs :
          /\ WF_allvars(Overdue(m))
          /\ WF_allvars(Resend(m) \/ ResendSkipped(m))

SendSpec == SendInit /\ [][SendNext]_allvars /\ SendFairness

(* A message tried again and again is in the end accepted: its sender gets *)
(* unlocked, the queue has room and memory is found.                       *)
Helped == \A m \in Msgs \ SelfMsgs : SF_allvars(Resend(m) /\ accepted' # accepted)

-----------------------------------------------------------------------------
SendTypeOK ==
    /\ TypeOK
    /\ rows \in [Msgs -> Rows] /\ inbox \subseteq Sends
    /\ cb \in {"none", "entry", "stored", "copied", "return"}
    /\ cands \subseteq Msgs /\ done \in [Sends -> Nat] /\ handed \subseteq Sends
    /\ tries \in [Msgs -> 0 .. MaxSends] /\ confirmed \subseteq Msgs
    /\ restarts \in 0 .. MaxRestarts

(* Attempt s is owed a call of done: a job of it has no callback yet, or   *)
(* its callback is under way.                                              *)
Owed(s) == \E i \in Len(delivered) + 1 .. Len(accepted) : SendOf(accepted[i]) = s
Ending(s) == cb \in {"entry", "stored", "copied"} /\ SendOf(running) = s
InFlight(s) == Owed(s) \/ Ending(s)
Accepted(s) == \E i \in 1 .. Len(accepted) : SendOf(accepted[i]) = s

(* send_pipeline.h: an accepted attempt calls done exactly once, on        *)
(* success or failure, whether its first stage, its second, the refusal of *)
(* the second or a shutdown ends it; a refused one never does.             *)
DoneExactlyOnce ==
    \A s \in Sends :
        done[s] = IF Accepted(s) /\ ~InFlight(s) THEN 1 ELSE 0

(* send_pipeline.c, dedup key: two attempts for the same row never run at  *)
(* once, not even between the two stages of one of them.                   *)
OneAttemptAtATime ==
    \A s, t \in Sends : s[1] = t[1] /\ InFlight(s) /\ InFlight(t) => s = t

(* The ack of the newest object of a message that was handed on is the one *)
(* its row waits for, or has been recorded: the row is there before an ack *)
(* can come.  The one exception is a newer attempt that has written its row*)
(* and not yet handed on its object, or never did as the process ended.    *)
NewestAckKnown ==
    \A s \in handed :
        \/ s[1] \in SelfMsgs
        \/ rows[s[1]].ack = s[2]
        \/ \E t \in handed : t[1] = s[1] /\ t[2] > s[2]
        \/ cb = "stored" /\ running.msg = s[1] /\ rows[s[1]].ack = running.n
        \/ restarts > 0 /\ rows[s[1]].ack > s[2]

(* A row is resent at most once more than BM_RESEND_MAX_ATTEMPTS allows: by*)
(* a candidate listed while the last allowed attempt was in flight.        *)
ResendsBounded == \A m \in Msgs : rows[m].count <= MaxAttempts + 1

(* A message to oneself is sent in one attempt without an ack, and never   *)
(* resent.                                                                 *)
SelfSentOnce ==
    \A m \in SelfMsgs :
        /\ tries[m] <= 1 /\ m \notin cands /\ m \notin confirmed
        /\ \A i \in 1 .. Len(accepted) :
              accepted[i].msg = m => accepted[i].stage = "msg"

(* An acknowledged message with no attempt in flight or about to be        *)
(* submitted is at rest, and stays so.                                     *)
AtRest(m) ==
    /\ rows[m].status = "ackreceived" /\ m \notin cands
    /\ \A s \in Sends : s[1] = m => ~InFlight(s)
AckEndsResending == [][\A m \in Msgs : AtRest(m) => AtRest(m)']_allvars

(* Whoever was told that the send began hears how it ended: done is called *)
(* for every accepted attempt, whichever stage it fails in, and also when  *)
(* its second stage is refused (send_pipeline.c:253) or the queue is shut  *)
(* down.  Only a new process knows nothing of it.                          *)
Unreported(m) == \E s \in Sends : s[1] = m /\ Accepted(s) /\ done[s] = 0
EveryAttemptReported ==
    \A m \in Msgs : Unreported(m) ~> ~Unreported(m)

(* If it is accepted in the end, an unacknowledged message is tried again, *)
(* restarts or not, until its ack comes, its resends are used up, or the   *)
(* queue is shut down.                                                     *)
AckedOrGivenUp ==
    Helped =>
      \A m \in Msgs \ SelfMsgs :
        rows[m].status = "sent" ~> \/ rows[m].status = "ackreceived"
                                   \/ rows[m].count >= MaxAttempts
                                   \/ tries[m] = MaxSends
                                   \/ shutdown

(* messages_store.h:16: after BM_RESEND_MAX_ATTEMPTS resends it gives up.  *)
GivesUpAtMax == \A m \in Msgs : rows[m].count <= MaxAttempts

(* test_resend.c:6: a row whose ack was received is no candidate for a     *)
(* resend.                                                                 *)
AckedIsNoCandidate ==
    [][\A m \in cands' \ cands : m \notin confirmed]_allvars
=============================================================================
