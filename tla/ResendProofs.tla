---------------------------- MODULE ResendProofs ----------------------------
(***************************************************************************)
(* Proofs about the rows of messages.db that the pipeline writes, for any  *)
(* messages, number of attempts, failures and restarts (module             *)
(* SendPipeline): how often a message is sent, when it rests, and which    *)
(* ack is known. They rest on the accounts of the attempts (SInv).         *)
(***************************************************************************)
EXTENDS SendPipelineProofs

-----------------------------------------------------------------------------
(* The rows.  A row is there only for a message that was sent; a message to*)
(* oneself waits for no ack, is no candidate and is sent once.             *)
SelfInv(m) ==
    /\ rows[m].ack = 0 /\ rows[m].status \in {"none", "msgsentnoackexpected"}
    /\ m \notin cands /\ m \notin confirmed /\ tries[m] <= 1

RowInv ==
    /\ \A m \in Msgs : /\ rows[m].status = "none" => rows[m].ack = 0
                       /\ rows[m].status # "none" => tries[m] > 0
    /\ \A m \in SelfMsgs : SelfInv(m)
    /\ \A i \in 1 .. Len(accepted) :
          accepted[i].msg \in SelfMsgs => accepted[i].stage = "msg"

(* The steps that touch none of what the invariants of the rows mention.   *)
RowsAlone ==
    \/ QueueRuns \/ BeginCallback \/ EndCallback \/ Discard \/ ShutDown
    \/ AckFailed \/ MsgFailed \/ InboxCopy \/ MsgReported
    \/ UNCHANGED allvars

LEMMA RowsAloneFacts ==
    ASSUME RowsAlone
    PROVE  UNCHANGED <<rows, cands, confirmed, tries, accepted>>
<1> USE DEF svars, store, vars, allvars, hist
<1>1. CASE QueueRuns \/ ShutDown \/ UNCHANGED allvars
    BY <1>1 DEF QueueRuns, ShutDown, WorkerEnter, SpuriousWakeup, ShutdownJoin,
                ShutdownReturn, bm_pow_queue_shutdown
<1>2. CASE BeginCallback \/ EndCallback \/ Discard
    BY <1>2 DEF BeginCallback, EndCallback, Discard, PowFound, PowCancelled,
                WorkerFinish, ShutdownDiscard
<1>3. CASE AckFailed \/ MsgFailed \/ InboxCopy \/ MsgReported
    BY <1>3, ZenonT(60) DEF AckFailed, MsgFailed, InboxCopy, MsgReported
<1> QED
    BY <1>1, <1>2, <1>3 DEF RowsAlone

(* What a submission does to the list of accepted jobs.                    *)
LEMMA SubmitFacts ==
    ASSUME IInv, NEW t, NEW j \in Jobs, bm_pow_queue_submit(t, j)
    PROVE  /\ UNCHANGED <<delivered, running>>
           /\ wpc' = "done" <=> wpc = "done"
           /\ \/ accepted' = accepted
              \/ /\ Len(accepted') = Len(accepted) + 1
                 /\ accepted'[Len(accepted) + 1] = j
                 /\ \A i \in 1 .. Len(accepted) : accepted'[i] = accepted[i]
           /\ \A i \in 1 .. Len(accepted') :
                 i \in 1 .. Len(accepted) \/ (i = Len(accepted) + 1 /\ accepted' # accepted)
<1>1. /\ UNCHANGED <<delivered, running>>
      /\ wpc' = "done" <=> wpc = "done"
      /\ accepted' = accepted \/ accepted' = Append(accepted, j)
    BY DEF bm_pow_queue_submit, Enqueue, Refuse, Broadcast
<1>2. accepted \in Seq(Jobs) /\ Len(accepted) \in Nat
    BY HistoryFacts DEF IInv, TypeOK
<1>3. CASE accepted' = accepted
    BY <1>1, <1>3
<1>4. CASE accepted' = Append(accepted, j)
    BY <1>1, <1>2, <1>4, AppendFacts
<1> QED
    BY <1>1, <1>3, <1>4

(* The running job of a callback is the last one settled.                  *)
LEMMA RunningAccepted ==
    ASSUME SInv, wpc = "done"
    PROVE  /\ Len(delivered) \in 1 .. Len(accepted)
           /\ accepted[Len(delivered)] = running
           /\ running \in Jobs /\ running.msg \in Msgs /\ running.n \in Nat \ {0}
<1>1. running \in Jobs
    BY HistoryFacts DEF SInv
<1>2. running.msg \in Msgs /\ running.n \in Nat \ {0}
    BY <1>1, JobAssumption, NumberAssumption
<1> QED
    BY <1>1, <1>2, HistoryFacts DEF SInv, IInv, OrderInv

(* How insert_sent changes the row of a message.                           *)
LEMMA StoredFacts ==
    ASSUME SInv, MsgStored
    PROVE  /\ wpc = "done" /\ cb = "entry" /\ cb' = "stored" /\ UNCHANGED vars
           /\ UNCHANGED <<cands, confirmed, tries>>
           /\ \A m \in Msgs : m # running.msg => rows'[m] = rows[m]
           /\ running.msg \in Msgs
           /\ rows'[running.msg].status # "none"
           /\ rows'[running.msg].status # "ackreceived"
           /\ rows'[running.msg].count =
                 IF rows[running.msg].status = "none" THEN 0
                 ELSE rows[running.msg].count + 1
           /\ running.msg \in SelfMsgs =>
                 /\ rows'[running.msg].ack = 0
                 /\ rows'[running.msg].status = "msgsentnoackexpected"
<1>1. /\ wpc = "done" /\ cb = "entry" /\ cb' = "stored" /\ UNCHANGED vars
      /\ UNCHANGED <<cands, confirmed, tries>>
    BY DEF MsgStored, InCallback
<1>2. running.msg \in Msgs
    BY <1>1, RunningAccepted
<1>3. rows \in [Msgs -> Rows]
    BY DEF SInv, SendTypeOK
<1> DEFINE m == running.msg
           new == [status |-> IF m \in SelfMsgs THEN "msgsentnoackexpected" ELSE "sent",
                   ack    |-> IF m \in SelfMsgs THEN 0 ELSE running.n,
                   count  |-> IF rows[m].status = "none" THEN 0 ELSE rows[m].count + 1,
                   due    |-> FALSE]
<1>4. rows' = [rows EXCEPT ![m] = new]
    BY DEF MsgStored, bm_messages_store_insert_sent
<1>5. rows'[m] = new /\ \A x \in Msgs : x # m => rows'[x] = rows[x]
    BY <1>2, <1>3, <1>4, ZenonT(60)
<1> QED
    BY <1>1, <1>2, <1>5

LEMMA RowStep ==
    ASSUME SInv, RowInv, [SendNext]_allvars
    PROVE  RowInv'
<1> USE DEF store
<1>0. /\ SelfMsgs \subseteq Msgs /\ rows \in [Msgs -> Rows] /\ tries \in [Msgs -> Nat]
    BY JobAssumption, TriesFacts DEF SInv, SendTypeOK
<1>1. CASE RowsAlone
    BY <1>1, RowsAloneFacts DEF RowInv, SelfInv
<1>2. CASE AckPowDone
  <2> DEFINE j == [running EXCEPT !.stage = "msg"]
  <2>1. wpc = "done" /\ running.stage = "ack" /\ UNCHANGED <<rows, cands, confirmed, tries>>
      BY <1>2 DEF AckPowDone, InCallback
  <2>2. running.msg \notin SelfMsgs
      BY <2>1, RunningAccepted DEF RowInv
  <2>3. j \in Jobs /\ j.msg = running.msg
      BY <2>1, RunningAccepted, JobFacts
  <2>4. \A i \in 1 .. Len(accepted') :
            accepted'[i].msg \in SelfMsgs => accepted'[i].stage = "msg"
    <3>1. bm_pow_queue_submit("worker", j)
        BY <1>2 DEF AckPowDone
    <3> HIDE DEF j
    <3> QED
        BY <2>2, <2>3, <3>1, SubmitFacts DEF SInv, RowInv
  <2> QED
      BY <2>1, <2>4 DEF RowInv, SelfInv
<1>3. CASE MsgStored
  <2> USE StoredFacts, <1>3
  <2>1. tries[running.msg] > 0
    <3>1. running.n <= tries[running.msg] /\ running.n \in Nat \ {0}
        BY RunningAccepted DEF SInv, NumberInv
    <3> QED
        BY <1>0, <3>1
  <2>2. UNCHANGED accepted
      BY DEF vars
  <2>3. \A m \in Msgs : /\ rows'[m].status = "none" => rows'[m].ack = 0
                        /\ rows'[m].status # "none" => tries'[m] > 0
      BY <2>1 DEF RowInv
  <2>4. \A m \in SelfMsgs : SelfInv(m)'
      BY <1>0 DEF RowInv, SelfInv
  <2> QED
      BY <2>2, <2>3, <2>4 DEF RowInv
<1>4. CASE bm_object_sync_check_resends \/ \E m \in Msgs : ResendSkipped(m)
  <2>1. /\ UNCHANGED <<rows, confirmed, tries, accepted>>
        /\ cands' \subseteq cands \/ cands' = Candidates
      BY <1>4 DEF bm_object_sync_check_resends, ResendSkipped, vars
  <2> QED
      BY <1>0, <2>1 DEF RowInv, SelfInv, Candidates
<1>5. CASE \E m \in Msgs : SendMessage(m) \/ Resend(m)
  <2>1. PICK m \in Msgs : SendMessage(m) \/ Resend(m)
      BY <1>5
  <2>2. /\ UNCHANGED <<rows, confirmed>> /\ cands' \subseteq cands
        /\ bm_send_pipeline_send_message_async(m)
        /\ tries[m] = 0 \/ m \in cands
      BY <2>1 DEF SendMessage, Resend
  <2>3. /\ FirstStage(m) \in Jobs /\ FirstStage(m).msg = m
        /\ bm_pow_queue_submit("other", FirstStage(m))
        /\ \A x \in Msgs : tries'[x] = tries[x] \/ (x = m /\ tries'[x] = tries[x] + 1)
      BY <1>0, <2>2, FirstStageFacts DEF bm_send_pipeline_send_message_async, SInv
  <2>4. \A i \in 1 .. Len(accepted') :
            accepted'[i].msg \in SelfMsgs => accepted'[i].stage = "msg"
    <3>1. m \in SelfMsgs => FirstStage(m).stage = "msg"
        BY DEF FirstStage, Job
    <3> QED
        BY <2>3, <3>1, SubmitFacts DEF SInv, RowInv
  <2>5. \A x \in SelfMsgs : SelfInv(x)'
      BY <1>0, <2>2, <2>3 DEF RowInv, SelfInv
  <2>6. \A x \in Msgs : /\ rows'[x].status = "none" => rows'[x].ack = 0
                        /\ rows'[x].status # "none" => tries'[x] > 0
      BY <1>0, <2>2, <2>3 DEF RowInv
  <2> QED
      BY <2>4, <2>5, <2>6 DEF RowInv
<1>6. CASE \E s \in Sends : bm_messages_store_try_mark_ack_received(s)
  <2>1. PICK s \in Sends : bm_messages_store_try_mark_ack_received(s)
      BY <1>6
  <2>2. s[1] \in Msgs /\ s[2] # 0
      BY NumberAssumption DEF Sends
  <2>3. /\ rows[s[1]].ack = s[2] /\ rows[s[1]].status # "none" /\ s[1] \notin SelfMsgs
        /\ UNCHANGED <<cands, tries, accepted>>
        /\ rows' = [rows EXCEPT ![s[1]].status = "ackreceived"]
        /\ confirmed' = confirmed \cup {s[1]}
      BY <2>1, <2>2 DEF bm_messages_store_try_mark_ack_received, RowInv, SelfInv, vars
  <2>4. \A x \in Msgs : x # s[1] => rows'[x] = rows[x]
      BY <1>0, <2>3
  <2>5. rows'[s[1]].status = "ackreceived"
      BY <1>0, <2>2, <2>3 DEF Rows
  <2> QED
      BY <1>0, <2>3, <2>4, <2>5 DEF RowInv, SelfInv
<1>7. CASE \E m \in Msgs : Overdue(m)
  <2>1. PICK m \in Msgs : Overdue(m)
      BY <1>7
  <2>2. \A x \in Msgs : /\ rows'[x].status = rows[x].status
                        /\ rows'[x].ack = rows[x].ack
      BY <1>0, <2>1 DEF Overdue, Rows
  <2>3. UNCHANGED <<cands, confirmed, tries, accepted>>
      BY <2>1 DEF Overdue, vars
  <2> QED
      BY <1>0, <2>2, <2>3 DEF RowInv, SelfInv
<1>8. CASE Restart
  <2>1. /\ UNCHANGED <<rows, confirmed, tries>> /\ cands' = {} /\ Len(accepted') = 0
      BY <1>8 DEF Restart
  <2> QED
      BY <2>1 DEF RowInv, SelfInv
<1> QED
    BY <1>1, <1>2, <1>3, <1>4, <1>5, <1>6, <1>7, <1>8
       DEF SendNext, Callback, RowsAlone

LEMMA InitRowInv == SendInit => RowInv
<1> SUFFICES ASSUME SendInit PROVE RowInv
    OBVIOUS
<1>1. Len(accepted) = 0
    BY DEF SendInit, Init
<1>2. \A m \in Msgs : rows[m].status = "none" /\ rows[m].ack = 0
    BY DEF SendInit, NoRow
<1>3. \A m \in Msgs : m \notin cands /\ m \notin confirmed /\ tries[m] = 0
    BY DEF SendInit
<1> QED
    BY <1>1, <1>2, <1>3, JobAssumption DEF RowInv, SelfInv

(* A message to oneself is sent in one attempt without an ack, and never   *)
(* resent.                                                                 *)
THEOREM SelfOnce == SendSpec => []SelfSentOnce
<1>1. RowInv => SelfSentOnce
    BY DEF RowInv, SelfInv, SelfSentOnce
<1> QED
    BY <1>1, AlwaysSInv, InitRowInv, RowStep, PTL DEF SendSpec

-----------------------------------------------------------------------------
(* An attempt of m is under way that has not written its row yet.          *)
Unwritten(m) ==
    \/ \E i \in Len(delivered) + 1 .. Len(accepted) : accepted[i].msg = m
    \/ cb = "entry" /\ running.msg = m

(* Only a send or a resend of m puts one under way.                        *)
LEMMA WorkBegins ==
    ASSUME SInv, [SendNext]_allvars, NEW m \in Msgs, Unwritten(m)', ~Unwritten(m)
    PROVE  SendMessage(m) \/ Resend(m)
<1> USE DEF store, hist
<1>0. Len(accepted) \in Nat /\ Len(delivered) \in Nat /\ Len(delivered) <= Len(accepted)
    BY HistoryFacts DEF SInv
<1>1. CASE UNCHANGED <<accepted, delivered>> /\ (cb' # "entry" \/ UNCHANGED <<cb, running>>)
    BY <1>1 DEF Unwritten
<1>2. CASE AckPowDone
  <2>1. cb = "entry" /\ wpc = "done" /\ cb' = "return"
      BY <1>2 DEF AckPowDone, InCallback
  <2>2. bm_pow_queue_submit("worker", [running EXCEPT !.stage = "msg"])
      BY <1>2 DEF AckPowDone
  <2>3. /\ [running EXCEPT !.stage = "msg"] \in Jobs
        /\ [running EXCEPT !.stage = "msg"].msg = running.msg
      BY <2>1, RunningAccepted, JobFacts
  <2> DEFINE j == [running EXCEPT !.stage = "msg"]
  <2>4. j \in Jobs /\ j.msg = running.msg /\ bm_pow_queue_submit("worker", j)
      BY <2>2, <2>3
  <2> HIDE DEF j
  <2>5. PICK i \in Len(delivered) + 1 .. Len(accepted') : accepted'[i].msg = m
      BY <2>1, <2>4, SubmitFacts, Zenon DEF SInv, Unwritten
  <2>6. i \in 1 .. Len(accepted) \/ accepted'[i] = j
      BY <1>0, <2>4, <2>5, SubmitFacts DEF SInv
  <2>7. running.msg # m
      BY <2>1 DEF Unwritten
  <2>8. i \in Len(delivered) + 1 .. Len(accepted) /\ accepted'[i] = accepted[i]
      BY <1>0, <2>4, <2>5, <2>6, <2>7, SubmitFacts DEF SInv
  <2> QED
      BY <2>5, <2>8 DEF Unwritten
<1>3. ASSUME NEW x \in Msgs, SendMessage(x) \/ Resend(x), x # m
      PROVE  FALSE
  <2> DEFINE j == FirstStage(x)
  <2>1. j \in Jobs /\ j.msg = x /\ bm_pow_queue_submit("other", j) /\ UNCHANGED cb
      BY <1>3, FirstStageFacts DEF SendMessage, Resend, SInv,
                                   bm_send_pipeline_send_message_async
  <2> HIDE DEF j
  <2>2. UNCHANGED running
      BY <2>1, SubmitFacts DEF SInv
  <2>3. PICK i \in Len(delivered) + 1 .. Len(accepted') : accepted'[i].msg = m
      BY <2>1, <2>2, SubmitFacts DEF SInv, Unwritten
  <2>4. i \in 1 .. Len(accepted) \/ accepted'[i] = j
      BY <1>0, <2>1, <2>3, SubmitFacts DEF SInv
  <2>5. i \in Len(delivered) + 1 .. Len(accepted) /\ accepted'[i] = accepted[i]
      BY <1>0, <1>3, <2>1, <2>3, <2>4, SubmitFacts DEF SInv
  <2> QED
      BY <2>3, <2>5 DEF Unwritten
<1>4. CASE BeginCallback
  <2>1. /\ wpc = "pow" /\ UNCHANGED <<accepted, running>>
        /\ \E out : Deliver(running, out)
      BY <1>4 DEF BeginCallback, PowFound, PowCancelled, qvars
  <2>2. /\ accepted[Len(delivered) + 1] = running
        /\ Len(delivered) + 1 \in Len(delivered) + 1 .. Len(accepted)
      BY <1>0, <2>1 DEF SInv, IInv, TypeOK, OrderInv, Owing
  <2>3. Len(delivered') = Len(delivered) + 1
      BY <2>1, AppendFacts DEF Deliver, SInv, IInv, TypeOK
  <2>4. running.msg # m
      BY <2>2 DEF Unwritten
  <2>5. PICK i \in Len(delivered) + 1 + 1 .. Len(accepted) : accepted[i].msg = m
      BY <2>1, <2>3, <2>4 DEF Unwritten
  <2> QED
      BY <1>0, <2>5 DEF Unwritten
<1>5. CASE Discard
  <2>1. Len(delivered') = Len(delivered) + 1 /\ UNCHANGED <<accepted, running, cb>>
      BY <1>5, AppendFacts DEF Discard, ShutdownDiscard, Deliver, qvars, SInv, IInv, TypeOK
  <2> QED
      BY <1>0, <2>1 DEF Unwritten
<1>6. CASE Restart
  <2>1. Len(accepted') = 0 /\ Len(delivered') = 0 /\ cb' = "none"
      BY <1>6 DEF Restart
  <2> QED
      BY <2>1 DEF Unwritten
<1>7. CASE EndCallback \/ QueueRuns \/ ShutDown
  <2>1. UNCHANGED <<accepted, delivered>>
      BY <1>7, Zenon DEF EndCallback, QueueRuns, ShutDown, WorkerEnter, WorkerFinish,
                  SpuriousWakeup, ShutdownJoin, ShutdownReturn, bm_pow_queue_shutdown
  <2>2. cb' # "entry" \/ UNCHANGED <<cb, running>>
    <3>1. CASE EndCallback
        BY <3>1 DEF EndCallback
    <3>2. CASE WorkerEnter /\ UNCHANGED svars
        BY <3>2 DEF WorkerEnter, svars, SInv, HeldInv
    <3>3. CASE /\ SpuriousWakeup \/ ShutdownJoin \/ ShutdownReturn \/ bm_pow_queue_shutdown
               /\ UNCHANGED svars
        BY <3>3 DEF SpuriousWakeup, ShutdownJoin, ShutdownReturn,
                    bm_pow_queue_shutdown, svars, qvars
    <3> QED
        BY <1>7, <3>1, <3>2, <3>3 DEF QueueRuns, ShutDown
  <2> QED
      BY <1>1, <2>1, <2>2
<1>8. CASE AckFailed \/ MsgFailed \/ MsgStored \/ InboxCopy \/ MsgReported
    BY <1>1, <1>8, Zenon DEF AckFailed, MsgFailed, MsgStored, InboxCopy, MsgReported, vars
<1>9. CASE \/ bm_object_sync_check_resends
           \/ \E x \in Msgs : ResendSkipped(x) \/ Overdue(x)
           \/ \E s \in Sends : bm_messages_store_try_mark_ack_received(s)
           \/ UNCHANGED allvars
    BY <1>1, <1>9, ZenonT(60) DEF bm_object_sync_check_resends, ResendSkipped, Overdue,
                      bm_messages_store_try_mark_ack_received, allvars, svars, vars
<1> QED
    BY <1>2, <1>3, <1>4, <1>5, <1>6, <1>7, <1>8, <1>9 DEF SendNext, Callback

(* The resends a row has had, and the one that is under way.               *)
Resends(m) ==
    rows[m].count + IF rows[m].status # "none" /\ Unwritten(m) THEN 1 ELSE 0

(* A candidate has one resend left even after the one under way; the one   *)
(* resend too many comes from a candidate listed before that one ended.    *)
CountInv ==
    \A m \in Msgs : /\ Resends(m) <= MaxAttempts + 1
                    /\ m \in cands => Resends(m) <= MaxAttempts

LEMMA CountStep ==
    ASSUME SInv, RowInv, CountInv, [SendNext]_allvars
    PROVE  CountInv'
<1> SUFFICES ASSUME NEW m \in Msgs
             PROVE  /\ Resends(m)' <= MaxAttempts + 1
                    /\ m \in cands' => Resends(m)' <= MaxAttempts
    BY DEF CountInv
<1> USE DEF store
<1>0. /\ rows \in [Msgs -> Rows] /\ MaxAttempts \in Nat
      /\ \A x \in Msgs : rows[x].count \in Nat
    BY NumberAssumption DEF SInv, SendTypeOK, Rows
<1>1. /\ Resends(m) <= MaxAttempts + 1
      /\ m \in cands => Resends(m) <= MaxAttempts
      /\ Resends(m) \in Nat /\ rows[m].count <= Resends(m)
      /\ rows[m].count <= MaxAttempts + 1
      /\ Unwritten(m) /\ rows[m].status # "none" => Resends(m) = rows[m].count + 1
      /\ ~Unwritten(m) \/ rows[m].status = "none" => Resends(m) = rows[m].count
    BY <1>0 DEF CountInv, Resends
<1>2. CASE MsgStored
  <2>1. CASE m = running.msg
    <3>1. cb = "entry" /\ cb' = "stored" /\ UNCHANGED vars /\ UNCHANGED cands
        BY <1>2, StoredFacts, Zenon
    <3>2. Unwritten(m)
        BY <2>1, <3>1 DEF Unwritten
    <3>3. ~Unwritten(m)'
        BY <2>1, <3>1, Zenon DEF Unwritten, vars, SInv, HeldInv
    <3>4. Resends(m)' = rows'[m].count
      <4>1. rows'[m].count \in Nat
          BY <1>0, <1>2, <2>1, StoredFacts
      <4> QED
          BY <3>3, <4>1 DEF Resends
    <3>5. rows'[m].count = IF rows[m].status = "none" THEN 0 ELSE rows[m].count + 1
        BY <1>2, <2>1, StoredFacts
    <3> QED
        BY <1>0, <1>1, <3>1, <3>2, <3>4, <3>5, SMTT(60)
  <2>2. CASE m # running.msg
    <3>1. rows'[m] = rows[m] /\ cb = "entry" /\ cb' = "stored" /\ UNCHANGED <<vars, cands>>
        BY <1>2, <2>2, StoredFacts, Zenon
    <3>2. Unwritten(m)' <=> Unwritten(m)
        BY <2>2, <3>1 DEF Unwritten, vars
    <3> QED
        BY <1>1, <3>1, <3>2, Zenon DEF Resends
  <2> QED
      BY <2>1, <2>2
<1>3. CASE /\ rows'[m].count = rows[m].count /\ (rows'[m].status = "none" <=> rows[m].status = "none")
           /\ Unwritten(m)' => Unwritten(m)
           /\ cands' \subseteq cands
    BY <1>0, <1>1, <1>3, SMTT(60) DEF Resends
<1>4. CASE SendMessage(m) \/ Resend(m)
  <2>1. UNCHANGED rows
      BY <1>4 DEF SendMessage, Resend
  <2>2. CASE SendMessage(m)
    <3>1. rows[m].status = "none"
      <4>1. tries[m] = 0
          BY <2>2 DEF SendMessage
      <4>2. rows[m].status # "none" => tries[m] > 0
          BY DEF RowInv
      <4> QED
          BY <4>1, <4>2
    <3> QED
        BY <1>0, <1>1, <2>1, <2>2, <3>1 DEF SendMessage, Resends
  <2>3. CASE Resend(m)
    <3>1. m \in cands /\ m \notin cands'
        BY <2>3 DEF Resend
    <3> QED
        BY <1>0, <1>1, <2>1, <3>1 DEF Resends
  <2> QED
      BY <1>4, <2>2, <2>3
<1>5. ~(SendMessage(m) \/ Resend(m)) => (Unwritten(m)' => Unwritten(m))
    BY WorkBegins
<1>6. CASE bm_object_sync_check_resends
  <2>1. UNCHANGED <<vars, rows, cb>> /\ cands' = Candidates
      BY <1>6 DEF bm_object_sync_check_resends
  <2>2. Unwritten(m)' <=> Unwritten(m)
      BY <2>1, Zenon DEF Unwritten, vars
  <2>3. m \in Candidates => rows[m].count < MaxAttempts
      BY DEF Candidates
  <2> QED
      BY <1>0, <1>1, <2>1, <2>2, <2>3 DEF Resends
<1>7. CASE /\ ~(SendMessage(m) \/ Resend(m)) /\ ~MsgStored /\ ~bm_object_sync_check_resends
  <2>1. \/ RowsAlone \/ AckPowDone \/ Restart
        \/ \E x \in Msgs : SendMessage(x) \/ Resend(x) \/ ResendSkipped(x)
        \/ \E x \in Msgs : Overdue(x)
        \/ \E s \in Sends : bm_messages_store_try_mark_ack_received(s)
      BY <1>7 DEF SendNext, Callback, RowsAlone
  <2>2. CASE RowsAlone
      BY <1>3, <1>5, <1>7, <2>2, RowsAloneFacts, Zenon
  <2>3. CASE AckPowDone \/ Restart \/ \E x \in Msgs : SendMessage(x) \/ Resend(x) \/ ResendSkipped(x)
    <3>1. UNCHANGED rows /\ cands' \subseteq cands
        BY <2>3 DEF AckPowDone, Restart, SendMessage, Resend, ResendSkipped
    <3> QED
        BY <1>3, <1>5, <1>7, <3>1
  <2>4. CASE \E x \in Msgs : Overdue(x)
    <3>1. UNCHANGED cands /\ rows'[m].count = rows[m].count /\ rows'[m].status = rows[m].status
        BY <1>0, <2>4 DEF Overdue, Rows
    <3> QED
        BY <1>3, <1>5, <1>7, <3>1, Zenon
  <2>5. CASE \E s \in Sends : bm_messages_store_try_mark_ack_received(s)
    <3>1. PICK s \in Sends : bm_messages_store_try_mark_ack_received(s)
        BY <2>5
    <3>2. s[1] \in Msgs /\ s[2] # 0
        BY NumberAssumption DEF Sends
    <3>3. rows[s[1]].status # "none" /\ UNCHANGED cands
        BY <3>1, <3>2 DEF bm_messages_store_try_mark_ack_received, RowInv
    <3>4. /\ rows'[m].count = rows[m].count
          /\ rows'[m].status = "none" <=> rows[m].status = "none"
        BY <1>0, <3>1, <3>2, <3>3 DEF bm_messages_store_try_mark_ack_received, Rows
    <3> QED
        BY <1>3, <1>5, <1>7, <3>3, <3>4, Zenon
  <2> QED
      BY <2>1, <2>2, <2>3, <2>4, <2>5
<1> QED
    BY <1>2, <1>4, <1>6, <1>7

LEMMA InitCountInv == SendInit => CountInv
<1> SUFFICES ASSUME SendInit, NEW m \in Msgs
             PROVE  Resends(m) = 0
    BY NumberAssumption DEF CountInv
<1>1. rows[m].status = "none" /\ rows[m].count = 0
    BY DEF SendInit, NoRow
<1> QED
    BY <1>1 DEF Resends

(* A row is resent at most once more than BM_RESEND_MAX_ATTEMPTS.          *)
THEOREM BoundedResends == SendSpec => []ResendsBounded
<1>1. SInv /\ CountInv => ResendsBounded
  <2> SUFFICES ASSUME SInv, CountInv, NEW m \in Msgs
               PROVE  rows[m].count <= MaxAttempts + 1
      BY DEF ResendsBounded
  <2>1. rows[m].count \in Nat /\ MaxAttempts \in Nat
      BY NumberAssumption DEF SInv, SendTypeOK, Rows
  <2> QED
      BY <2>1 DEF CountInv, Resends
<1> QED
    BY <1>1, AlwaysSInv, InitRowInv, RowStep, InitCountInv, CountStep, PTL DEF SendSpec

(* An acknowledged message with nothing under way stays at rest.           *)
THEOREM RestAfterAck == SendSpec => AckEndsResending
<1>1. ASSUME SInv, RowInv, [SendNext]_allvars, NEW m \in Msgs, AtRest(m)
      PROVE  AtRest(m)'
  <2>0. rows \in [Msgs -> Rows] /\ tries \in [Msgs -> Nat]
      BY <1>1, TriesFacts DEF SInv, SendTypeOK
  <2>1. \A j \in Jobs : j.msg = m => ~InFlight(SendOf(j))
      BY <1>1, JobFacts, ZenonT(60) DEF AtRest
  <2>2. ~Unwritten(m)
    <3>1. ASSUME NEW i \in Len(delivered) + 1 .. Len(accepted), accepted[i].msg = m
          PROVE  FALSE
        BY <1>1, <2>1, <3>1, HistoryFacts DEF SInv, InFlight, Owed
    <3>2. ASSUME cb = "entry", running.msg = m
          PROVE  FALSE
      <4>1. running \in Jobs
          BY <1>1, <3>2, HistoryFacts DEF SInv, HeldInv
      <4> QED
          BY <2>1, <3>2, <4>1 DEF InFlight, Ending
    <3> QED
        BY <3>1, <3>2 DEF Unwritten
  <2>3. cb \in {"entry", "stored", "copied"} => running.msg # m
    <3> SUFFICES ASSUME cb \in {"entry", "stored", "copied"}, running.msg = m
                 PROVE  FALSE
        OBVIOUS
    <3>1. running \in Jobs
        BY <1>1, HistoryFacts DEF SInv, HeldInv
    <3> QED
        BY <2>1, <3>1 DEF InFlight, Ending
  <2>4. ~SendMessage(m) /\ ~Resend(m)
      BY <1>1, <2>0, SMTT(60) DEF SendMessage, Resend, AtRest, RowInv
  <2>5. ~Unwritten(m)'
      BY <1>1, <2>2, <2>4, WorkBegins
  <2>6. rows'[m].status = "ackreceived" /\ m \notin cands'
    <3> USE <1>1, <2>0 DEF AtRest, store
    <3>1. CASE MsgStored
      <4>1. m # running.msg
          BY <2>3, <3>1, StoredFacts
      <4> QED
          BY <3>1, <4>1, StoredFacts
    <3>2. CASE bm_object_sync_check_resends
        BY <3>2 DEF bm_object_sync_check_resends, Candidates
    <3>3. CASE AckPowDone \/ Restart
               \/ \E x \in Msgs : SendMessage(x) \/ Resend(x) \/ ResendSkipped(x)
        BY <3>3 DEF AckPowDone, Restart, SendMessage, Resend, ResendSkipped
    <3>4. CASE \E x \in Msgs : Overdue(x)
        BY <3>4 DEF Overdue, Rows
    <3>5. CASE \E s \in Sends : bm_messages_store_try_mark_ack_received(s)
        BY <3>5 DEF bm_messages_store_try_mark_ack_received, Sends, Rows
    <3>6. CASE RowsAlone
        BY <3>6, RowsAloneFacts
    <3> QED
        BY <3>1, <3>2, <3>3, <3>4, <3>5, <3>6, Zenon DEF SendNext, Callback, RowsAlone
  <2>7. cb' \in {"stored", "copied"} => running'.msg # m
    <3> SUFFICES ASSUME cb' \in {"stored", "copied"}
                 PROVE  cb \in {"entry", "stored", "copied"} /\ UNCHANGED running
        BY <2>3
    <3> USE <1>1
    <3>1. CASE MsgStored \/ InboxCopy
        BY <3>1, ZenonT(60) DEF MsgStored, InboxCopy, InCallback, vars
    <3>2. CASE AckFailed \/ AckPowDone \/ MsgFailed \/ MsgReported \/ BeginCallback
               \/ EndCallback \/ Restart
        BY <3>2, ZenonT(60) DEF AckFailed, AckPowDone, MsgFailed, MsgReported, BeginCallback,
                    EndCallback, Restart
    <3>3. CASE QueueRuns \/ ShutDown \/ Discard
      <4>1. UNCHANGED cb
          BY <3>3 DEF QueueRuns, ShutDown, Discard, svars
      <4>2. wpc = "done"
          BY <4>1 DEF SInv, HeldInv
      <4> QED
          BY <3>3, <4>1, <4>2 DEF QueueRuns, ShutDown, Discard, WorkerEnter,
                SpuriousWakeup, ShutdownJoin, ShutdownReturn, ShutdownDiscard,
                bm_pow_queue_shutdown, qvars
    <3>4. CASE \E x \in Msgs : SendMessage(x) \/ Resend(x)
      <4>1. UNCHANGED cb
          BY <3>4 DEF SendMessage, Resend
      <4>2. UNCHANGED running
          BY <3>4 DEF SendMessage, Resend, bm_send_pipeline_send_message_async,
                      bm_pow_queue_submit
      <4> QED
          BY <4>1, <4>2
    <3>5. CASE \/ bm_object_sync_check_resends
               \/ \E x \in Msgs : ResendSkipped(x) \/ Overdue(x)
               \/ \E s \in Sends : bm_messages_store_try_mark_ack_received(s)
               \/ UNCHANGED allvars
        BY <3>5, ZenonT(60) DEF bm_object_sync_check_resends, ResendSkipped, Overdue,
                    bm_messages_store_try_mark_ack_received, allvars, svars, vars
    <3> QED
        BY <3>1, <3>2, <3>3, <3>4, <3>5 DEF SendNext, Callback
  <2>8. ASSUME NEW s \in Sends, s[1] = m, InFlight(s)'
        PROVE  FALSE
    <3>1. ASSUME Owed(s)' PROVE FALSE
      <4>1. PICK i \in Len(delivered') + 1 .. Len(accepted') : SendOf(accepted'[i]) = s
          BY <3>1 DEF Owed
      <4>2. accepted'[i].msg = m
          BY <2>8, <4>1 DEF SendOf
      <4> QED
          BY <2>5, <4>1, <4>2 DEF Unwritten
    <3>2. ASSUME Ending(s)' PROVE FALSE
      <4>1. cb' \in {"entry", "stored", "copied"} /\ running'.msg = m
          BY <2>8, <3>2 DEF Ending, SendOf
      <4> QED
          BY <2>5, <2>7, <4>1 DEF Unwritten
    <3> QED
        BY <2>8, <3>1, <3>2 DEF InFlight
  <2> QED
      BY <2>6, <2>8 DEF AtRest
<1>2. SInv /\ RowInv /\ [SendNext]_allvars
          => [\A m \in Msgs : AtRest(m) => AtRest(m)']_allvars
    BY <1>1
<1> QED
    BY <1>2, AlwaysSInv, InitRowInv, RowStep, PTL DEF SendSpec, AckEndsResending

-----------------------------------------------------------------------------
(* The acks.  NewestAckKnown is not inductive: it does not say that the    *)
(* next attempt to write the row is newer than every object handed on, nor *)
(* that the callback between its two writes has just written its own ack.  *)
AckInv(m) ==
    /\ \A s \in handed : s[1] = m => s[2] <= rows[m].ack
    /\ rows[m].ack > 0 => \/ <<m, rows[m].ack>> \in handed
                          \/ cb = "stored" /\ running.msg = m
                          \/ restarts > 0
    /\ cb = "stored" /\ running.msg = m => rows[m].ack = running.n
    /\ cb = "entry" /\ running.msg = m => rows[m].ack < running.n
    /\ cb = "copied" => running.msg # m
    /\ \A i \in Len(delivered) + 1 .. Len(accepted) :
          accepted[i].msg = m => rows[m].ack < accepted[i].n
    /\ rows[m].ack <= tries[m]

(* Steps that settle, write and hand on nothing of m, but may leave the    *)
(* callback.                                                               *)
LEMMA AckQuiet ==
    ASSUME NEW m, AckInv(m), rows'[m].ack = rows[m].ack,
           UNCHANGED <<accepted, delivered, handed, tries, restarts>>,
           \/ UNCHANGED <<cb, running>>
           \/ cb' \in {"none", "return"} /\ ~(cb = "stored" /\ running.msg = m)
    PROVE  AckInv(m)'
BY Zenon DEF AckInv

(* The row is written with the ack of the attempt that is running, which   *)
(* is newer than any before it.                                            *)
LEMMA AckWritten ==
    ASSUME SInv, MsgStored, NEW m \in Msgs \ SelfMsgs, AckInv(m)
    PROVE  AckInv(m)'
<1>1. /\ wpc = "done" /\ cb = "entry" /\ cb' = "stored"
      /\ UNCHANGED <<accepted, delivered, running, handed, tries, restarts>>
    BY StoredFacts, Zenon DEF MsgStored, vars, hist
<1>2. /\ running.msg \in Msgs /\ running.n \in Nat \ {0}
      /\ running.n <= tries[running.msg]
    BY <1>1, RunningAccepted, Zenon DEF SInv, NumberInv
<1>3. /\ rows \in [Msgs -> Rows] /\ rows[m].ack \in Nat
      /\ \A s \in handed : s[2] \in Nat
    BY NumberAssumption DEF SInv, SendTypeOK, Rows, Sends
<1>4. CASE m # running.msg
  <2>1. rows'[m] = rows[m]
      BY <1>4, StoredFacts
  <2> QED
      BY <1>1, <1>4, <2>1, Zenon DEF AckInv
<1>5. CASE m = running.msg
  <2>1. rows'[m].ack = running.n
      BY <1>2, <1>3, <1>5 DEF MsgStored, bm_messages_store_insert_sent
  <2>2. \A i \in Len(delivered) + 1 .. Len(accepted) : accepted[i].msg # m
      BY <1>1, <1>5 DEF SInv, HeldInv
  <2>3. rows[m].ack < running.n
      BY <1>1, <1>5, Zenon DEF AckInv
  <2>4. \A s \in handed : s[1] = m => s[2] <= running.n
      BY <1>2, <1>3, <2>3 DEF AckInv
  <2> QED
      BY <1>1, <1>2, <1>5, <2>1, <2>2, <2>4, Zenon DEF AckInv
<1> QED
    BY <1>4, <1>5

(* The object is handed on: its ack is the one in the row.                 *)
LEMMA AckHanded ==
    ASSUME SInv, MsgReported, NEW m \in Msgs \ SelfMsgs, AckInv(m)
    PROVE  AckInv(m)'
<1>1. /\ UNCHANGED <<accepted, delivered, running, rows, tries, restarts>>
      /\ handed' = handed \cup {<<running.msg, running.n>>} /\ cb' = "return"
      /\ cb \in {"stored", "copied"}
    BY Zenon DEF MsgReported, SendOf, store, vars, hist
<1>2. wpc = "done" /\ running.n \in Nat
    BY <1>1, RunningAccepted, Zenon DEF SInv, HeldInv
<1>3. CASE m # running.msg
    BY <1>1, <1>3 DEF AckInv
<1>4. CASE m = running.msg
  <2>1. cb = "stored" /\ rows[m].ack = running.n
      BY <1>1, <1>4, Zenon DEF AckInv
  <2>2. \A s \in handed' : s[1] = m => s[2] <= rows[m].ack
      BY <1>1, <1>2, <2>1 DEF AckInv
  <2> QED
      BY <1>1, <1>4, <2>1, <2>2, Zenon DEF AckInv
<1> QED
    BY <1>3, <1>4

(* A job is submitted: what is accepted is newer than the row.             *)
LEMMA AckSubmit ==
    ASSUME SInv, NEW m \in Msgs, AckInv(m), NEW t, NEW j \in Jobs,
           bm_pow_queue_submit(t, j), UNCHANGED <<rows, handed, restarts>>,
           j.msg = m => rows[m].ack < j.n,
           tries'[m] \in Nat /\ tries[m] \in Nat /\ tries[m] <= tries'[m],
           cb' = cb \/ (cb' = "return" /\ cb # "stored")
    PROVE  AckInv(m)'
<1>1. /\ UNCHANGED <<delivered, running>>
      /\ Len(accepted) \in Nat /\ Len(delivered) \in Nat
      /\ rows[m].ack \in Nat
    BY SubmitFacts, HistoryFacts, NumberAssumption DEF SInv, SendTypeOK, Rows
<1>2. \A i \in Len(delivered) + 1 .. Len(accepted') :
          accepted'[i].msg = m => rows[m].ack < accepted'[i].n
  <2> SUFFICES ASSUME NEW i \in Len(delivered) + 1 .. Len(accepted'), accepted'[i].msg = m
               PROVE  rows[m].ack < accepted'[i].n
      BY Zenon
  <2>1. CASE accepted' = accepted
      BY <2>1, Zenon DEF AckInv
  <2>2. CASE accepted' # accepted
    <3>1. /\ Len(accepted') = Len(accepted) + 1 /\ accepted'[Len(accepted) + 1] = j
          /\ \A k \in 1 .. Len(accepted) : accepted'[k] = accepted[k]
        BY <2>2, SubmitFacts, Zenon DEF SInv
    <3>2. CASE i = Len(accepted) + 1
        BY <3>1, <3>2, Zenon
    <3>3. CASE i # Len(accepted) + 1
      <4>1. i \in Len(delivered) + 1 .. Len(accepted) /\ i \in 1 .. Len(accepted)
          BY <1>1, <3>1, <3>3
      <4> QED
          BY <3>1, <4>1, Zenon DEF AckInv
    <3> QED
        BY <3>2, <3>3, Zenon
  <2> QED
      BY <2>1, <2>2, Zenon
<1>3. rows[m].ack <= tries'[m]
    BY <1>1 DEF AckInv
<1> QED
    BY <1>1, <1>2, <1>3, Zenon DEF AckInv

(* The oldest owed job is settled: by the worker, whose callback begins,   *)
(* or by the shutting-down thread.                                         *)
LEMMA AckSettled ==
    ASSUME SInv, NEW m \in Msgs, AckInv(m), Len(delivered') = Len(delivered) + 1,
           UNCHANGED <<accepted, rows, handed, tries, restarts>>, cb = "none",
           \/ cb' = "none"
           \/ /\ cb' = "entry" /\ running' = accepted[Len(delivered) + 1]
              /\ Len(delivered) + 1 <= Len(accepted)
    PROVE  AckInv(m)'
<1>1. Len(accepted) \in Nat /\ Len(delivered) \in Nat
    BY HistoryFacts DEF SInv
<1>2. \A i \in Len(delivered') + 1 .. Len(accepted) : i \in Len(delivered) + 1 .. Len(accepted)
    BY <1>1
<1>3. cb' = "entry" /\ running'.msg = m => rows[m].ack < running'.n
    BY <1>1 DEF AckInv
<1> QED
    BY <1>2, <1>3, Zenon DEF AckInv

LEMMA AckStep ==
    ASSUME SInv, RowInv, [SendNext]_allvars, NEW m \in Msgs \ SelfMsgs, AckInv(m)
    PROVE  AckInv(m)'
<1> USE DEF store, hist
<1>0. /\ rows \in [Msgs -> Rows] /\ rows[m].ack \in Nat
      /\ tries \in [Msgs -> Nat] /\ tries[m] \in Nat
    BY NumberAssumption, TriesFacts DEF SInv, SendTypeOK, Rows
<1>1. CASE QueueRuns \/ ShutDown \/ EndCallback
  <2>1. UNCHANGED <<accepted, delivered, rows, handed, tries, restarts>>
      BY <1>1, Zenon DEF EndCallback, QueueRuns, ShutDown, WorkerEnter, WorkerFinish, svars,
                  SpuriousWakeup, ShutdownJoin, ShutdownReturn, bm_pow_queue_shutdown
  <2>2. \/ UNCHANGED <<cb, running>>
        \/ cb' \in {"none", "return"} /\ cb # "stored"
    <3>1. CASE EndCallback
        BY <3>1 DEF EndCallback
    <3>2. CASE WorkerEnter /\ UNCHANGED svars
        BY <3>2, Zenon DEF WorkerEnter, svars, SInv, HeldInv
    <3>3. CASE /\ SpuriousWakeup \/ ShutdownJoin \/ ShutdownReturn \/ bm_pow_queue_shutdown
               /\ UNCHANGED svars
        BY <3>3, Zenon DEF SpuriousWakeup, ShutdownJoin, ShutdownReturn,
                    bm_pow_queue_shutdown, svars, qvars
    <3> QED
        BY <1>1, <3>1, <3>2, <3>3 DEF QueueRuns, ShutDown
  <2> QED
      BY <2>1, <2>2, AckQuiet, Zenon
<1>2. CASE AckFailed \/ MsgFailed
  <2>1. /\ UNCHANGED <<accepted, delivered, rows, handed, tries, restarts>>
        /\ cb = "entry" /\ cb' = "return"
      BY <1>2, Zenon DEF AckFailed, MsgFailed, InCallback, vars
  <2> QED
      BY <2>1, AckQuiet, Zenon
<1>3. CASE InboxCopy
  <2>1. /\ UNCHANGED <<accepted, delivered, running, rows, handed, tries, restarts>>
        /\ cb' = "copied" /\ running.msg # m
      BY <1>3, Zenon DEF InboxCopy, vars
  <2> QED
      BY <2>1, Zenon DEF AckInv
<1>4. CASE MsgStored \/ MsgReported
    BY <1>4, AckWritten, AckHanded
<1>5. CASE AckPowDone
  <2> DEFINE j == [running EXCEPT !.stage = "msg"]
  <2>1. /\ wpc = "done" /\ cb = "entry" /\ cb' = "return"
        /\ UNCHANGED <<rows, handed, tries, restarts>>
        /\ bm_pow_queue_submit("worker", j)
      BY <1>5 DEF AckPowDone, InCallback
  <2>2. j \in Jobs /\ j.msg = running.msg /\ j.n = running.n
      BY <2>1, RunningAccepted, JobFacts, Zenon
  <2> HIDE DEF j
  <2>3. j.msg = m => rows[m].ack < j.n
      BY <2>1, <2>2, Zenon DEF AckInv
  <2> QED
      BY <1>0, <2>1, <2>2, <2>3, AckSubmit
<1>6. CASE BeginCallback
  <2>1. /\ wpc = "pow" /\ UNCHANGED <<accepted, running, rows, handed, tries, restarts>>
        /\ \E out : Deliver(running, out)
        /\ cb' = "entry"
      BY <1>6, Zenon DEF BeginCallback, PowFound, PowCancelled, qvars
  <2>2. accepted[Len(delivered) + 1] = running /\ Len(delivered) + 1 <= Len(accepted)
      BY <2>1, HistoryFacts DEF SInv, IInv, TypeOK, OrderInv, Owing
  <2>3. Len(delivered') = Len(delivered) + 1
      BY <2>1, AppendFacts DEF Deliver, SInv, IInv, TypeOK
  <2>4. cb = "none"
      BY <2>1, Zenon DEF SInv, HeldInv
  <2> QED
      BY <2>1, <2>2, <2>3, <2>4, AckSettled
<1>7. CASE Discard
  <2>1. /\ Len(delivered') = Len(delivered) + 1 /\ wpc = "exited"
        /\ UNCHANGED <<accepted, rows, handed, tries, restarts, cb>>
      BY <1>7, AppendFacts DEF Discard, ShutdownDiscard, Deliver, qvars, SInv, IInv,
                               TypeOK, ControlInv
  <2>2. cb = "none"
      BY <2>1 DEF SInv, HeldInv
  <2> QED
      BY <2>1, <2>2, AckSettled
<1>8. CASE \E x \in Msgs : SendMessage(x) \/ Resend(x)
  <2>1. PICK x \in Msgs : SendMessage(x) \/ Resend(x)
      BY <1>8
  <2> DEFINE j == FirstStage(x)
  <2>2. /\ j \in Jobs /\ j.msg = x /\ j.n = tries[x] + 1
        /\ bm_pow_queue_submit("other", j)
        /\ UNCHANGED <<cb, rows, handed, restarts>>
      BY <2>1, FirstStageFacts, Zenon DEF SendMessage, Resend, SInv,
                                   bm_send_pipeline_send_message_async
  <2> HIDE DEF j
  <2>3. j.msg = m => rows[m].ack < j.n
    <3>1. rows[m].ack <= tries[m]
        BY Zenon DEF AckInv
    <3> QED
        BY <1>0, <2>2, <3>1
  <2>4. tries'[m] \in Nat /\ tries[m] <= tries'[m]
      BY <1>0, <2>1 DEF SendMessage, Resend, bm_send_pipeline_send_message_async
  <2> QED
      BY <1>0, <2>2, <2>3, <2>4, AckSubmit, Zenon
<1>9. CASE \/ bm_object_sync_check_resends
           \/ \E x \in Msgs : ResendSkipped(x)
           \/ UNCHANGED allvars
  <2>1. UNCHANGED <<accepted, delivered, running, rows, handed, tries, restarts, cb>>
      BY <1>9, ZenonT(60) DEF bm_object_sync_check_resends, ResendSkipped, allvars, svars,
         vars
  <2> QED
      BY <2>1, AckQuiet, Zenon
<1>10. CASE \/ \E s \in Sends : bm_messages_store_try_mark_ack_received(s)
            \/ \E x \in Msgs : Overdue(x)
  <2>1. UNCHANGED <<accepted, delivered, running, handed, tries, restarts, cb>>
      BY <1>10, ZenonT(60) DEF bm_messages_store_try_mark_ack_received, Overdue, vars
  <2>2. rows'[m].ack = rows[m].ack
    <3>1. ASSUME NEW x \in Msgs, Overdue(x) PROVE rows'[m].ack = rows[m].ack
        BY <1>0, <3>1 DEF Overdue, Rows
    <3>2. ASSUME NEW s \in Sends, bm_messages_store_try_mark_ack_received(s)
          PROVE  rows'[m].ack = rows[m].ack
        BY <1>0, <3>2 DEF bm_messages_store_try_mark_ack_received, Rows, Sends
    <3> QED
        BY <1>10, <3>1, <3>2, Zenon
  <2> QED
      BY <2>1, <2>2, AckQuiet, Zenon
<1>11. CASE Restart
  <2>1. /\ UNCHANGED <<rows, handed, tries>> /\ restarts' = restarts + 1
        /\ Len(accepted') = 0 /\ Len(delivered') = 0 /\ cb' = "none" /\ restarts \in Nat
      BY <1>11, NumberAssumption DEF Restart, SInv, SendTypeOK
  <2>2. /\ restarts' > 0
        /\ \A i \in Len(delivered') + 1 .. Len(accepted') : FALSE
      BY <2>1
  <2> QED
      BY <2>1, <2>2, Zenon DEF AckInv
<1> QED
    BY <1>1, <1>2, <1>3, <1>4, <1>5, <1>6, <1>7, <1>8, <1>9, <1>10, <1>11
       DEF SendNext, Callback

LEMMA AckInit == ASSUME SendInit, NEW m \in Msgs PROVE AckInv(m)
<1>1. /\ rows[m].ack = 0 /\ handed = {} /\ cb = "none" /\ tries[m] = 0
      /\ Len(accepted) = 0 /\ Len(delivered) = 0
    BY Zenon DEF SendInit, Init, NoRow
<1>2. /\ ~ rows[m].ack > 0 /\ rows[m].ack <= tries[m]
      /\ \A i \in Len(delivered) + 1 .. Len(accepted) : FALSE
    BY <1>1
<1> QED
    BY <1>1, <1>2, Zenon DEF AckInv

(* When the ack of the newest object that was handed on comes back,        *)
(* bm_messages_store_try_mark_ack_received knows it: a resend replaces the *)
(* ack in the row before it hands on its own object, and never by an older *)
(* one.                                                                    *)
THEOREM NewestAckFound == SendSpec => []NewestAckKnown
<1> DEFINE Acks == \A m \in Msgs \ SelfMsgs : AckInv(m)
<1>1. SendInit => Acks
    BY AckInit
<1>2. SInv /\ RowInv /\ Acks /\ [SendNext]_allvars => Acks'
    BY AckStep
<1>3. SInv /\ Acks => NewestAckKnown
  <2> SUFFICES ASSUME SInv, Acks, NEW s \in handed, s[1] \notin SelfMsgs
               PROVE  \/ rows[s[1]].ack = s[2]
                      \/ \E t \in handed : t[1] = s[1] /\ t[2] > s[2]
                      \/ cb = "stored" /\ running.msg = s[1] /\ rows[s[1]].ack = running.n
                      \/ restarts > 0 /\ rows[s[1]].ack > s[2]
      BY Zenon DEF NewestAckKnown
  <2> DEFINE m == s[1]
  <2>1. m \in Msgs /\ s[2] \in Nat /\ rows[m].ack \in Nat
      BY NumberAssumption DEF SInv, SendTypeOK, Rows, Sends
  <2>2. AckInv(m)
      BY <2>1, Zenon
  <2> HIDE DEF Acks
  <2>3. CASE rows[m].ack = s[2]
      BY <2>3, Zenon
  <2>4. CASE rows[m].ack # s[2]
    <3>1. rows[m].ack > s[2] /\ rows[m].ack > 0
        BY <2>1, <2>2, <2>4 DEF AckInv
    <3>2. \/ <<m, rows[m].ack>> \in handed
          \/ cb = "stored" /\ running.msg = m /\ rows[m].ack = running.n
          \/ restarts > 0
        BY <2>2, <3>1, Zenon DEF AckInv
    <3> QED
        BY <3>1, <3>2, Zenon
  <2> QED
      BY <2>3, <2>4, Zenon
<1> HIDE DEF Acks
<1> QED
    BY <1>1, <1>2, <1>3, AlwaysSInv, InitRowInv, RowStep, PTL DEF SendSpec
=============================================================================
