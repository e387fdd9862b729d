--------------------------- MODULE ApiAsyncProofs ---------------------------
(***************************************************************************)
(* Proofs about ApiAsync, for any requests, bodies and batch limit.        *)
(*                                                                         *)
(* The counter state->outstanding decides whether a request is suspended,  *)
(* resumed and freed, so everything rests on it being exact.  IInv adds    *)
(* where the handler and MHD's view of a connection can be for each value  *)
(* of it, which calls of a request still have no outcome, and what a       *)
(* stopping server has behind it.                                          *)
(***************************************************************************)
EXTENDS ApiAsync, FiniteSetTheorems, TLAPS

(* Where the one handler thread is, and what it is handling.               *)
HandlerInv ==
    /\ (mhd = None) <=> (pc = "idle")
    /\ \A r \in Requests : stage[r] = "handling" => mhd = r
    /\ pc \in {"items", "submit", "end"} => stage[mhd] = "handling"
    /\ pc = "finish" => /\ stage[mhd] \in {"handling", "waiting"}
                        /\ conn[mhd] = "open" /\ outstanding[mhd] = 0
                        /\ stage[mhd] = "handling" => item > Len(Body[mhd])
    /\ pc \in {"submit", "end"} => item \in Calls(mhd)
    /\ pc = "submit" => outcome[mhd][item] = "counted"
    /\ pc = "end" => outcome[mhd][item] \in {"owed", "refused", "ok", "failed"}

(* A call not reached yet has no outcome; only the call being submitted is *)
(* counted without being owed.                                             *)
FreshInv ==
    \A r \in Requests : \A i \in Calls(r) :
        /\ stage[r] = "new" => outcome[r][i] = "none"
        /\ stage[r] = "handling" /\ (i > item \/ (i = item /\ pc = "items"))
              => outcome[r][i] = "none"
        /\ outcome[r][i] = "counted" => mhd = r /\ item = i /\ pc = "submit"

(* A connection is suspended just while its request waits for a callback   *)
(* or for the call that resumes it.                                        *)
ConnInv ==
    \A r \in Requests :
        /\ conn[r] = "suspended" =>
              stage[r] = "waiting" /\ (outstanding[r] # 0 \/ resuming = r)
        /\ stage[r] = "waiting" /\ conn[r] = "open" => outstanding[r] = 0
        /\ stage[r] \in {"new", "answered", "freed"} => outstanding[r] = 0
        /\ resuming = r => conn[r] = "suspended" /\ outstanding[r] = 0

(* state->suspended is set from the suspension to the answer.              *)
FlagInv ==
    \A r \in Requests :
        /\ stage[r] = "waiting" => suspended[r]
        /\ stage[r] \in {"new", "handling", "answered"} => ~suspended[r]

(* The counter has counted the requests whose flag is set.                 *)
CounterInv ==
    /\ IsFiniteSet({r \in Requests : suspended[r]})
    /\ api_suspended_connections = Cardinality({r \in Requests : suspended[r]})

(* The API server is stopped after the PoW queue has settled everything.   *)
StopInv == spc # "running" => closed /\ NoneOwed /\ resuming = None

(* What the response tree holds for a send that was handled.               *)
AnswerInv ==
    \A r \in Requests : \A i \in Calls(r) :
        /\ Len(Body[r]) \in 1 .. MaxBatch /\ Body[r][i] = "send"
        /\ \/ stage[r] \in {"waiting", "answered"}
           \/ stage[r] = "handling" /\ i < item
        => \/ outcome[r][i] = "refused" /\ answer[r][i] = "error"
           \/ /\ stage[r] # "answered" /\ outcome[r][i] \in {"owed", "ok",
                  "failed"}
              /\ i \in slots[r] /\ answer[r][i] = "empty"
           \/ stage[r] = "answered" /\ outcome[r][i] = "ok" /\ answer[r][i] =
                  "result"
           \/ stage[r] = "answered" /\ outcome[r][i] = "failed" /\ answer[r][i]
                  = "error"

IInv ==
    /\ ApiTypeOK /\ HandlerInv /\ FreshInv /\ OutstandingExact
    /\ ConnInv /\ FlagInv /\ CounterInv /\ StopInv /\ AnswerInv
-----------------------------------------------------------------------------
(* A request has finitely many pending sends, so a counter at 0 means none *)
(* and a pending send a counter above 0.                                   *)
LEMMA PendingFinite ==
    ASSUME NEW r \in Requests
    PROVE  IsFiniteSet(Pending(r)) /\ Cardinality(Pending(r)) \in Nat
<1>1. Len(Body[r]) \in Nat
    BY BodyAssumption
<1>2. IsFiniteSet(Calls(r))
    BY <1>1, FS_Interval DEF Calls
<1>3. Pending(r) \subseteq Calls(r)
    BY DEF Pending
<1>4. QED
    BY <1>2, <1>3, FS_Subset, FS_CardinalityType

LEMMA PendingCounted ==
    ASSUME OutstandingExact, NEW r \in Requests
    PROVE  /\ outstanding[r] \in Nat
           /\ outstanding[r] = 0 <=> Pending(r) = {}
<1>1. outstanding[r] = Cardinality(Pending(r))
    BY DEF OutstandingExact
<1>2. QED
    BY <1>1, PendingFinite, FS_EmptySet

(* The counter is positive while some request's flag is set.               *)
LEMMA FlagCounted ==
    ASSUME CounterInv, NEW r \in Requests, suspended[r]
    PROVE  api_suspended_connections \in Nat \ {0}
<1> DEFINE S == {q \in Requests : suspended[q]}
<1>1. IsFiniteSet(S) /\ api_suspended_connections = Cardinality(S)
    BY DEF CounterInv
<1>2. S # {}
    OBVIOUS
<1> HIDE DEF S
<1>3. QED
    BY <1>1, <1>2, FS_EmptySet, FS_CardinalityType

(* Once the server is stopping no connection is suspended: nothing is owed *)
(* and nothing is about to be resumed.                                     *)
LEMMA StoppedOpen ==
    ASSUME IInv, spc # "running", NEW r \in Requests
    PROVE  conn[r] = "open"
<1> SUFFICES ASSUME conn[r] = "suspended" PROVE FALSE
    BY DEF IInv, ApiTypeOK
<1>1. stage[r] = "waiting" /\ outstanding[r] # 0
    BY BodyAssumption DEF IInv, ConnInv, StopInv
<1>2. PICK i \in Pending(r) : TRUE
    BY <1>1, PendingCounted DEF IInv
<1>3. i \in Calls(r) /\ outcome[r][i] # "owed"
    BY DEF Pending, IInv, StopInv, NoneOwed
<1>4. mhd = r /\ pc \in {"submit", "end"}
    BY <1>2, <1>3 DEF Pending, IInv, FreshInv
<1>5. QED
    BY <1>1, <1>4 DEF IInv, HandlerInv

(* Steps of the thread that stops the server touch no request.             *)
Quiet == UNCHANGED <<mhd, pc, item, reqs, api_suspended_connections, resuming>>

LEMMA QuietSteps ==
    (bm_pow_queue_shutdown \/ SetStopFlag \/ StopDaemon \/ GiveUp
        \/ UNCHANGED vars) => Quiet
BY DEF bm_pow_queue_shutdown, SetStopFlag, StopDaemon, GiveUp, vars, Quiet, reqs

(* Types.  The counters stay above 0 because they are exact.               *)
LEMMA TypeStep == IInv /\ [Next]_vars => ApiTypeOK'
<1> SUFFICES ASSUME IInv, [Next]_vars PROVE ApiTypeOK'
    OBVIOUS
<1> USE BodyAssumption, BatchAssumption DEF IInv, ApiTypeOK, Stages, Outcomes,
       Answers, StopPCs, Calls, HandlerInv
<1>1. CASE OtherMethod
    BY <1>1 DEF OtherMethod, At, MhdRuns, Calls, stop
<1>2. CASE RefusedEarly
    BY <1>2 DEF RefusedEarly, At, MhdRuns, Calls, Answered, stop
<1>3. CASE send_slot_begin
    BY <1>3 DEF send_slot_begin, At, MhdRuns, Calls, stop
<1>4. CASE Submit
    BY <1>4 DEF Submit, At, MhdRuns, stop
<1>5. CASE send_slot_end
  <2>1. mhd \in Requests /\ item \in Calls(mhd)
    BY <1>5 DEF send_slot_end, At
  <2>2. outstanding' \in [Requests -> Nat]
    <3>1. CASE outcome[mhd][item] = "refused"
      <4>1. item \in Pending(mhd) /\ OutstandingExact
        BY <1>5, <2>1, <3>1, Zenon DEF send_slot_end, At, Pending
      <4>2. outstanding[mhd] \in Nat \ {0}
        BY <2>1, <4>1, PendingCounted
      <4>3. QED
        BY <1>5, <2>1, <3>1, <4>2 DEF send_slot_end
    <3>2. QED
      BY <1>5, <3>1 DEF send_slot_end
  <2>3. slots' \in [Requests -> SUBSET Nat]
    <3>1. slots \in [Requests -> SUBSET Nat] /\ item \in Nat
      OBVIOUS
    <3>2. slots' \in {slots, [slots EXCEPT ![mhd] = @ \cup {item}]}
      BY <1>5 DEF send_slot_end
    <3>3. slots[mhd] \cup {item} \in SUBSET Nat
      BY <2>1, <3>1
    <3>4. QED
      BY <2>1, <3>1, <3>2, <3>3, ZenonT(60)
  <2>4. /\ DOMAIN answer' = Requests
        /\ \A r \in Requests : answer'[r] \in [Calls(r) -> Answers]
    <3>1. PICK a \in Answers : answer' = [answer EXCEPT ![mhd][item] = a]
      BY <1>5, Zenon DEF send_slot_end, Answered
    <3>2. QED
      BY <2>1, <3>1
  <2>5. QED
    BY <1>5, <2>1, <2>2, <2>3, <2>4 DEF send_slot_end, At, stop
<1>6. CASE Suspend
    BY <1>6 DEF Suspend, At, MhdRuns, stop
<1>7. CASE NothingOutstanding
    BY <1>7 DEF NothingOutstanding, At, MhdRuns, reqs, stop
<1>8. CASE finish_async_response
  <2>1. mhd \in Requests /\ CounterInv
    BY <1>8 DEF finish_async_response, At
  <2>2. api_suspended_connections' \in Nat
    BY <1>8, <2>1, FlagCounted DEF finish_async_response
  <2>3. answer'[mhd] \in [Calls(mhd) -> Answers]
    BY <1>8, <2>1 DEF finish_async_response, Filled
  <2>4. QED
    BY <1>8, <2>1, <2>2, <2>3, Zenon DEF finish_async_response, stop
<1>9. ASSUME NEW r \in Requests, process_jsonrpc_request(r) PROVE ApiTypeOK'
    BY <1>9 DEF process_jsonrpc_request, MhdRuns, Calls, stop
<1>10. ASSUME NEW r \in Requests, HandlerAgain(r) PROVE ApiTypeOK'
    BY <1>10 DEF HandlerAgain, MhdRuns, reqs, stop
<1>11. ASSUME NEW r \in Requests, api_request_completed(r) PROVE ApiTypeOK'
    BY <1>11, Zenon DEF api_request_completed, MhdRuns, stop
<1>12. ASSUME NEW r \in Requests, ClientGone(r) PROVE ApiTypeOK'
    BY <1>12, Zenon DEF ClientGone, MhdRuns, stop
<1>13. ASSUME NEW r \in Requests, NEW i \in Calls(r), NEW o \in {"ok",
       "failed"},
             api_send_done(r, i, o)
      PROVE  ApiTypeOK'
  <2>1. i \in Pending(r) /\ OutstandingExact
    BY <1>13, Zenon DEF api_send_done, Pending
  <2>2. outstanding[r] \in Nat \ {0}
    BY <2>1, PendingCounted
  <2>3. QED
    BY <1>13, <2>2 DEF api_send_done, stop
<1>14. CASE MHD_resume_connection
    BY <1>14, Zenon DEF MHD_resume_connection, stop
<1>15. CASE bm_pow_queue_shutdown
    BY <1>15, Zenon DEF bm_pow_queue_shutdown, reqs, stop
<1>16. CASE SetStopFlag
    BY <1>16, Zenon DEF SetStopFlag, reqs, stop
<1>17. CASE StopDaemon
    BY <1>17, Zenon DEF StopDaemon, reqs, stop
<1>18. CASE GiveUp
    BY <1>18, Zenon DEF GiveUp, reqs, stop
<1>19. CASE MHD_stop_daemon
    BY <1>19 DEF MHD_stop_daemon, stop
<1>20. CASE UNCHANGED vars
    BY <1>20, Zenon DEF vars
<1> HIDE DEF IInv, ApiTypeOK, Stages, Outcomes, Answers, StopPCs, Calls,
       HandlerInv
<1>21. QED
    BY <1>1, <1>2, <1>3, <1>4, <1>5, <1>6, <1>7, <1>8, <1>9, <1>10,
       <1>11, <1>12, <1>13, <1>14, <1>15, <1>16, <1>17, <1>18, <1>19, <1>20
       DEF Next, Handler, Arrival, Ends, SendDone, Stopping

(* The handler thread, the calls it has not reached, the flags and the     *)
(* stopping server.  A callback finds no request that is being answered.   *)
LEMMA ControlStep == IInv /\ [Next]_vars => (HandlerInv /\ FreshInv /\ FlagInv
       /\ StopInv)'
<1> SUFFICES ASSUME IInv, [Next]_vars PROVE (HandlerInv /\ FreshInv /\ FlagInv
       /\ StopInv)'
    OBVIOUS
<1> USE BodyAssumption, BatchAssumption DEF IInv, ApiTypeOK, Stages, Outcomes,
       Answers, StopPCs, Calls, HandlerInv, FreshInv, FlagInv, StopInv,
       NoneOwed, ConnInv
<1>1. CASE OtherMethod
    BY <1>1 DEF OtherMethod, At, MhdRuns, Calls, stop
<1>2. CASE RefusedEarly
    BY <1>2 DEF RefusedEarly, At, MhdRuns, Calls, Answered, stop
<1>3. CASE send_slot_begin
    BY <1>3 DEF send_slot_begin, At, MhdRuns, Calls, stop
<1>4. CASE Submit
    BY <1>4 DEF Submit, At, MhdRuns, stop
<1>5. CASE send_slot_end
    BY <1>5 DEF send_slot_end, At, MhdRuns, Answered, stop
<1>6. CASE Suspend
    BY <1>6 DEF Suspend, At, MhdRuns, stop
<1>7. CASE NothingOutstanding
    BY <1>7 DEF NothingOutstanding, At, MhdRuns, reqs, stop
<1>8. CASE finish_async_response
    BY <1>8 DEF finish_async_response, At, MhdRuns, Filled, stop
<1>9. ASSUME NEW r \in Requests, process_jsonrpc_request(r) PROVE (HandlerInv
       /\ FreshInv /\ FlagInv /\ StopInv)'
    BY <1>9 DEF process_jsonrpc_request, MhdRuns, Calls, stop
<1>10. ASSUME NEW r \in Requests, HandlerAgain(r) PROVE (HandlerInv /\ FreshInv
       /\ FlagInv /\ StopInv)'
    BY <1>10 DEF HandlerAgain, MhdRuns, reqs, stop
<1>11. ASSUME NEW r \in Requests, api_request_completed(r) PROVE (HandlerInv /\
       FreshInv /\ FlagInv /\ StopInv)'
    BY <1>11 DEF api_request_completed, MhdRuns, stop
<1>12. ASSUME NEW r \in Requests, ClientGone(r) PROVE (HandlerInv /\ FreshInv
       /\ FlagInv /\ StopInv)'
    BY <1>12 DEF ClientGone, MhdRuns, stop
<1>13. ASSUME NEW r \in Requests, NEW i \in Calls(r), NEW o \in {"ok",
       "failed"},
             api_send_done(r, i, o)
      PROVE  (HandlerInv /\ FreshInv /\ FlagInv /\ StopInv)'
  <2>1. i \in Pending(r) /\ OutstandingExact
    BY <1>13, Zenon DEF api_send_done, Pending
  <2>2. outstanding[r] \in Nat \ {0}
    BY <2>1, PendingCounted, Zenon
  <2>3. HandlerInv'
    BY <1>13, <2>2 DEF api_send_done
  <2>4. FreshInv' /\ FlagInv' /\ StopInv'
    BY <1>13, SMTT(30) DEF api_send_done, stop
  <2>5. QED
    BY <2>3, <2>4, Zenon
<1>14. CASE MHD_resume_connection
    BY <1>14 DEF MHD_resume_connection, stop
<1>15. CASE bm_pow_queue_shutdown
    BY <1>15 DEF bm_pow_queue_shutdown, reqs, stop
<1>16. CASE SetStopFlag
    BY <1>16 DEF SetStopFlag, reqs, stop
<1>17. CASE StopDaemon
    BY <1>17 DEF StopDaemon, reqs, stop
<1>18. CASE GiveUp
    BY <1>18 DEF GiveUp, reqs, stop
<1>19. CASE MHD_stop_daemon
    BY <1>19 DEF MHD_stop_daemon, stop
<1>20. CASE UNCHANGED vars
    BY <1>20 DEF vars
<1> HIDE DEF IInv, ApiTypeOK, Stages, Outcomes, Answers, StopPCs, Calls,
       HandlerInv, FreshInv, FlagInv, StopInv, NoneOwed, ConnInv
<1>21. QED
    BY Zenon, <1>1, <1>2, <1>3, <1>4, <1>5, <1>6, <1>7, <1>8, <1>9, <1>10,
       <1>11, <1>12, <1>13, <1>14, <1>15, <1>16, <1>17, <1>18, <1>19, <1>20
       DEF Next, Handler, Arrival, Ends, SendDone, Stopping

(* Suspended connections.  The last callback alone resumes one.            *)
LEMMA ConnStep == IInv /\ [Next]_vars => ConnInv'
<1> SUFFICES ASSUME IInv, [Next]_vars PROVE ConnInv'
    OBVIOUS
<1> USE BodyAssumption, BatchAssumption DEF IInv, ApiTypeOK, Stages, Outcomes,
       Answers, StopPCs, Calls, HandlerInv, ConnInv, FlagInv
<1>1. CASE OtherMethod
    BY <1>1 DEF OtherMethod, At, MhdRuns, Calls, stop
<1>2. CASE RefusedEarly
    BY <1>2 DEF RefusedEarly, At, MhdRuns, Calls, Answered, stop
<1>3. CASE send_slot_begin
    BY <1>3, Zenon DEF send_slot_begin, At, MhdRuns, Calls, stop
<1>4. CASE Submit
    BY <1>4 DEF Submit, At, MhdRuns, stop
<1>5. CASE send_slot_end
    BY <1>5 DEF send_slot_end, At, MhdRuns, Answered, stop
<1>6. CASE Suspend
    BY <1>6 DEF Suspend, At, MhdRuns, stop
<1>7. CASE NothingOutstanding
    BY <1>7 DEF NothingOutstanding, At, MhdRuns, reqs, stop
<1>8. CASE finish_async_response
    BY <1>8, Zenon DEF finish_async_response, At, MhdRuns, Filled, stop
<1>9. ASSUME NEW r \in Requests, process_jsonrpc_request(r) PROVE ConnInv'
    BY <1>9 DEF process_jsonrpc_request, MhdRuns, Calls, stop
<1>10. ASSUME NEW r \in Requests, HandlerAgain(r) PROVE ConnInv'
    BY <1>10 DEF HandlerAgain, MhdRuns, reqs, stop
<1>11. ASSUME NEW r \in Requests, api_request_completed(r) PROVE ConnInv'
    BY <1>11 DEF api_request_completed, MhdRuns, stop
<1>12. ASSUME NEW r \in Requests, ClientGone(r) PROVE ConnInv'
    BY <1>12 DEF ClientGone, MhdRuns, stop
<1>13. ASSUME NEW r \in Requests, NEW i \in Calls(r), NEW o \in {"ok",
       "failed"},
             api_send_done(r, i, o)
      PROVE  ConnInv'
  <2>1. i \in Pending(r) /\ OutstandingExact
    BY <1>13, Zenon DEF api_send_done, Pending
  <2>2. outstanding[r] \in Nat \ {0}
    BY <2>1, PendingCounted, Zenon
  <2>3. QED
    BY <1>13, <2>2 DEF api_send_done, stop
<1>14. CASE MHD_resume_connection
    BY <1>14 DEF MHD_resume_connection, stop
<1>15. CASE MHD_stop_daemon
  <2>1. \A r \in Requests : conn[r] = "open"
    BY <1>15, StoppedOpen, Zenon DEF MHD_stop_daemon
  <2>2. QED
    BY <1>15, <2>1 DEF MHD_stop_daemon, stop
<1>16. CASE Quiet
    BY <1>16, Zenon DEF Quiet, reqs
<1> HIDE DEF IInv, ApiTypeOK, Stages, Outcomes, Answers, StopPCs, Calls,
       HandlerInv, ConnInv, FlagInv
<1>17. QED
    BY <1>1, <1>2, <1>3, <1>4, <1>5, <1>6, <1>7, <1>8, <1>9, <1>10,
       <1>11, <1>12, <1>13, <1>14, <1>15, <1>16, QuietSteps
       DEF Next, Handler, Arrival, Ends, SendDone, Stopping

(* The counter follows the set of pending sends, call by call.             *)
LEMMA PendingSame ==
    ASSUME OutstandingExact, outstanding' = outstanding,
           \A q \in Requests : Pending(q)' = Pending(q)
    PROVE  OutstandingExact'
BY DEF OutstandingExact

LEMMA PendingAdded ==
    ASSUME ApiTypeOK, OutstandingExact, NEW r \in Requests, NEW i,
           i \notin Pending(r), Pending(r)' = Pending(r) \cup {i},
           \A q \in Requests \ {r} : Pending(q)' = Pending(q),
           outstanding' = [outstanding EXCEPT ![r] = @ + 1]
    PROVE  OutstandingExact'
<1>1. Cardinality(Pending(r) \cup {i}) = Cardinality(Pending(r)) + 1
    BY PendingFinite, FS_AddElement, ZenonT(30)
<1>2. QED
    BY <1>1, ZenonT(60) DEF OutstandingExact, ApiTypeOK

LEMMA PendingRemoved ==
    ASSUME ApiTypeOK, OutstandingExact, NEW r \in Requests, NEW i \in
           Pending(r),
           Pending(r)' = Pending(r) \ {i},
           \A q \in Requests \ {r} : Pending(q)' = Pending(q),
           outstanding' = [outstanding EXCEPT ![r] = @ - 1]
    PROVE  OutstandingExact'
<1>1. Cardinality(Pending(r) \ {i}) = Cardinality(Pending(r)) - 1
    BY PendingFinite, FS_RemoveElement, ZenonT(30)
<1>2. QED
    BY <1>1, ZenonT(60) DEF OutstandingExact, ApiTypeOK

(* Exactness is kept by every step.                                       *)
LEMMA OutstandingStep == IInv /\ [Next]_vars => OutstandingExact'
<1> SUFFICES ASSUME IInv, [Next]_vars PROVE OutstandingExact'
    OBVIOUS
<1> USE BodyAssumption, BatchAssumption DEF IInv, ApiTypeOK, Stages, Outcomes,
       Answers, StopPCs, Calls, HandlerInv, FreshInv
<1>1. CASE OtherMethod
    BY <1>1, PendingSame DEF OtherMethod, At, MhdRuns, Calls, stop, Pending
<1>2. CASE RefusedEarly
    BY <1>2, PendingSame DEF RefusedEarly, At, MhdRuns, Calls, Answered, stop,
           Pending
<1>3. CASE send_slot_begin
  <2>1. mhd \in Requests /\ item \in Calls(mhd) /\ item \notin Pending(mhd)
    BY <1>3, Zenon DEF send_slot_begin, At, Pending
  <2>2. Pending(mhd)' = Pending(mhd) \cup {item}
    BY <1>3, <2>1 DEF send_slot_begin, At, Pending
  <2>3. \A q \in Requests \ {mhd} : Pending(q)' = Pending(q)
    BY <1>3, <2>1 DEF send_slot_begin, At, Pending
  <2>4. QED
    BY <1>3, <2>1, <2>2, <2>3, PendingAdded, ZenonT(60) DEF send_slot_begin
<1>4. CASE Submit
    BY <1>4, PendingSame DEF Submit, At, MhdRuns, stop, Pending
<1>5. CASE send_slot_end
  <2>1. mhd \in Requests /\ item \in Calls(mhd)
    BY <1>5, Zenon DEF send_slot_end, At
  <2>2. CASE outcome[mhd][item] = "refused"
    <3>1. item \in Pending(mhd)
      BY <1>5, <2>1, <2>2, Zenon DEF send_slot_end, At, Pending
    <3>2. Pending(mhd)' = Pending(mhd) \ {item}
      BY <1>5, <2>1, <2>2 DEF send_slot_end, At, Pending
    <3>3. \A q \in Requests \ {mhd} : Pending(q)' = Pending(q)
      BY <1>5, <2>1 DEF send_slot_end, At, Pending
    <3>4. QED
      BY <1>5, <2>1, <2>2, <3>1, <3>2, <3>3, PendingRemoved, ZenonT(30) DEF
             send_slot_end
  <2>3. CASE outcome[mhd][item] # "refused"
    <3>1. \A q \in Requests : Pending(q)' = Pending(q)
      BY <1>5, <2>1, <2>3, Zenon DEF send_slot_end, At, Pending
    <3>2. QED
      BY <1>5, <2>3, <3>1, PendingSame, Zenon DEF send_slot_end
  <2>4. QED
    BY <2>2, <2>3, Zenon
<1>6. CASE Suspend
    BY <1>6, PendingSame DEF Suspend, At, MhdRuns, stop, Pending
<1>7. CASE NothingOutstanding
    BY <1>7, PendingSame DEF NothingOutstanding, At, MhdRuns, reqs, stop,
           Pending
<1>8. CASE finish_async_response
    BY <1>8, PendingSame, Zenon DEF finish_async_response, At, MhdRuns, Filled, stop,
           Pending
<1>9. ASSUME NEW r \in Requests, process_jsonrpc_request(r) PROVE
       OutstandingExact'
    BY <1>9, PendingSame DEF process_jsonrpc_request, MhdRuns, Calls, stop,
           Pending
<1>10. ASSUME NEW r \in Requests, HandlerAgain(r) PROVE OutstandingExact'
    BY <1>10, PendingSame DEF HandlerAgain, MhdRuns, reqs, stop, Pending
<1>11. ASSUME NEW r \in Requests, api_request_completed(r) PROVE
       OutstandingExact'
    BY <1>11, PendingSame DEF api_request_completed, MhdRuns, stop, Pending
<1>12. ASSUME NEW r \in Requests, ClientGone(r) PROVE OutstandingExact'
    BY <1>12, PendingSame DEF ClientGone, MhdRuns, stop, Pending
<1>13. ASSUME NEW r \in Requests, NEW i \in Calls(r), NEW o \in {"ok",
       "failed"},
             api_send_done(r, i, o)
      PROVE  OutstandingExact'
  <2>1. i \in Pending(r) /\ Pending(r)' = Pending(r) \ {i}
    BY <1>13 DEF api_send_done, Pending
  <2>2. \A q \in Requests \ {r} : Pending(q)' = Pending(q)
    BY <1>13 DEF api_send_done, Pending
  <2>3. QED
    BY <1>13, <2>1, <2>2, PendingRemoved, ZenonT(30) DEF api_send_done
<1>14. CASE MHD_resume_connection
    BY <1>14, PendingSame DEF MHD_resume_connection, stop, Pending
<1>15. CASE MHD_stop_daemon
    BY <1>15, PendingSame DEF MHD_stop_daemon, stop, Pending
<1>16. CASE Quiet
    BY <1>16, PendingSame DEF Quiet, reqs, Pending
<1> HIDE DEF IInv, ApiTypeOK, Stages, Outcomes, Answers, StopPCs, Calls,
       HandlerInv, FreshInv
<1>17. QED
    BY <1>1, <1>2, <1>3, <1>4, <1>5, <1>6, <1>7, <1>8, <1>9, <1>10,
       <1>11, <1>12, <1>13, <1>14, <1>15, <1>16, QuietSteps
       DEF Next, Handler, Arrival, Ends, SendDone, Stopping

(* The counter goes up and down with the flags.                            *)
LEMMA CounterStep == IInv /\ [Next]_vars => CounterInv'
<1> SUFFICES ASSUME IInv, [Next]_vars PROVE CounterInv'
    OBVIOUS
<1> USE DEF IInv, CounterInv
<1>1. CASE Suspend
  <2> DEFINE S == {q \in Requests : suspended[q]}
  <2>1. mhd \in Requests /\ ~suspended[mhd]
    BY <1>1, Zenon DEF Suspend, At, HandlerInv, FlagInv, ApiTypeOK
  <2>2. {q \in Requests : suspended'[q]} = S \cup {mhd} /\ mhd \notin S
    BY <1>1, <2>1, Zenon DEF Suspend, ApiTypeOK
  <2>3. IsFiniteSet(S) /\ api_suspended_connections = Cardinality(S)
    OBVIOUS
  <2> HIDE DEF S
  <2>4. IsFiniteSet(S \cup {mhd}) /\ Cardinality(S \cup {mhd}) = Cardinality(S)
         + 1
    BY <2>2, <2>3, FS_AddElement, Zenon
  <2>5. QED
    BY <1>1, <2>2, <2>3, <2>4, ZenonT(30) DEF Suspend
<1>2. CASE finish_async_response
  <2> DEFINE S == {q \in Requests : suspended[q]}
  <2>1. mhd \in Requests /\ suspended[mhd] \in BOOLEAN
    BY <1>2, Zenon DEF finish_async_response, At, ApiTypeOK
  <2>2. {q \in Requests : suspended'[q]} = S \ {mhd}
    BY <1>2, <2>1, Zenon DEF finish_async_response, ApiTypeOK
  <2>3. IsFiniteSet(S) /\ api_suspended_connections = Cardinality(S)
    OBVIOUS
  <2>4. mhd \in S <=> suspended[mhd]
    BY <2>1
  <2> HIDE DEF S
  <2>5. IsFiniteSet(S \ {mhd}) /\ Cardinality(S) \in Nat
    BY <2>3, FS_Subset, FS_CardinalityType
  <2>6. Cardinality(S \ {mhd}) = Cardinality(S) - (IF suspended[mhd] THEN 1
         ELSE 0)
    BY <2>3, <2>4, <2>5, FS_RemoveElement
  <2>7. QED
    BY <1>2, <2>2, <2>3, <2>5, <2>6, ZenonT(30) DEF finish_async_response
<1>3. CASE UNCHANGED <<suspended, api_suspended_connections>>
    BY <1>3, Zenon
<1> HIDE DEF IInv, CounterInv
<1>4. QED
    BY <1>1, <1>2, <1>3, Zenon
       DEF Next, Handler, Arrival, Ends, SendDone, Stopping, vars, reqs,
              OtherMethod,
           RefusedEarly, send_slot_begin, Submit, send_slot_end,
                  NothingOutstanding,
           HandlerAgain, process_jsonrpc_request, api_request_completed,
                  ClientGone,
           api_send_done, MHD_resume_connection, bm_pow_queue_shutdown,
           SetStopFlag, StopDaemon, GiveUp, MHD_stop_daemon

(* The response tree.  No send is owed when its request is answered.       *)
LEMMA AnswerStep == IInv /\ [Next]_vars => AnswerInv'
<1> SUFFICES ASSUME IInv, [Next]_vars PROVE AnswerInv'
    OBVIOUS
<1> USE BodyAssumption, BatchAssumption DEF IInv, ApiTypeOK, Stages, Outcomes,
       Answers, StopPCs, Calls, HandlerInv, AnswerInv
<1>1. CASE OtherMethod
    BY <1>1 DEF OtherMethod, At, MhdRuns, Calls, stop
<1>2. CASE RefusedEarly
    BY <1>2 DEF RefusedEarly, At, MhdRuns, Calls, Answered, stop
<1>3. CASE send_slot_begin
    BY <1>3 DEF send_slot_begin, At, MhdRuns, Calls, stop
<1>4. CASE Submit
    BY <1>4 DEF Submit, At, MhdRuns, stop
<1>5. CASE send_slot_end
  <2>1. mhd \in Requests /\ item \in Calls(mhd) /\ stage[mhd] = "handling"
    BY <1>5, Zenon DEF send_slot_end, At
  <2>2. CASE outcome[mhd][item] = "refused"
    <3>1. slots' = slots /\ outcome' = outcome /\ stage' = stage /\ mhd' = mhd
      BY <1>5, <2>2, Zenon DEF send_slot_end
    <3>2. Answered("error") /\ item' = item + 1
      BY <1>5, <2>2, Zenon DEF send_slot_end
    <3>3. QED
      BY <2>1, <2>2, <3>1, <3>2 DEF Answered
  <2>3. CASE outcome[mhd][item] # "refused"
    BY <1>5, <2>3 DEF send_slot_end, At, MhdRuns, Answered, stop
  <2>4. QED
    BY <2>2, <2>3, Zenon
<1>6. CASE Suspend
  <2>1. mhd \in Requests /\ stage[mhd] = "handling"
    BY <1>6, Zenon DEF Suspend, At
  <2>2. \A i \in Calls(mhd) : i < item
    BY <1>6, <2>1 DEF Suspend
  <2>3. /\ stage' = [stage EXCEPT ![mhd] = "waiting"]
        /\ UNCHANGED <<outcome, slots, answer>>
    BY <1>6, Zenon DEF Suspend
  <2>4. QED
    BY <2>1, <2>2, <2>3
<1>7. CASE NothingOutstanding
    BY <1>7 DEF NothingOutstanding, At, MhdRuns, reqs, stop
<1>8. CASE finish_async_response
  <2>1. mhd \in Requests /\ outstanding[mhd] = 0 /\ OutstandingExact
    BY <1>8, Zenon DEF finish_async_response, At
  <2>2. \A i \in Calls(mhd) : outcome[mhd][i] # "owed"
    BY <2>1, PendingCounted DEF Pending
  <2>3. QED
    BY <1>8, <2>1, <2>2 DEF finish_async_response, At, MhdRuns, Filled, stop
<1>9. ASSUME NEW r \in Requests, process_jsonrpc_request(r) PROVE AnswerInv'
    BY <1>9 DEF process_jsonrpc_request, MhdRuns, Calls, stop
<1>10. ASSUME NEW r \in Requests, HandlerAgain(r) PROVE AnswerInv'
    BY <1>10, SMTT(30) DEF HandlerAgain, MhdRuns, reqs, stop
<1>11. ASSUME NEW r \in Requests, api_request_completed(r) PROVE AnswerInv'
    BY <1>11 DEF api_request_completed, MhdRuns, stop
<1>12. ASSUME NEW r \in Requests, ClientGone(r) PROVE AnswerInv'
    BY <1>12, SMTT(30) DEF ClientGone, MhdRuns, stop
<1>13. ASSUME NEW r \in Requests, NEW i \in Calls(r), NEW o \in {"ok",
       "failed"},
             api_send_done(r, i, o)
      PROVE  AnswerInv'
    BY <1>13 DEF api_send_done, stop
<1>14. CASE MHD_resume_connection
    BY <1>14 DEF MHD_resume_connection, stop
<1>15. CASE MHD_stop_daemon
    BY <1>15 DEF MHD_stop_daemon, stop
<1>16. CASE Quiet
    BY <1>16, SMTT(40) DEF Quiet, reqs
<1> HIDE DEF IInv, ApiTypeOK, Stages, Outcomes, Answers, StopPCs, Calls,
       HandlerInv, AnswerInv
<1>17. QED
    BY <1>1, <1>2, <1>3, <1>4, <1>5, <1>6, <1>7, <1>8, <1>9, <1>10,
       <1>11, <1>12, <1>13, <1>14, <1>15, <1>16, QuietSteps
       DEF Next, Handler, Arrival, Ends, SendDone, Stopping

-----------------------------------------------------------------------------
LEMMA InitIInv == Init => IInv
<1> SUFFICES ASSUME Init PROVE IInv
    OBVIOUS
<1>1. \A r \in Requests : Len(Body[r]) \in Nat
    BY BodyAssumption
<1>2. ApiTypeOK
    BY BodyAssumption, ZenonT(60) DEF Init, ApiTypeOK, Stages, Outcomes, Answers, StopPCs
<1>3. \A r \in Requests : Pending(r) = {}
    BY DEF Init, Pending
<1>4. OutstandingExact
    BY <1>3, FS_EmptySet, ZenonT(60) DEF Init, OutstandingExact
<1>5. {r \in Requests : suspended[r]} = {}
    BY DEF Init
<1>6. CounterInv
    BY <1>5, FS_EmptySet, ZenonT(60) DEF Init, CounterInv
<1>7. HandlerInv /\ FreshInv /\ ConnInv /\ FlagInv /\ StopInv
    BY BodyAssumption, Zenon DEF Init, HandlerInv, FreshInv, ConnInv, FlagInv, StopInv
<1>8. AnswerInv
    BY Zenon DEF Init, AnswerInv
<1>9. QED
    BY <1>2, <1>4, <1>6, <1>7, <1>8 DEF IInv

LEMMA NextIInv == IInv /\ [Next]_vars => IInv'
<1> SUFFICES ASSUME IInv, [Next]_vars PROVE IInv'
    OBVIOUS
<1>1. (HandlerInv /\ FreshInv /\ FlagInv /\ StopInv)'
    BY ControlStep
<1>2. ApiTypeOK' /\ OutstandingExact' /\ ConnInv' /\ CounterInv' /\ AnswerInv'
    BY TypeStep, OutstandingStep, ConnStep, CounterStep, AnswerStep
<1>3. QED
    BY <1>1, <1>2 DEF IInv

LEMMA AlwaysIInv == MhdSpec => []IInv
BY InitIInv, NextIInv, PTL DEF MhdSpec

-----------------------------------------------------------------------------
(* Every variable keeps its type; in particular neither counter goes below *)
(* 0.                                                                      *)
THEOREM ApiTypes == MhdSpec => []ApiTypeOK
<1>1. IInv => ApiTypeOK
    BY DEF IInv
<1>2. QED
    BY <1>1, AlwaysIInv, PTL

(* state->outstanding is exact at every moment, whatever the batch and     *)
(* however the callbacks fall between the handler's steps.                 *)
THEOREM ExactOutstanding == MhdSpec => []OutstandingExact
<1>1. IInv => OutstandingExact
    BY DEF IInv
<1>2. QED
    BY <1>1, AlwaysIInv, PTL

(* No callback writes to or resumes a request that has been freed: a freed *)
(* request has a counter of 0, hence nothing pending.                      *)
THEOREM NoUseAfterFree == MhdSpec => []FreedIsUntouched
<1>1. ASSUME IInv PROVE FreedIsUntouched
  <2> SUFFICES ASSUME NEW r \in Requests, stage[r] = "freed"
               PROVE  /\ resuming # r
                      /\ \A i \in Calls(r) : outcome[r][i] # "owed"
    BY Zenon DEF FreedIsUntouched
  <2>1. outstanding[r] = 0 /\ resuming # r
    BY <1>1 DEF IInv, ConnInv
  <2>2. Pending(r) = {}
    BY <1>1, <2>1, PendingCounted DEF IInv
  <2>3. QED
    BY <2>1, <2>2, Zenon DEF Pending
<1>2. QED
    BY <1>1, AlwaysIInv, PTL

(* MHD_resume_connection is only called on a suspended connection.         *)
THEOREM ResumeIsDue == MhdSpec => []ResumesSuspended
<1>1. IInv => ResumesSuspended
    BY Zenon DEF IInv, ApiTypeOK, ConnInv, ResumesSuspended
<1>2. QED
    BY <1>1, AlwaysIInv, PTL

(* Every send of an answered batch is answered by its own outcome.         *)
THEOREM TrueAnswers == MhdSpec => []AnswersAreTrue
<1>1. IInv => AnswersAreTrue
    BY Zenon DEF IInv, AnswerInv, AnswersAreTrue
<1>2. QED
    BY <1>1, AlwaysIInv, PTL

(* MHD is never stopped with a suspended connection.                       *)
THEOREM CleanStop == MhdSpec => []StopsWithoutSuspended
<1>1. IInv => StopsWithoutSuspended
    BY StoppedOpen DEF StopsWithoutSuspended
<1>2. QED
    BY <1>1, AlwaysIInv, PTL
=============================================================================
