------------------------------ MODULE ApiAsync ------------------------------
(***************************************************************************)
(* HTTP requests that wait for proof of work: src/core/api_server.c.       *)
(*                                                                         *)
(* One thread of libmicrohttpd (MHD) runs every handler.  A handler that   *)
(* sends puts its work on the PoW queue, registers a slot for the outcome  *)
(* and returns an empty result; a request with outcomes still to come is   *)
(* suspended, alone, and the last completion callback, on the worker,      *)
(* resumes it.  MHD then calls the handler again, which fills in the       *)
(* results and answers.  A third thread stops the daemon.                  *)
(*                                                                         *)
(* Sections under state->mutex are single actions.  What the send pipeline *)
(* promises is taken from module SendPipeline: an accepted send gets its   *)
(* completion callback exactly once (DoneExactlyOnce), the callbacks run   *)
(* one at a time, and none is owed once the queue has shut down.           *)
(*                                                                         *)
(* An operator X_Suffix just before X is a wrong form of X that no action  *)
(* uses, named for the slip it makes.                                      *)
(***************************************************************************)
EXTENDS Integers, Sequences, FiniteSets

CONSTANTS
    Requests,   \* HTTP requests whose body has arrived
    Body,       \* the calls in each: a batch, or a single call
    MaxBatch,   \* BM_JSONRPC_MAX_BATCH_SIZE
    None

(* "send": sendMessage or sendBroadcast.  "note": the same as a JSON-RPC   *)
(* notification, which is not answered.  "call": any other method.         *)
Kinds == {"send", "note", "call"}

ASSUME BodyAssumption == Body \in [Requests -> Seq(Kinds)] /\ None \notin Requests
ASSUME BatchAssumption == MaxBatch \in Nat

VARIABLES
    mhd,          \* the request whose handler runs, or None
    pc,           \* where in the handler
    item,         \* the call being handled
    stage,        \* how far each request is
    conn,         \* MHD's view of its connection
    outcome,      \* of each call: the PoW work and its slot
    slots,        \* state->slots, as the set of calls registered
    outstanding,  \* state->outstanding
    suspended,    \* state->suspended
    answer,       \* the response tree, per call
    api_suspended_connections,
    resuming,     \* the request api_send_done is about to resume, or None
    closed,       \* bm_pow_queue_shutdown was called
    spc           \* where bm_api_server_thread is

reqs == <<stage, conn, outcome, slots, outstanding, suspended, answer>>
stop == <<closed, spc>>
vars == <<mhd, pc, item, stage, conn, outcome, slots, outstanding, suspended,
          answer, api_suspended_connections, resuming, closed, spc>>

Calls(r) == 1 .. Len(Body[r])

Stages == {"new", "handling", "waiting", "answered", "freed"}
Outcomes == {"none", "counted", "owed", "refused", "ok", "failed"}
Answers == {"none", "empty", "result", "error"}
StopPCs == {"running", "wait", "stopping", "stopped", "gaveup"}

Init ==
    /\ mhd = None /\ pc = "idle" /\ item = 0
    /\ stage = [r \in Requests |-> "new"]
    /\ conn = [r \in Requests |-> "open"]
    /\ outcome = [r \in Requests |-> [i \in Calls(r) |-> "none"]]
    /\ answer = [r \in Requests |-> [i \in Calls(r) |-> "none"]]
    /\ slots = [r \in Requests |-> {}]
    /\ outstanding = [r \in Requests |-> 0]
    /\ suspended = [r \in Requests |-> FALSE]
    /\ api_suspended_connections = 0
    /\ resuming = None
    /\ closed = FALSE /\ spc = "running"

MhdRuns == spc # "stopped"
At(p) == MhdRuns /\ mhd # None /\ pc = p

-----------------------------------------------------------------------------
(* The body is complete.  An empty or overlong batch is refused whole.     *)
process_jsonrpc_request(r) ==
    /\ MhdRuns /\ mhd = None /\ stage[r] = "new"
    /\ mhd' = r /\ pc' = "items"
    /\ item' = IF Len(Body[r]) \in 1 .. MaxBatch THEN 1 ELSE Len(Body[r]) + 1
    /\ stage' = [stage EXCEPT ![r] = "handling"]
    /\ UNCHANGED <<conn, outcome, slots, outstanding, suspended, answer>>
    /\ UNCHANGED <<api_suspended_connections, resuming, stop>>

(* A method that does not send answers at once, a result or an error.      *)
OtherMethod ==
    /\ At("items") /\ item \in Calls(mhd) /\ Body[mhd][item] = "call"
    /\ \E a \in {"result", "error"} : answer' = [answer EXCEPT ![mhd][item] = a]
    /\ item' = item + 1
    /\ UNCHANGED <<mhd, pc, stage, conn, outcome, slots, outstanding, suspended>>
    /\ UNCHANGED <<api_suspended_connections, resuming, stop>>

Answered(a) ==
    answer' = [answer EXCEPT ![mhd][item] = IF Body[mhd][item] = "note"
                                            THEN "none" ELSE a]

(* Bad parameters, a text too long or no memory: no slot is made.          *)
RefusedEarly ==
    /\ At("items") /\ item \in Calls(mhd) /\ Body[mhd][item] # "call"
    /\ outcome' = [outcome EXCEPT ![mhd][item] = "refused"]
    /\ Answered("error")
    /\ item' = item + 1
    /\ UNCHANGED <<mhd, pc, stage, conn, slots, outstanding, suspended>>
    /\ UNCHANGED <<api_suspended_connections, resuming, stop>>

(* The send is counted before it is submitted.                             *)
send_slot_begin ==
    /\ At("items") /\ item \in Calls(mhd) /\ Body[mhd][item] # "call"
    /\ pc' = "submit"
    /\ outcome' = [outcome EXCEPT ![mhd][item] = "counted"]
    /\ outstanding' = [outstanding EXCEPT ![mhd] = @ + 1]
    /\ UNCHANGED <<mhd, item, stage, conn, slots, suspended, answer>>
    /\ UNCHANGED <<api_suspended_connections, resuming, stop>>

(* bm_send_pipeline_send_message_async: refused for any of its reasons, and*)
(* always after the queue was shut down; else the callback is owed.        *)
Submit_AfterShutdown ==
    /\ At("submit")
    /\ \E o \in {"owed", "refused"} : outcome' = [outcome EXCEPT ![mhd][item] = o]
    /\ pc' = "end"
    /\ UNCHANGED <<mhd, item, stage, conn, slots, outstanding, suspended, answer>>
    /\ UNCHANGED <<api_suspended_connections, resuming, stop>>
Submit ==
    /\ At("submit")
    /\ \E o \in IF closed THEN {"refused"} ELSE {"owed", "refused"} :
          outcome' = [outcome EXCEPT ![mhd][item] = o]
    /\ pc' = "end"
    /\ UNCHANGED <<mhd, item, stage, conn, slots, outstanding, suspended, answer>>
    /\ UNCHANGED <<api_suspended_connections, resuming, stop>>

(* A refused send is uncounted again; an accepted one, perhaps over by     *)
(* now, gets an empty result and its slot is registered.                   *)
send_slot_end ==
    /\ At("end")
    /\ \/ /\ outcome[mhd][item] = "refused"
          /\ outstanding' = [outstanding EXCEPT ![mhd] = @ - 1]
          /\ Answered("error")
          /\ UNCHANGED slots
       \/ /\ outcome[mhd][item] # "refused"
          /\ Answered("empty")
          /\ slots' = [slots EXCEPT ![mhd] = @ \cup {item}]
          /\ UNCHANGED outstanding
    /\ pc' = "items" /\ item' = item + 1
    /\ UNCHANGED <<mhd, stage, conn, outcome, suspended>>
    /\ UNCHANGED <<api_suspended_connections, resuming, stop>>

(* All calls handled.  Under the lock: suspend if anything is outstanding, *)
(* and give the MHD thread back; else go on to answer.                     *)
Suspend_NoFlag ==
    /\ At("items") /\ item > Len(Body[mhd]) /\ outstanding[mhd] > 0
    /\ api_suspended_connections' = api_suspended_connections + 1
    /\ conn' = [conn EXCEPT ![mhd] = "suspended"]
    /\ stage' = [stage EXCEPT ![mhd] = "waiting"]
    /\ mhd' = None /\ pc' = "idle" /\ item' = 0
    /\ UNCHANGED <<suspended, outcome, slots, outstanding, answer, resuming, stop>>
Suspend ==
    /\ At("items") /\ item > Len(Body[mhd]) /\ outstanding[mhd] > 0
    /\ suspended' = [suspended EXCEPT ![mhd] = TRUE]
    /\ api_suspended_connections' = api_suspended_connections + 1
    /\ conn' = [conn EXCEPT ![mhd] = "suspended"]
    /\ stage' = [stage EXCEPT ![mhd] = "waiting"]
    /\ mhd' = None /\ pc' = "idle" /\ item' = 0
    /\ UNCHANGED <<outcome, slots, outstanding, answer, resuming, stop>>

NothingOutstanding ==
    /\ At("items") /\ item > Len(Body[mhd]) /\ outstanding[mhd] = 0
    /\ pc' = "finish"
    /\ UNCHANGED <<mhd, item, reqs, api_suspended_connections, resuming, stop>>

(* MHD calls the handler of a resumed connection again.                    *)
HandlerAgain(r) ==
    /\ MhdRuns /\ mhd = None /\ stage[r] = "waiting" /\ conn[r] = "open"
    /\ mhd' = r /\ pc' = "finish"
    /\ UNCHANGED <<item, reqs, api_suspended_connections, resuming, stop>>

(* A slot's result is an error if its rc is not 0; rc is 0 until the       *)
(* callback writes it.  A notification has no response to fill.            *)
Filled_IgnoresFailure(r, i) ==
    IF answer[r][i] = "empty" THEN "result" ELSE answer[r][i]
Filled(r, i) ==
    IF i \in slots[r] /\ answer[r][i] = "empty"
    THEN IF outcome[r][i] = "failed" THEN "error" ELSE "result"
    ELSE answer[r][i]

finish_async_response ==
    /\ At("finish")
    /\ suspended' = [suspended EXCEPT ![mhd] = FALSE]
    /\ api_suspended_connections' =
          api_suspended_connections - (IF suspended[mhd] THEN 1 ELSE 0)
    /\ answer' = [answer EXCEPT ![mhd] = [i \in Calls(mhd) |-> Filled(mhd, i)]]
    /\ stage' = [stage EXCEPT ![mhd] = "answered"]
    /\ mhd' = None /\ pc' = "idle" /\ item' = 0
    /\ UNCHANGED <<conn, outcome, slots, outstanding, resuming, stop>>

(* The response went out, or could not: MHD reports the request complete   *)
(* and api_async_state_free frees the state and its slots.                 *)
api_request_completed(r) ==
    /\ MhdRuns /\ mhd = None /\ stage[r] = "answered"
    /\ stage' = [stage EXCEPT ![r] = "freed"]
    /\ UNCHANGED <<mhd, pc, item, conn, outcome, slots, outstanding, suspended>>
    /\ UNCHANGED <<answer, api_suspended_connections, resuming, stop>>

(* MHD never closes a suspended connection, but when a resumed one turns   *)
(* out to be broken it reports it complete without calling the handler.    *)
ClientGone(r) ==
    /\ MhdRuns /\ mhd = None /\ stage[r] = "waiting" /\ conn[r] = "open"
    /\ stage' = [stage EXCEPT ![r] = "freed"]
    /\ UNCHANGED <<mhd, pc, item, conn, outcome, slots, outstanding, suspended>>
    /\ UNCHANGED <<answer, api_suspended_connections, resuming, stop>>

-----------------------------------------------------------------------------
(* The completion callback.  The decision to resume is taken under the     *)
(* lock, the call made after it.                                           *)
api_send_done_EachResumes(r, i, o) ==
    /\ resuming = None /\ outcome[r][i] = "owed"
    /\ outcome' = [outcome EXCEPT ![r][i] = o]
    /\ outstanding' = [outstanding EXCEPT ![r] = @ - 1]
    /\ resuming' = IF suspended[r] THEN r ELSE None
    /\ UNCHANGED <<mhd, pc, item, stage, conn, slots, suspended, answer>>
    /\ UNCHANGED <<api_suspended_connections, stop>>
api_send_done(r, i, o) ==
    /\ resuming = None /\ outcome[r][i] = "owed"
    /\ outcome' = [outcome EXCEPT ![r][i] = o]
    /\ outstanding' = [outstanding EXCEPT ![r] = @ - 1]
    /\ resuming' = IF outstanding'[r] = 0 /\ suspended[r] THEN r ELSE None
    /\ UNCHANGED <<mhd, pc, item, stage, conn, slots, suspended, answer>>
    /\ UNCHANGED <<api_suspended_connections, stop>>

MHD_resume_connection ==
    /\ resuming # None
    /\ conn' = [conn EXCEPT ![resuming] = "open"]
    /\ resuming' = None
    /\ UNCHANGED <<mhd, pc, item, stage, outcome, slots, outstanding, suspended>>
    /\ UNCHANGED <<answer, api_suspended_connections, stop>>

(* main.c shuts the queue down before it stops the API server.             *)
bm_pow_queue_shutdown ==
    /\ ~closed /\ closed' = TRUE
    /\ UNCHANGED <<mhd, pc, item, reqs, api_suspended_connections, resuming, spc>>

NoneOwed == \A r \in Requests : \A i \in Calls(r) : outcome[r][i] # "owed"

SetStopFlag ==
    /\ spc = "running" /\ closed /\ NoneOwed /\ resuming = None
    /\ spc' = "wait"
    /\ UNCHANGED <<mhd, pc, item, reqs, api_suspended_connections, resuming, closed>>

(* bm_api_server_thread: MHD_stop_daemon follows once no connection is     *)
(* counted as suspended.  After ten seconds the thread leaves MHD running. *)
StopDaemon ==
    /\ spc = "wait" /\ api_suspended_connections <= 0
    /\ spc' = "stopping"
    /\ UNCHANGED <<mhd, pc, item, reqs, api_suspended_connections, resuming, closed>>

GiveUp ==
    /\ spc = "wait" /\ api_suspended_connections > 0
    /\ spc' = "gaveup"
    /\ UNCHANGED <<mhd, pc, item, reqs, api_suspended_connections, resuming, closed>>

(* MHD's thread leaves its loop and completes what is left.                *)
MHD_stop_daemon ==
    /\ spc = "stopping" /\ mhd = None
    /\ spc' = "stopped"
    /\ stage' = [r \in Requests |-> IF stage[r] \in {"waiting", "answered"}
                                    THEN "freed" ELSE stage[r]]
    /\ UNCHANGED <<mhd, pc, item, conn, outcome, slots, outstanding, suspended>>
    /\ UNCHANGED <<answer, api_suspended_connections, resuming, closed>>

-----------------------------------------------------------------------------
Handler ==
    \/ OtherMethod \/ RefusedEarly \/ send_slot_begin \/ Submit \/ send_slot_end
    \/ Suspend \/ NothingOutstanding \/ finish_async_response
    \/ \E r \in Requests : HandlerAgain(r)
Arrival == \E r \in Requests : process_jsonrpc_request(r)
Ends == \E r \in Requests : api_request_completed(r) \/ ClientGone(r)
SendDone ==
    \E r \in Requests : \E i \in Calls(r), o \in {"ok", "failed"} :
        api_send_done(r, i, o)
Stopping == StopDaemon \/ GiveUp \/ MHD_stop_daemon

Next ==
    \/ Handler \/ Arrival \/ Ends
    \/ SendDone \/ MHD_resume_connection
    \/ bm_pow_queue_shutdown \/ SetStopFlag \/ Stopping

(* MHD's thread goes on running handlers, and takes up the requests whose  *)
(* body is there.                                                          *)
MhdSpec == Init /\ [][Next]_vars /\ WF_vars(Handler \/ Arrival)

(* Every callback comes (EveryAttemptReported of SendPipeline).            *)
CallbacksCome == WF_vars(SendDone) /\ WF_vars(MHD_resume_connection)

-----------------------------------------------------------------------------
ApiTypeOK ==
    /\ mhd \in Requests \cup {None} /\ item \in Nat
    /\ pc \in {"idle", "items", "submit", "end", "finish"}
    /\ stage \in [Requests -> Stages]
    /\ conn \in [Requests -> {"open", "suspended"}]
    /\ DOMAIN outcome = Requests /\ DOMAIN answer = Requests
    /\ \A r \in Requests : /\ outcome[r] \in [Calls(r) -> Outcomes]
                           /\ answer[r] \in [Calls(r) -> Answers]
    /\ slots \in [Requests -> SUBSET Nat]
    /\ outstanding \in [Requests -> Nat]
    /\ suspended \in [Requests -> BOOLEAN]
    /\ api_suspended_connections \in Nat
    /\ resuming \in Requests \cup {None}
    /\ closed \in BOOLEAN /\ spc \in StopPCs

(* The sends of a request that are counted: those whose callback may still *)
(* come, and the one whose refusal has yet to be seen.                     *)
Pending(r) ==
    {i \in Calls(r) :
        \/ outcome[r][i] \in {"counted", "owed"}
        \/ outcome[r][i] = "refused" /\ mhd = r /\ item = i /\ pc = "end"}

(* state->outstanding is the number of those sends at every moment,        *)
(* however the callbacks fall between the handler's steps.                 *)
OutstandingExact ==
    \A r \in Requests : outstanding[r] = Cardinality(Pending(r))

(* The state of a request is freed only when no callback will touch it or  *)
(* resume its connection any more.                                         *)
FreedIsUntouched ==
    \A r \in Requests :
        stage[r] = "freed" => /\ resuming # r
                              /\ \A i \in Calls(r) : outcome[r][i] # "owed"

(* MHD_resume_connection is called only on a suspended connection, and so  *)
(* once per suspension.                                                    *)
ResumesSuspended == resuming # None => conn[resuming] = "suspended"

(* Every send of an answered request that has an id is answered by its own *)
(* outcome: no empty result, no result for a failed send, no error for one *)
(* that was sent.                                                          *)
AnswersAreTrue ==
    \A r \in Requests : stage[r] = "answered" /\ Len(Body[r]) \in 1 .. MaxBatch =>
        \A i \in Calls(r) :
            Body[r][i] = "send" =>
                \/ answer[r][i] = "result" /\ outcome[r][i] = "ok"
                \/ answer[r][i] = "error" /\ outcome[r][i] \in {"failed", "refused"}

(* MHD aborts the process if it is stopped with a suspended connection:    *)
(* bm_api_server_thread never does that, and none is suspended afterwards. *)
StopsWithoutSuspended ==
    spc \in {"stopping", "stopped"} => \A r \in Requests : conn[r] # "suspended"

(* If the callbacks come, a request whose handling began is answered, or   *)
(* its client has gone.                                                    *)
AnsweredOrGone ==
    CallbacksCome =>
        \A r \in Requests :
            stage[r] = "handling" ~> stage[r] \in {"answered", "freed"}

(* api_server.c:1478: api_suspended_connections is the number of suspended *)
(* connections (up to the response), so that it reaches 0 once all PoW is  *)
(* settled.  It does not: see ClientGone.                                  *)
CountsSuspended ==
    api_suspended_connections =
        Cardinality({r \in Requests : stage[r] = "waiting"})
=============================================================================
