------------------------------ MODULE PowQueue ------------------------------
(***************************************************************************)
(* The proof-of-work job queue: src/pow/pow_queue.c.                       *)
(*                                                                         *)
(* One worker thread serves a bounded FIFO of jobs.  Any thread submits a  *)
(* job; the completion callback `done' of a job runs on the worker and may *)
(* itself submit the next stage of a multi-stage send; one thread shuts    *)
(* the queue down.  Every section of code between a lock and an unlock of  *)
(* q->mutex is one action, and so is the code between two sections: the    *)
(* search for a nonce, the callback, the join, the discards.               *)
(*                                                                         *)
(* An operator X_Suffix just before X is a wrong form of X, named for the  *)
(* slip it makes; no action uses it.  It shows which property would catch  *)
(* that slip.                                                              *)
(***************************************************************************)
EXTENDS Integers, Sequences, FiniteSets

CONSTANTS
    Jobs,        \* the calls of bm_pow_queue_submit a behaviour may make
    Keys,        \* deduplication keys of legal length
    NoKey,       \* key_len = 0: the job is not deduplicated
    LongKey,     \* a key longer than BM_POW_QUEUE_KEY_MAX
    KeyOf,       \* the key each call passes
    MaxPending,  \* q->max_pending
    None         \* the NULL job

ASSUME KeyAssumption ==
    /\ NoKey \notin Keys /\ LongKey \notin Keys /\ NoKey # LongKey
    /\ KeyOf \in [Jobs -> Keys \cup {NoKey, LongKey}]
    /\ None \notin Jobs

ASSUME BoundAssumption == MaxPending \in Nat

VARIABLES
    waiting,    \* the list q->head .. q->tail
    pending,    \* q->pending
    running,    \* q->running
    shutdown,   \* q->shutdown
    cancel,     \* q->cancel
    completed,  \* q->completed
    wpc,        \* where the worker thread is
    spc,        \* where the thread that called bm_pow_queue_shutdown is
    doomed,     \* `list' of bm_pow_queue_shutdown: the jobs it discards
    accepted,   \* history: the calls that returned 0, in order
    delivered   \* history: the invocations of done, in order

qvars == <<waiting, pending, running, shutdown, cancel, completed>>
hist  == <<accepted, delivered>>
vars  == <<waiting, pending, running, shutdown, cancel, completed,
           wpc, spc, doomed, accepted, delivered>>

(* "start": thread created.  "asleep": in pthread_cond_wait.  "woken": to  *)
(* leave it.  "pow": in bm_pow_run_cancellable.  "done": in the callback.  *)
WorkerPCs == {"start", "asleep", "woken", "pow", "done", "exited"}

(* "idle": not called.  "join": in pthread_join.  "discard": in the loop   *)
(* that discards the waiting jobs.                                         *)
ShutdownPCs == {"idle", "join", "discard", "returned"}

(* A submission is made on the worker (inside a callback) or elsewhere.    *)
Threads == {"worker", "other"}

Init ==
    /\ waiting = <<>> /\ pending = 0 /\ running = None
    /\ shutdown = FALSE /\ cancel = FALSE /\ completed = 0
    /\ wpc = "start" /\ spc = "idle" /\ doomed = <<>>
    /\ accepted = <<>> /\ delivered = <<>>

-----------------------------------------------------------------------------
(* pthread_cond_broadcast: the worker is the only thread that waits.       *)
Broadcast_Lost == wpc' = wpc
Broadcast == wpc' = IF wpc = "asleep" THEN "woken" ELSE wpc

(* The same key is waiting, or is the key of the running job and the       *)
(* caller is not the worker.                                               *)
key_in_flight_WaitingOnly(t, key) ==
    \E i \in 1 .. Len(waiting) : KeyOf[waiting[i]] = key
key_in_flight(t, key) ==
    \/ running # None /\ t # "worker" /\ KeyOf[running] = key
    \/ \E i \in 1 .. Len(waiting) : KeyOf[waiting[i]] = key

(* The values submit may return.  Accepting takes an allocation, which may *)
(* fail.                                                                   *)
SubmitResults_NoShutdownCheck(t, j) ==
    IF KeyOf[j] = LongKey \/ pending >= MaxPending THEN {-1}
    ELSE IF KeyOf[j] # NoKey /\ key_in_flight(t, KeyOf[j]) THEN {1} ELSE {0, -1}
SubmitResults(t, j) ==
    IF \/ KeyOf[j] = LongKey
       \/ shutdown
       \/ pending >= MaxPending
    THEN {-1}
    ELSE IF KeyOf[j] # NoKey /\ key_in_flight(t, KeyOf[j])
         THEN {1}
         ELSE {0, -1}

Enqueue(j) ==
    /\ waiting' = Append(waiting, j)
    /\ pending' = pending + 1
    /\ accepted' = Append(accepted, j)
    /\ Broadcast

(* A refused job leaves the queue as it was, and its callback uncalled.    *)
(* The same job may then be tried again: a call with an equal argument.    *)
Refuse == UNCHANGED <<waiting, pending, accepted, wpc>>

bm_pow_queue_submit(t, j) ==
    /\ \A i \in 1 .. Len(accepted) : accepted[i] # j
    /\ t = "worker" => wpc = "done"
    /\ \E rc \in SubmitResults(t, j) : IF rc = 0 THEN Enqueue(j) ELSE Refuse
    /\ UNCHANGED <<running, shutdown, cancel, completed, spc, doomed, delivered>>

-----------------------------------------------------------------------------
(* The head of the worker's loop, reached with the mutex held: leave on    *)
(* shutdown, sleep on an empty list, else take the first job.              *)
LoopHead ==
    \/ /\ shutdown
       /\ wpc' = "exited" /\ running' = None
       /\ UNCHANGED <<waiting, pending>>
    \/ /\ ~shutdown /\ waiting = <<>>
       /\ wpc' = "asleep" /\ running' = None
       /\ UNCHANGED <<waiting, pending>>
    \/ /\ ~shutdown /\ waiting # <<>>
       /\ wpc' = "pow" /\ running' = Head(waiting)
       /\ waiting' = Tail(waiting) /\ pending' = pending - 1

WorkerEnter ==
    /\ wpc \in {"start", "woken"}
    /\ LoopHead
    /\ UNCHANGED <<shutdown, cancel, completed, spc, doomed, hist>>

(* A condition variable may wake its waiter for no reason.                 *)
SpuriousWakeup ==
    /\ wpc = "asleep"
    /\ wpc' = "woken"
    /\ UNCHANGED <<qvars, spc, doomed, hist>>

(* done(user_data, object, ...): the callback sees an object, or NULL      *)
(* because the search was cancelled, the job was discarded, or build_object*)
(* could not allocate.                                                     *)
Outcomes == {"object", "nomem", "cancelled"}
Receipts == [job : Jobs, out : Outcomes]
Deliver(j, out) == delivered' = Append(delivered, [job |-> j, out |-> out])

(* The search ended and the callback begins: a nonce was found ...         *)
PowFound ==
    /\ wpc = "pow"
    /\ \E out \in {"object", "nomem"} : Deliver(running, out)
    /\ wpc' = "done"
    /\ UNCHANGED <<qvars, spc, doomed, accepted>>

(* ... or the search threads saw q->cancel.                                *)
PowCancelled ==
    /\ wpc = "pow" /\ cancel
    /\ Deliver(running, "cancelled")
    /\ wpc' = "done"
    /\ UNCHANGED <<qvars, spc, doomed, accepted>>

(* The callback has returned: the worker relocks, clears q->running and    *)
(* goes round without unlocking.                                           *)
WorkerFinish ==
    /\ wpc = "done"
    /\ completed' = completed + 1
    /\ LoopHead
    /\ UNCHANGED <<shutdown, cancel, spc, doomed, hist>>

-----------------------------------------------------------------------------
(* First section of bm_pow_queue_shutdown.  A second call finds q->shutdown*)
(* set and returns: it changes nothing.                                    *)
bm_pow_queue_shutdown_NoCancel ==
    /\ spc = "idle" /\ ~shutdown
    /\ shutdown' = TRUE
    /\ doomed' = waiting /\ waiting' = <<>> /\ pending' = 0
    /\ Broadcast /\ spc' = "join"
    /\ UNCHANGED <<cancel, running, completed, hist>>
bm_pow_queue_shutdown ==
    /\ spc = "idle" /\ ~shutdown
    /\ shutdown' = TRUE /\ cancel' = TRUE
    /\ doomed' = waiting
    /\ waiting' = <<>> /\ pending' = 0
    /\ Broadcast
    /\ spc' = "join"
    /\ UNCHANGED <<running, completed, hist>>

ShutdownJoin ==
    /\ spc = "join" /\ wpc = "exited"
    /\ spc' = "discard"
    /\ UNCHANGED <<qvars, wpc, doomed, hist>>

(* discard() frees the payload and calls done with a NULL object.          *)
ShutdownDiscard ==
    /\ spc = "discard" /\ doomed # <<>>
    /\ Deliver(Head(doomed), "cancelled")
    /\ doomed' = Tail(doomed)
    /\ UNCHANGED <<qvars, wpc, spc, accepted>>

ShutdownReturn ==
    /\ spc = "discard" /\ doomed = <<>>
    /\ spc' = "returned"
    /\ UNCHANGED <<qvars, wpc, doomed, hist>>

(* What the threads do by being scheduled.  PowFound is luck.              *)
Worker == WorkerEnter \/ PowCancelled \/ WorkerFinish
Shutdown == ShutdownJoin \/ ShutdownDiscard \/ ShutdownReturn

Next ==
    \/ \E t \in Threads, j \in Jobs : bm_pow_queue_submit(t, j)
    \/ Worker
    \/ PowFound
    \/ SpuriousWakeup
    \/ bm_pow_queue_shutdown
    \/ Shutdown

(* The worker thread and the thread in bm_pow_queue_shutdown run and the   *)
(* callbacks return.  Nobody is obliged to submit or to shut down, and no  *)
(* search is obliged to succeed.                                           *)
Spec == Init /\ [][Next]_vars /\ WF_vars(Worker) /\ WF_vars(Shutdown)

(* A search that goes on for ever finds a nonce.                           *)
Lucky == WF_vars(PowFound)

-----------------------------------------------------------------------------
TypeOK ==
    /\ waiting \in Seq(Jobs) /\ pending \in Nat
    /\ running \in Jobs \cup {None}
    /\ shutdown \in BOOLEAN /\ cancel \in BOOLEAN /\ completed \in Nat
    /\ wpc \in WorkerPCs /\ spc \in ShutdownPCs /\ doomed \in Seq(Jobs)
    /\ accepted \in Seq(Jobs)
    /\ delivered \in Seq(Receipts)

(* pow_queue.h: done is called exactly once for every accepted job, never  *)
(* for a refused one, and in the order of acceptance, whichever thread     *)
(* calls it: the n-th callback is that of the n-th accepted job.           *)
ExactlyOnceInOrder ==
    /\ Len(delivered) <= Len(accepted)
    /\ \A i \in 1 .. Len(delivered) : delivered[i].job = accepted[i]

(* Deduplication: no two accepted jobs whose callback is still owed have   *)
(* the same key, however submissions, stages and the worker interleave.    *)
NoDuplicateWork ==
    \A i, k \in Len(delivered) + 1 .. Len(accepted) :
        i # k /\ KeyOf[accepted[i]] = KeyOf[accepted[k]]
            => KeyOf[accepted[i]] = NoKey

(* pow_queue.c:84: while a callback runs, the key of its job still turns   *)
(* away every other thread, so that the callback can update what the key   *)
(* protects or hand the key on to the next stage without a gap.            *)
KeyHeldThroughCallback ==
    [][\A j \in Jobs :
          /\ wpc = "done"
          /\ bm_pow_queue_submit("other", j)
          /\ accepted' # accepted
          => \/ KeyOf[j] = NoKey
             \/ KeyOf[j] # KeyOf[delivered[Len(delivered)].job]]_vars

(* q->pending counts the waiting list, and never passes q->max_pending.    *)
PendingExact == pending = Len(waiting) /\ pending <= MaxPending

(* No wakeup is lost: the worker never sleeps beside a waiting job, nor    *)
(* through a shutdown.                                                     *)
NoSleepOnWork == wpc = "asleep" => waiting = <<>> /\ ~shutdown

(* When bm_pow_queue_shutdown returns, the worker is gone and every        *)
(* accepted job has had its callback: bm_pow_queue_destroy may follow.     *)
ShutdownSettlesAll ==
    spc = "returned" => wpc = "exited" /\ Len(delivered) = Len(accepted)

(* Shutting down ends, even when no search ever finds a nonce.             *)
ShutdownReturns == shutdown ~> spc = "returned"

(* If searches succeed, every accepted job gets its callback, shut down or *)
(* not.                                                                    *)
AcceptedIsDelivered ==
    Lucky => \A n \in 1 .. Cardinality(Jobs) :
                 Len(accepted) >= n ~> Len(delivered) >= n

(* The queue implements the ledger of PowLedger.                           *)
Ledger == INSTANCE PowLedger WITH Capacity <- MaxPending, closed <- shutdown
ImplementsLedger == Ledger!LedgerSpec
=============================================================================
