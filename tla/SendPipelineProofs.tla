------------------------- MODULE SendPipelineProofs -------------------------
(***************************************************************************)
(* Proofs about the proof-of-work queue, for any set of jobs, keys and any *)
(* max_pending (module PowQueue), and about the attempts of the pipeline   *)
(* that uses it, for any messages, failures of messages.db and restarts    *)
(* (module SendPipeline).                                                  *)
(***************************************************************************)
EXTENDS SendPipeline, TLAPS

-----------------------------------------------------------------------------
(* The queue by itself, whatever the callbacks do.                         *)

(* 1 while the running job's callback is still owed.                       *)
Owing == IF wpc = "pow" THEN 1 ELSE 0

(* Where the worker, the shutting-down thread and the flags may be.        *)
ControlInv ==
    /\ cancel <=> shutdown
    /\ shutdown <=> spc # "idle"
    /\ running # None <=> wpc \in {"pow", "done"}
    /\ wpc = "exited" => shutdown
    /\ spc \in {"discard", "returned"} => wpc = "exited"
    /\ shutdown => waiting = <<>>
    /\ ~shutdown => doomed = <<>>
    /\ spc = "returned" => doomed = <<>>
    /\ NoSleepOnWork
    /\ PendingExact

(* The accepted jobs are the settled ones, then the running one if its     *)
(* callback is owed, then the waiting or the doomed ones, in this order.   *)
OrderInv ==
    /\ Len(accepted) = Len(delivered) + Owing + Len(waiting) + Len(doomed)
    /\ \A i \in 1 .. Len(delivered) : delivered[i].job = accepted[i]
    /\ wpc = "pow" => accepted[Len(delivered) + 1] = running
    /\ \A i \in 1 .. Len(waiting) :
           accepted[Len(delivered) + Owing + i] = waiting[i]
    /\ \A i \in 1 .. Len(doomed) :
           accepted[Len(delivered) + Owing + i] = doomed[i]
    /\ wpc = "done" => /\ Len(delivered) > 0
                       /\ delivered[Len(delivered)].job = running

IInv == TypeOK /\ ControlInv /\ OrderInv /\ NoDuplicateWork

USE DEF WorkerPCs, ShutdownPCs, Threads, Outcomes

(* What the list operations do, in the form the proofs use them.           *)
LEMMA AppendFacts ==
    ASSUME NEW S, NEW s \in Seq(S), NEW e \in S
    PROVE  /\ Append(s, e) \in Seq(S)
           /\ Len(s) \in Nat
           /\ Len(Append(s, e)) = Len(s) + 1
           /\ Append(s, e)[Len(s) + 1] = e
           /\ \A i \in 1 .. Len(s) : Append(s, e)[i] = s[i]
OBVIOUS

LEMMA TailFacts ==
    ASSUME NEW S, NEW s \in Seq(S), s # <<>>
    PROVE  /\ Tail(s) \in Seq(S)
           /\ Len(s) \in Nat \ {0}
           /\ Len(Tail(s)) = Len(s) - 1
           /\ Head(s) = s[1]
           /\ Head(s) \in S
           /\ \A i \in 1 .. Len(Tail(s)) : Tail(s)[i] = s[i + 1]
OBVIOUS

LEMMA InitIInv == Init => IInv
<1> SUFFICES ASSUME Init PROVE IInv
    OBVIOUS
<1> USE KeyAssumption, BoundAssumption DEF Init
<1>1. TypeOK
  <2>1. shutdown \in BOOLEAN /\ cancel \in BOOLEAN
      BY ZenonT(60)
  <2> QED
      BY <2>1 DEF TypeOK
<1>2. ControlInv
    BY DEF ControlInv, NoSleepOnWork, PendingExact
<1>3. OrderInv
    BY DEF OrderInv, Owing
<1>4. NoDuplicateWork
    BY DEF NoDuplicateWork
<1> QED
    BY <1>1, <1>2, <1>3, <1>4 DEF IInv

-----------------------------------------------------------------------------
(* The head of the worker's loop, from a sleep or from a finished job.     *)
LEMMA LoopHeadStep ==
    ASSUME IInv, LoopHead, wpc \in {"start", "woken", "done"},
           completed' \in Nat,
           UNCHANGED <<shutdown, cancel, spc, doomed, hist>>
    PROVE  IInv'
<1> USE KeyAssumption, BoundAssumption DEF IInv, hist
<1>1. shutdown' \in BOOLEAN /\ cancel' \in BOOLEAN
    BY DEF TypeOK
<1>2. CASE /\ shutdown
           /\ wpc' = "exited" /\ running' = None
           /\ UNCHANGED <<waiting, pending>>
  <2> USE <1>2
  <2>1. TypeOK'
      BY <1>1 DEF TypeOK
  <2>2. ControlInv'
      BY DEF TypeOK, ControlInv, NoSleepOnWork, PendingExact
  <2>3. OrderInv'
      BY DEF TypeOK, ControlInv, OrderInv, Owing
  <2>4. NoDuplicateWork'
      BY DEF NoDuplicateWork
  <2> QED
      BY <2>1, <2>2, <2>3, <2>4
<1>3. CASE /\ ~shutdown /\ waiting = <<>>
           /\ wpc' = "asleep" /\ running' = None
           /\ UNCHANGED <<waiting, pending>>
  <2> USE <1>3
  <2>1. TypeOK'
      BY <1>1 DEF TypeOK
  <2>2. ControlInv'
      BY DEF TypeOK, ControlInv, NoSleepOnWork, PendingExact
  <2>3. OrderInv'
      BY DEF TypeOK, ControlInv, OrderInv, Owing
  <2>4. NoDuplicateWork'
      BY DEF NoDuplicateWork
  <2> QED
      BY <2>1, <2>2, <2>3, <2>4
<1>4. CASE /\ ~shutdown /\ waiting # <<>>
           /\ wpc' = "pow" /\ running' = Head(waiting)
           /\ waiting' = Tail(waiting) /\ pending' = pending - 1
  <2>0. waiting \in Seq(Jobs)
      BY DEF TypeOK
  <2> USE <1>4, TailFacts, <2>0
  <2>1. TypeOK'
    <3>1. waiting' \in Seq(Jobs) /\ running' \in Jobs
        OBVIOUS
    <3>2. pending' \in Nat
        BY DEF TypeOK, ControlInv, PendingExact
    <3> QED
        BY <1>1, <3>1, <3>2 DEF TypeOK
  <2>2. ControlInv'
      BY DEF TypeOK, ControlInv, NoSleepOnWork, PendingExact
  <2>3. OrderInv'
    <3>1. Owing = 0 /\ Owing' = 1 /\ Len(delivered) \in Nat /\ doomed = <<>>
        BY DEF TypeOK, ControlInv, Owing
    <3>2. Len(accepted) = Len(delivered) + 1 + Len(Tail(waiting))
        BY <3>1 DEF OrderInv
    <3>3. accepted[Len(delivered) + 1] = Head(waiting)
        BY <3>1 DEF OrderInv
    <3>4. \A i \in 1 .. Len(Tail(waiting)) :
              accepted[Len(delivered) + 1 + i] = Tail(waiting)[i]
      <4> TAKE i \in 1 .. Len(Tail(waiting))
      <4>1. i + 1 \in 1 .. Len(waiting)
          OBVIOUS
      <4>2. accepted[Len(delivered) + 0 + (i + 1)] = waiting[i + 1]
          BY <3>1, <4>1, ZenonT(60) DEF OrderInv
      <4> QED
          BY <3>1, <4>2
    <3> QED
        BY <3>1, <3>2, <3>3, <3>4 DEF OrderInv
  <2>4. NoDuplicateWork'
      BY DEF NoDuplicateWork
  <2> QED
      BY <2>1, <2>2, <2>3, <2>4
<1> QED
    BY <1>2, <1>3, <1>4 DEF LoopHead

(* The callback of the running job begins, on whatever outcome.            *)
LEMMA DeliverStep ==
    ASSUME IInv, wpc = "pow", NEW out \in Outcomes, Deliver(running, out),
           wpc' = "done", UNCHANGED <<qvars, spc, doomed, accepted>>
    PROVE  IInv'
<1> USE KeyAssumption, BoundAssumption DEF IInv, Deliver, qvars
<1>0. running \in Jobs
    BY DEF TypeOK, ControlInv
<1>1. TypeOK'
  <2>1. shutdown' \in BOOLEAN /\ cancel' \in BOOLEAN
      BY DEF TypeOK
  <2>2. delivered' \in Seq(Receipts)
      BY <1>0 DEF TypeOK, Receipts
  <2> QED
      BY <2>1, <2>2 DEF TypeOK
<1>2. ControlInv'
    BY DEF TypeOK, ControlInv, NoSleepOnWork, PendingExact
<1>3. OrderInv'
    BY <1>0 DEF TypeOK, ControlInv, OrderInv, Owing
<1>4. NoDuplicateWork'
  <2>1. delivered \in Seq(Receipts) /\ [job |-> running, out |-> out] \in Receipts
      BY <1>0 DEF TypeOK, Receipts
  <2>2. Len(delivered') = Len(delivered) + 1 /\ Len(delivered) \in Nat
      BY <2>1, AppendFacts
  <2>3. Len(accepted) \in Nat
      BY DEF TypeOK
  <2> QED
      BY <2>2, <2>3 DEF NoDuplicateWork
<1> QED
    BY <1>1, <1>2, <1>3, <1>4

(* submit accepts a keyed job only if no owed job has its key.             *)
LEMMA FreshKey ==
    ASSUME IInv, NEW t \in Threads, NEW j \in Jobs, 0 \in SubmitResults(t, j),
           t = "worker" => wpc = "done", KeyOf[j] # NoKey,
           NEW i \in Len(delivered) + 1 .. Len(accepted)
    PROVE  KeyOf[accepted[i]] # KeyOf[j]
<1> USE KeyAssumption DEF IInv
<1>1. ~shutdown /\ ~key_in_flight(t, KeyOf[j])
    BY DEF SubmitResults
<1>2. /\ Owing \in {0, 1} /\ doomed = <<>>
      /\ Len(delivered) \in Nat /\ Len(waiting) \in Nat
      /\ Len(accepted) = Len(delivered) + Owing + Len(waiting)
    BY <1>1 DEF TypeOK, ControlInv, OrderInv, Owing
<1>3. CASE Owing = 1 /\ i = Len(delivered) + 1
    BY <1>1, <1>3 DEF key_in_flight, Owing, OrderInv, ControlInv
<1>4. CASE i - Len(delivered) - Owing \in 1 .. Len(waiting)
  <2> DEFINE k == i - Len(delivered) - Owing
  <2>1. accepted[Len(delivered) + Owing + k] = waiting[k]
      BY <1>4 DEF OrderInv
  <2>2. accepted[i] = waiting[k]
      BY <1>2, <2>1
  <2> QED
      BY <1>1, <1>4, <2>2 DEF key_in_flight
<1> QED
    BY <1>2, <1>3, <1>4

(* An accepted submission.                                                 *)
LEMMA EnqueueStep ==
    ASSUME IInv, NEW t \in Threads, NEW j \in Jobs,
           t = "worker" => wpc = "done",
           0 \in SubmitResults(t, j), Enqueue(j),
           UNCHANGED <<running, shutdown, cancel, completed, spc, doomed, delivered>>
    PROVE  IInv'
<1> USE KeyAssumption, BoundAssumption DEF IInv, Enqueue, Broadcast
<1>1. /\ ~shutdown /\ pending < MaxPending /\ KeyOf[j] # LongKey
      /\ KeyOf[j] # NoKey => ~key_in_flight(t, KeyOf[j])
    BY DEF SubmitResults, TypeOK
<1>2. waiting \in Seq(Jobs) /\ accepted \in Seq(Jobs)
    BY DEF TypeOK
<1>3. TypeOK'
  <2>1. shutdown' \in BOOLEAN /\ cancel' \in BOOLEAN
      BY DEF TypeOK
  <2>2. waiting' \in Seq(Jobs) /\ accepted' \in Seq(Jobs)
      BY <1>2, AppendFacts
  <2>3. wpc' \in WorkerPCs
      BY DEF TypeOK
  <2> QED
      BY <2>1, <2>2, <2>3 DEF TypeOK
<1>4. ControlInv'
    BY <1>1, <1>2 DEF TypeOK, ControlInv, NoSleepOnWork, PendingExact
<1>5. /\ Owing' = Owing /\ Owing \in {0, 1} /\ doomed = <<>>
      /\ Len(delivered) \in Nat /\ Len(waiting) \in Nat
      /\ Len(accepted) = Len(delivered) + Owing + Len(waiting)
    BY <1>1, <1>2 DEF TypeOK, ControlInv, OrderInv, Owing
<1>6. OrderInv'
  <2>0. /\ Len(accepted') = Len(accepted) + 1 /\ Len(waiting') = Len(waiting) + 1
        /\ accepted'[Len(accepted) + 1] = j /\ waiting'[Len(waiting) + 1] = j
        /\ \A i \in 1 .. Len(accepted) : accepted'[i] = accepted[i]
        /\ \A i \in 1 .. Len(waiting) : waiting'[i] = waiting[i]
        /\ Len(doomed) = 0
      BY <1>2, <1>5, AppendFacts
  <2> USE <1>5, <2>0
  <2>1. \A i \in 1 .. Len(delivered) : delivered[i].job = accepted'[i]
      BY DEF OrderInv
  <2>2. wpc = "pow" => accepted'[Len(delivered) + 1] = running
      BY DEF OrderInv, Owing
  <2>3. \A i \in 1 .. Len(waiting') :
           accepted'[Len(delivered) + Owing + i] = waiting'[i]
    <3> TAKE i \in 1 .. Len(waiting')
    <3>1. CASE i = Len(waiting) + 1
      <4>1. Len(delivered) + Owing + i = Len(accepted) + 1
          BY <3>1
      <4> QED
          BY <3>1, <4>1, Zenon
    <3>2. CASE i \in 1 .. Len(waiting)
      <4>1. Len(delivered) + Owing + i \in 1 .. Len(accepted)
          BY <3>2
      <4>2. accepted[Len(delivered) + Owing + i] = waiting[i]
          BY <3>2, ZenonT(60) DEF OrderInv
      <4> QED
          BY <3>2, <4>1, <4>2
    <3>3. \A n \in Nat : \A m \in 1 .. n + 1 : m = n + 1 \/ m \in 1 .. n
        OBVIOUS
    <3> QED
        BY <3>1, <3>2, <3>3, ZenonT(60)
  <2>5. Len(accepted') = Len(delivered) + Owing + Len(waiting') + Len(doomed)
      OBVIOUS
  <2>6. wpc' = "pow" => wpc = "pow"
      OBVIOUS
  <2>7. wpc' = "done" => wpc = "done"
      OBVIOUS
  <2>8. \A i \in 1 .. Len(doomed) : accepted'[Len(delivered) + Owing + i] = doomed[i]
      OBVIOUS
  <2>9. wpc = "done" => /\ Len(delivered) > 0
                        /\ delivered[Len(delivered)].job = running
      BY DEF OrderInv
  <2> QED
      BY <2>1, <2>2, <2>3, <2>5, <2>6, <2>7, <2>8, <2>9, ZenonT(60) DEF OrderInv
<1>7. NoDuplicateWork'
  <2>1. /\ Len(accepted) \in Nat /\ Len(accepted') = Len(accepted) + 1
        /\ accepted'[Len(accepted) + 1] = j
        /\ \A i \in 1 .. Len(accepted) : accepted'[i] = accepted[i]
      BY <1>2, AppendFacts
  <2>2. KeyOf[j] # NoKey => \A i \in Len(delivered) + 1 .. Len(accepted) :
                               KeyOf[accepted[i]] # KeyOf[j]
      BY FreshKey
  <2>3. \A i \in Len(delivered) + 1 .. Len(accepted') :
            \/ i \in Len(delivered) + 1 .. Len(accepted) /\ accepted'[i] = accepted[i]
            \/ i = Len(accepted) + 1 /\ accepted'[i] = j
      BY <1>5, <2>1
  <2> SUFFICES ASSUME NEW i \in Len(delivered) + 1 .. Len(accepted'),
                      NEW k \in Len(delivered) + 1 .. Len(accepted'),
                      i # k, KeyOf[accepted'[i]] = KeyOf[accepted'[k]]
               PROVE  KeyOf[accepted'[i]] = NoKey
      BY DEF NoDuplicateWork
  <2> QED
      BY <2>2, <2>3 DEF NoDuplicateWork
<1> QED
    BY <1>3, <1>4, <1>6, <1>7

(* The waiting jobs become the doomed ones.                                *)
LEMMA ShutdownStep ==
    ASSUME IInv, bm_pow_queue_shutdown
    PROVE  IInv'
<1> USE KeyAssumption, BoundAssumption
    DEF IInv, bm_pow_queue_shutdown, Broadcast, hist
<1>1. TypeOK'
  <2>1. shutdown' \in BOOLEAN /\ cancel' \in BOOLEAN
      OBVIOUS
  <2> QED
      BY <2>1 DEF TypeOK
<1>2. ControlInv'
    BY DEF TypeOK, ControlInv, NoSleepOnWork, PendingExact
<1>3. OrderInv'
  <2>1. doomed = <<>> /\ Owing' = Owing /\ Len(waiting) \in Nat
      BY DEF TypeOK, ControlInv, Owing
  <2>2. (wpc' = "pow" <=> wpc = "pow") /\ (wpc' = "done" <=> wpc = "done")
      BY DEF TypeOK
  <2>3. Len(accepted) = Len(delivered) + Owing + Len(waiting)
      BY <2>1 DEF OrderInv, TypeOK, Owing
  <2> QED
      BY <2>1, <2>2, <2>3 DEF TypeOK, OrderInv, Owing
<1>4. NoDuplicateWork'
    BY DEF NoDuplicateWork
<1> QED
    BY <1>1, <1>2, <1>3, <1>4

(* One doomed job has its callback.                                        *)
LEMMA DiscardStep ==
    ASSUME IInv, ShutdownDiscard
    PROVE  IInv'
<1> USE KeyAssumption, BoundAssumption DEF IInv, ShutdownDiscard, Deliver, qvars
<1> DEFINE receipt == [job |-> Head(doomed), out |-> "cancelled"]
<1>1. /\ doomed \in Seq(Jobs) /\ doomed # <<>> /\ shutdown
      /\ waiting = <<>> /\ Owing = 0 /\ Owing' = 0 /\ wpc = "exited"
    BY DEF TypeOK, ControlInv, Owing
<1>2. receipt \in Receipts /\ delivered \in Seq(Receipts)
    BY <1>1, TailFacts DEF TypeOK, Receipts
<1>3. /\ delivered' \in Seq(Receipts) /\ Len(delivered) \in Nat
      /\ Len(delivered') = Len(delivered) + 1
      /\ delivered'[Len(delivered) + 1] = receipt
      /\ \A i \in 1 .. Len(delivered) : delivered'[i] = delivered[i]
    BY <1>2, AppendFacts
<1>4. /\ doomed' \in Seq(Jobs) /\ Len(doomed) \in Nat \ {0}
      /\ Len(doomed') = Len(doomed) - 1 /\ Head(doomed) = doomed[1]
      /\ \A i \in 1 .. Len(doomed') : doomed'[i] = doomed[i + 1]
    BY <1>1, TailFacts
<1>5. TypeOK'
  <2>1. shutdown' \in BOOLEAN /\ cancel' \in BOOLEAN
      BY DEF TypeOK
  <2> QED
      BY <2>1, <1>3, <1>4 DEF TypeOK
<1>6. ControlInv'
    BY <1>1 DEF TypeOK, ControlInv, NoSleepOnWork, PendingExact
<1>7. Len(accepted) = Len(delivered) + Len(doomed) /\ Len(waiting) = 0
    BY <1>1, <1>3, <1>4 DEF OrderInv
<1>8. OrderInv'
  <2>1. accepted[Len(delivered) + 1] = Head(doomed)
      BY <1>1, <1>3, <1>4 DEF OrderInv
  <2>2. \A i \in 1 .. Len(delivered') : delivered'[i].job = accepted[i]
    <3> TAKE i \in 1 .. Len(delivered')
    <3>1. CASE i = Len(delivered) + 1
        BY <1>3, <2>1, <3>1
    <3>2. CASE i \in 1 .. Len(delivered)
      <4>1. delivered[i].job = accepted[i]
          BY <3>2, Zenon DEF OrderInv
      <4>2. delivered'[i] = delivered[i]
          BY <1>3, <3>2
      <4> QED
          BY <4>1, <4>2
    <3>3. \A n \in Nat : \A m \in 1 .. n + 1 : m = n + 1 \/ m \in 1 .. n
        OBVIOUS
    <3> QED
        BY <1>3, <3>1, <3>2, <3>3
  <2>3. \A i \in 1 .. Len(doomed') : accepted[Len(delivered') + 0 + i] = doomed'[i]
    <3> TAKE i \in 1 .. Len(doomed')
    <3>1. i + 1 \in 1 .. Len(doomed)
        BY <1>4
    <3>2. accepted[Len(delivered) + 0 + (i + 1)] = doomed[i + 1]
        BY <1>1, <3>1 DEF OrderInv
    <3> QED
        BY <1>3, <1>4, <3>2
  <2>4. Len(accepted) = Len(delivered') + 0 + Len(waiting) + Len(doomed')
      BY <1>3, <1>4, <1>7
  <2> QED
      BY <1>1, <2>2, <2>3, <2>4 DEF OrderInv
<1>9. NoDuplicateWork'
  <2>1. Len(accepted) \in Nat
      BY DEF TypeOK
  <2> QED
      BY <1>3, <2>1 DEF NoDuplicateWork
<1> QED
    BY <1>5, <1>6, <1>8, <1>9

-----------------------------------------------------------------------------
(* Every step of the queue preserves the inductive invariant.              *)
LEMMA NextIInv == IInv /\ [Next]_vars => IInv'
<1> SUFFICES ASSUME IInv, [Next]_vars PROVE IInv'
    OBVIOUS
<1>1. CASE UNCHANGED vars
  <2>1. shutdown' \in BOOLEAN /\ cancel' \in BOOLEAN
      BY <1>1 DEF vars, IInv, TypeOK
  <2>2. TypeOK'
      BY <1>1, <2>1 DEF vars, IInv, TypeOK
  <2>3. ControlInv'
      BY <1>1 DEF vars, IInv, ControlInv, NoSleepOnWork, PendingExact
  <2>4. OrderInv' /\ NoDuplicateWork'
      BY <1>1 DEF vars, IInv, OrderInv, Owing, NoDuplicateWork
  <2> QED
      BY <2>2, <2>3, <2>4 DEF IInv
<1>2. ASSUME NEW t \in Threads, NEW j \in Jobs, bm_pow_queue_submit(t, j)
      PROVE  IInv'
  <2>1. PICK rc \in SubmitResults(t, j) : IF rc = 0 THEN Enqueue(j) ELSE Refuse
      BY <1>2 DEF bm_pow_queue_submit
  <2>2. CASE rc = 0
      BY <1>2, <2>1, <2>2, EnqueueStep DEF bm_pow_queue_submit
  <2>3. CASE rc # 0
    <3>1. Refuse
        BY <2>1, <2>3
    <3>2. shutdown' \in BOOLEAN /\ cancel' \in BOOLEAN
        BY <1>2 DEF bm_pow_queue_submit, IInv, TypeOK
    <3>4. TypeOK'
        BY <1>2, <3>1, <3>2 DEF bm_pow_queue_submit, Refuse, IInv, TypeOK
    <3>5. ControlInv'
        BY <1>2, <3>1 DEF bm_pow_queue_submit, Refuse, IInv, ControlInv,
                          NoSleepOnWork, PendingExact
    <3>6. OrderInv' /\ NoDuplicateWork'
        BY <1>2, <3>1 DEF bm_pow_queue_submit, Refuse, IInv, OrderInv,
                          Owing, NoDuplicateWork
    <3> QED
        BY <3>4, <3>5, <3>6 DEF IInv
  <2> QED
      BY <2>2, <2>3
<1>3. CASE WorkerEnter
    BY <1>3, LoopHeadStep DEF WorkerEnter, IInv, TypeOK
<1>4. CASE PowCancelled
    BY <1>4, DeliverStep DEF PowCancelled
<1>5. CASE WorkerFinish
  <2>1. completed' \in Nat
      BY <1>5 DEF WorkerFinish, IInv, TypeOK
  <2> QED
      BY <1>5, <2>1, LoopHeadStep DEF WorkerFinish
<1>6. CASE PowFound
    BY <1>6, DeliverStep DEF PowFound
<1>7. CASE SpuriousWakeup
  <2>1. shutdown' \in BOOLEAN /\ cancel' \in BOOLEAN
      BY <1>7 DEF SpuriousWakeup, qvars, IInv, TypeOK
  <2> QED
      BY <1>7, <2>1 DEF SpuriousWakeup, qvars, hist, IInv, TypeOK, ControlInv,
             OrderInv, Owing, NoDuplicateWork, NoSleepOnWork, PendingExact
<1>8. CASE bm_pow_queue_shutdown
    BY <1>8, ShutdownStep
<1>9. CASE ShutdownJoin \/ ShutdownReturn
  <2>1. shutdown' \in BOOLEAN /\ cancel' \in BOOLEAN
      BY <1>9 DEF ShutdownJoin, ShutdownReturn, qvars, IInv, TypeOK
  <2> USE <1>9 DEF ShutdownJoin, ShutdownReturn, qvars, hist, IInv
  <2>2. TypeOK'
      BY <2>1 DEF TypeOK
  <2>3. ControlInv'
      BY DEF ControlInv, NoSleepOnWork, PendingExact
  <2>4. UNCHANGED <<accepted, delivered, waiting, doomed, running, wpc>>
      OBVIOUS
  <2>5. OrderInv'
      BY <2>4, Zenon DEF OrderInv, Owing
  <2>6. NoDuplicateWork'
      BY <2>4 DEF NoDuplicateWork
  <2> QED
      BY <2>2, <2>3, <2>5, <2>6
<1>10. CASE ShutdownDiscard
    BY <1>10, DiscardStep
<1> QED
    BY <1>1, <1>2, <1>3, <1>4, <1>5, <1>6, <1>7, <1>8, <1>9, <1>10
       DEF Next, Worker, Shutdown

LEMMA AlwaysIInv == Spec => []IInv
BY InitIInv, NextIInv, PTL DEF Spec

(* Every variable keeps its type.                                          *)
THEOREM TypeCorrect == Spec => []TypeOK
BY AlwaysIInv, PTL DEF IInv

(* done is called once per accepted job and in the order of acceptance.    *)
THEOREM CallbackOrder == Spec => []ExactlyOnceInOrder
<1>1. IInv => ExactlyOnceInOrder
    BY DEF IInv, TypeOK, OrderInv, Owing, ExactlyOnceInOrder
<1> QED
    BY <1>1, AlwaysIInv, PTL

(* No two jobs with one key are owed a callback at the same time.          *)
THEOREM Deduplication == Spec => []NoDuplicateWork
BY AlwaysIInv, PTL DEF IInv

(* The counter of the waiting list is exact and bounded, and no wakeup of  *)
(* the worker is lost.                                                     *)
THEOREM BoundedAndAwake == Spec => [](PendingExact /\ NoSleepOnWork)
<1>1. IInv => PendingExact /\ NoSleepOnWork
    BY DEF IInv, ControlInv
<1> QED
    BY <1>1, AlwaysIInv, PTL

(* Once shutdown has returned nothing is owed and the worker is gone.      *)
THEOREM CleanShutdown == Spec => []ShutdownSettlesAll
<1>1. IInv => ShutdownSettlesAll
    BY DEF IInv, TypeOK, ControlInv, OrderInv, Owing, ShutdownSettlesAll
<1> QED
    BY <1>1, AlwaysIInv, PTL

(* While a callback runs its key turns away every other thread.            *)
THEOREM KeyHeld == Spec => KeyHeldThroughCallback
<1> DEFINE Held == \A j \in Jobs :
              /\ wpc = "done"
              /\ bm_pow_queue_submit("other", j)
              /\ accepted' # accepted
              => \/ KeyOf[j] = NoKey
                 \/ KeyOf[j] # KeyOf[delivered[Len(delivered)].job]
<1>1. IInv => Held
  <2> SUFFICES ASSUME IInv, NEW j \in Jobs, wpc = "done",
                      bm_pow_queue_submit("other", j), accepted' # accepted,
                      KeyOf[j] # NoKey
               PROVE  KeyOf[j] # KeyOf[delivered[Len(delivered)].job]
      OBVIOUS
  <2>1. 0 \in SubmitResults("other", j)
      BY DEF bm_pow_queue_submit, Refuse
  <2>2. ~key_in_flight("other", KeyOf[j])
      BY <2>1 DEF SubmitResults
  <2>3. running # None /\ delivered[Len(delivered)].job = running
      BY Zenon DEF IInv, ControlInv, OrderInv
  <2> QED
      BY <2>2, <2>3 DEF key_in_flight
<1> QED
    BY <1>1, AlwaysIInv, PTL DEF KeyHeldThroughCallback

-----------------------------------------------------------------------------
(* The worker's step that begins a callback settles the oldest owed job.   *)
LEMMA DeliverSettles ==
    ASSUME IInv, NEW out \in Outcomes, out = "cancelled" => shutdown,
           Deliver(accepted[Len(delivered) + 1], out),
           Len(delivered) < Len(accepted), UNCHANGED <<accepted, shutdown>>
    PROVE  Ledger!Settle
<1>1. Len(delivered) + 1 \in Ledger!Unsettled
    BY DEF Ledger!Unsettled, IInv, TypeOK
<1> QED
    BY <1>1 DEF Ledger!Settle, Deliver

(* The queue implements the ledger: every step of the threads accepts one  *)
(* job, settles the oldest owed one, closes the ledger or leaves it alone. *)
THEOREM LedgerRefinement == Spec => ImplementsLedger
<1>1. Init => Ledger!LedgerInit
    BY DEF Init, Ledger!LedgerInit
<1>2. IInv /\ [Next]_vars => [Ledger!LedgerNext]_(Ledger!lvars)
  <2> SUFFICES ASSUME IInv, [Next]_vars
               PROVE  Ledger!LedgerNext \/ UNCHANGED <<accepted, delivered, shutdown>>
      BY DEF Ledger!lvars
  <2> USE DEF qvars, hist
  <2>1. ASSUME NEW t \in Threads, NEW j \in Jobs, bm_pow_queue_submit(t, j)
        PROVE  Ledger!Accept(j) \/ UNCHANGED <<accepted, delivered, shutdown>>
    <3>1. CASE accepted' = accepted
        BY <2>1, <3>1 DEF bm_pow_queue_submit
    <3>2. CASE accepted' # accepted
      <4>1. 0 \in SubmitResults(t, j) /\ Enqueue(j)
          BY <2>1, <3>2 DEF bm_pow_queue_submit, Refuse
      <4>2. ~shutdown /\ pending < MaxPending
          BY <4>1, BoundAssumption DEF SubmitResults, IInv, TypeOK
      <4>3. Len(accepted) - Len(delivered) <= MaxPending
          BY <4>2, BoundAssumption
             DEF IInv, TypeOK, ControlInv, OrderInv, Owing, PendingExact
      <4>4. \A i \in 1 .. Len(accepted) : accepted[i] # j
          BY <2>1, Zenon DEF bm_pow_queue_submit, IInv, OrderInv
      <4>5. KeyOf[j] # NoKey =>
                \A i \in Ledger!Unsettled : KeyOf[accepted[i]] # KeyOf[j]
          BY <2>1, <4>1, FreshKey, Zenon DEF Ledger!Unsettled, bm_pow_queue_submit
      <4>6. accepted' = Append(accepted, j) /\ UNCHANGED <<delivered, shutdown>>
          BY <2>1, <4>1 DEF Enqueue, bm_pow_queue_submit
      <4> QED
          BY <4>2, <4>3, <4>4, <4>5, <4>6, Zenon DEF Ledger!Accept
    <3> QED
        BY <3>1, <3>2
  <2>2. CASE PowFound \/ PowCancelled
    <3>1. PICK out \in Outcomes : Deliver(running, out) /\ (out = "cancelled" => cancel)
        BY <2>2 DEF PowFound, PowCancelled
    <3>2. running = accepted[Len(delivered) + 1] /\ Len(delivered) < Len(accepted)
        BY <2>2 DEF PowFound, PowCancelled, IInv, TypeOK, OrderInv, Owing
    <3>3. out = "cancelled" => shutdown
        BY <3>1 DEF IInv, ControlInv
    <3>4. Ledger!Settle
        BY <2>2, <3>1, <3>2, <3>3, DeliverSettles DEF PowFound, PowCancelled
    <3> QED
        BY <3>4 DEF Ledger!LedgerNext
  <2>3. CASE ShutdownDiscard
    <3>1. doomed \in Seq(Jobs) /\ doomed # <<>> /\ waiting = <<>> /\ shutdown /\ Owing = 0
        BY <2>3 DEF ShutdownDiscard, IInv, TypeOK, ControlInv, Owing
    <3>2. Head(doomed) = accepted[Len(delivered) + 1] /\ Len(delivered) < Len(accepted)
        BY <3>1, TailFacts DEF IInv, TypeOK, OrderInv
    <3>3. Ledger!Settle
        BY <2>3, <3>1, <3>2, DeliverSettles DEF ShutdownDiscard
    <3> QED
        BY <3>3 DEF Ledger!LedgerNext
  <2>4. CASE bm_pow_queue_shutdown
      BY <2>4, ZenonT(60) DEF bm_pow_queue_shutdown, Ledger!LedgerNext, Ledger!Close
  <2>5. CASE \/ WorkerEnter \/ WorkerFinish \/ SpuriousWakeup
             \/ ShutdownJoin \/ ShutdownReturn \/ UNCHANGED vars
      BY <2>5, Zenon DEF WorkerEnter, WorkerFinish, SpuriousWakeup, ShutdownJoin,
                  ShutdownReturn, vars
  <2> QED
      BY <2>1, <2>2, <2>3, <2>4, <2>5 DEF Next, Worker, Shutdown, Ledger!LedgerNext
<1> QED
    BY <1>1, <1>2, AlwaysIInv, PTL DEF Spec, ImplementsLedger, Ledger!LedgerSpec

-----------------------------------------------------------------------------
(* The pipeline on the queue.                                              *)

(* The worker's callback is under way just while the queue is in it, and   *)
(* until it has reported or handed the key on, no other job has the key of *)
(* the running one.                                                        *)
HeldInv ==
    /\ cb # "none" <=> wpc = "done"
    /\ \A i \in Len(delivered) + 1 .. Len(accepted) :
          cb \in {"entry", "stored", "copied"} => accepted[i].msg # running.msg

(* Attempts are numbered in the order of their acceptance.                 *)
NumberInv ==
    \A i \in 1 .. Len(accepted) : accepted[i].n <= tries[accepted[i].msg]

SInv == IInv /\ SendTypeOK /\ HeldInv /\ NumberInv /\ DoneExactlyOnce

(* A job names an attempt, and its key is its msg_id.                      *)
LEMMA JobFacts ==
    ASSUME NEW j \in Jobs
    PROVE  /\ SendOf(j) \in Sends /\ SendOf(j)[1] = j.msg
           /\ j.msg \in Msgs /\ j.n \in Nat /\ j.stage \in Stages
           /\ KeyOf[j] = j.msg /\ KeyOf[j] # NoKey
           /\ [j EXCEPT !.stage = "msg"] \in Jobs
           /\ SendOf([j EXCEPT !.stage = "msg"]) = SendOf(j)
           /\ [j EXCEPT !.stage = "msg"].msg = j.msg
           /\ [j EXCEPT !.stage = "msg"].n = j.n
BY JobAssumption, KeyAssumption, NumberAssumption DEF SendOf, Sends, Stages

LEMMA SendInjective ==
    ASSUME NEW a, NEW b, SendOf(a) = SendOf(b)
    PROVE  a.msg = b.msg /\ a.n = b.n
BY DEF SendOf

LEMMA TriesFacts ==
    ASSUME SendTypeOK
    PROVE  tries \in [Msgs -> Nat]
BY NumberAssumption DEF SendTypeOK

LEMMA FirstStageFacts ==
    ASSUME SendTypeOK, NEW m \in Msgs, tries[m] < MaxSends
    PROVE  /\ FirstStage(m) \in Jobs
           /\ FirstStage(m).msg = m /\ FirstStage(m).n = tries[m] + 1
BY JobAssumption, NumberAssumption DEF FirstStage, Job, Stages, SendTypeOK

(* The pipeline drives the queue by the queue's own steps.                 *)
LEMMA QueueStep ==
    ASSUME IInv, SendTypeOK, [SendNext]_allvars
    PROVE  IInv'
<1>1. CASE Restart
  <2>1. Init'
      BY <1>1 DEF Restart, Init
  <2> QED
      BY <2>1, InitIInv, PTL
<1>2. CASE UNCHANGED vars
    BY <1>2, NextIInv
<1>3. ASSUME NEW m \in Msgs, bm_send_pipeline_send_message_async(m)
      PROVE  IInv'
  <2>1. FirstStage(m) \in Jobs /\ bm_pow_queue_submit("other", FirstStage(m))
      BY <1>3, FirstStageFacts, Zenon DEF bm_send_pipeline_send_message_async
  <2> QED
      BY <2>1, NextIInv DEF Next, Threads
<1>4. CASE AckPowDone
  <2>1. running \in Jobs
      BY <1>4 DEF AckPowDone, InCallback, IInv, TypeOK, ControlInv
  <2>2. bm_pow_queue_submit("worker", [running EXCEPT !.stage = "msg"])
      BY <1>4 DEF AckPowDone
  <2> QED
      BY <2>1, <2>2, JobFacts, NextIInv DEF Next, Threads
<1>5. CASE QueueRuns \/ BeginCallback \/ EndCallback \/ Discard \/ ShutDown
  <2>1. Next
      BY <1>5 DEF QueueRuns, BeginCallback, EndCallback, Discard, ShutDown, Next,
                  Worker, Shutdown
  <2> QED
      BY <2>1, NextIInv
<1>6. CASE AckFailed \/ MsgFailed \/ MsgStored \/ InboxCopy \/ MsgReported
    BY <1>2, <1>6, Zenon DEF AckFailed, MsgFailed, MsgStored, InboxCopy, MsgReported
<1>7. CASE \/ bm_object_sync_check_resends
           \/ \E m \in Msgs : ResendSkipped(m)
           \/ \E s \in Sends : bm_messages_store_try_mark_ack_received(s)
           \/ \E m \in Msgs : Overdue(m)
    BY <1>2, <1>7, ZenonT(60) DEF bm_object_sync_check_resends, ResendSkipped,
                      bm_messages_store_try_mark_ack_received, Overdue
<1>8. CASE \E m \in Msgs : SendMessage(m) \/ Resend(m)
    BY <1>3, <1>8 DEF SendMessage, Resend
<1>9. CASE UNCHANGED allvars
    BY <1>2, <1>9 DEF allvars
<1> QED
    BY <1>1, <1>4, <1>5, <1>6, <1>7, <1>8, <1>9 DEF SendNext, Callback

-----------------------------------------------------------------------------
(* What the steps of the pipeline do to the accounts of the attempts.      *)
Accounts == HeldInv /\ NumberInv /\ DoneExactlyOnce

(* The lengths of the queue's histories, and the jobs in them.             *)
LEMMA HistoryFacts ==
    ASSUME IInv
    PROVE  /\ Len(accepted) \in Nat /\ Len(delivered) \in Nat
           /\ Len(delivered) <= Len(accepted)
           /\ \A i \in 1 .. Len(accepted) : accepted[i] \in Jobs
           /\ wpc = "done" => running \in Jobs
<1>1. Len(accepted) \in Nat /\ Len(delivered) \in Nat /\ Len(waiting) \in Nat
      /\ Len(doomed) \in Nat /\ Owing \in {0, 1}
    BY DEF IInv, TypeOK, Owing
<1>2. Len(delivered) <= Len(accepted)
    BY <1>1 DEF IInv, OrderInv
<1>3. \A i \in 1 .. Len(accepted) : accepted[i] \in Jobs
    BY DEF IInv, TypeOK
<1>4. wpc = "done" => running \in Jobs
    BY DEF IInv, TypeOK, ControlInv
<1> QED
    BY <1>1, <1>2, <1>3, <1>4

(* Steps that neither accept nor settle nor report.                        *)
LEMMA QuietStep ==
    ASSUME SInv, UNCHANGED <<accepted, delivered, done, tries>>,
           wpc' = "done" <=> wpc = "done", cb # "none" => running' = running,
           \/ cb' = cb
           \/ /\ cb \in {"entry", "stored"} /\ cb' \in {"stored", "copied"}
    PROVE  Accounts'
<1>1. HeldInv' /\ NumberInv'
    BY Zenon DEF SInv, HeldInv, NumberInv
<1>2. ASSUME NEW s \in Sends PROVE (Owed(s)' <=> Owed(s)) /\ (Ending(s)' <=> Ending(s))
                                   /\ (Accepted(s)' <=> Accepted(s))
    BY <1>2 DEF Owed, Ending, Accepted
<1>3. DoneExactlyOnce'
    BY <1>2 DEF SInv, DoneExactlyOnce, InFlight
<1> QED
    BY <1>1, <1>3 DEF Accounts

(* A thread other than the worker begins an attempt.                       *)
LEMMA AcceptStep ==
    ASSUME SInv, NEW j \in Jobs, KeyOf[j] = j.msg, KeyOf[j] # NoKey,
           bm_pow_queue_submit("other", j), accepted' # accepted,
           j.n = tries[j.msg] + 1, tries' = [tries EXCEPT ![j.msg] = @ + 1],
           UNCHANGED <<done, cb>>
    PROVE  Accounts'
<1>0. j.msg \in Msgs /\ j.n \in Nat /\ tries \in [Msgs -> Nat]
    BY JobFacts, TriesFacts, Zenon DEF SInv
<1>1. /\ 0 \in SubmitResults("other", j)
      /\ accepted' = Append(accepted, j)
      /\ wpc' = "done" <=> wpc = "done"
      /\ UNCHANGED <<delivered, running>>
    BY Zenon DEF bm_pow_queue_submit, Refuse, Enqueue, Broadcast
<1>2. \A i \in Len(delivered) + 1 .. Len(accepted) : accepted[i].msg # j.msg
  <2> TAKE i \in Len(delivered) + 1 .. Len(accepted)
  <2>1. KeyOf[accepted[i]] # KeyOf[j]
      BY <1>1, FreshKey, Zenon DEF SInv, Threads
  <2>2. accepted[i] \in Jobs
      BY HistoryFacts DEF SInv
  <2> QED
      BY <2>1, <2>2, JobFacts, Zenon
<1>3. wpc = "done" => running.msg # j.msg
  <2> SUFFICES ASSUME wpc = "done" PROVE running.msg # j.msg
      BY Zenon
  <2>1. running \in Jobs /\ running # None
      BY HistoryFacts, Zenon DEF SInv, IInv, ControlInv
  <2>2. ~key_in_flight("other", KeyOf[j])
      BY <1>1 DEF SubmitResults
  <2> QED
      BY <2>1, <2>2, JobFacts, ZenonT(60) DEF key_in_flight
<1>4. /\ Len(accepted) \in Nat /\ Len(delivered) \in Nat
      /\ Len(delivered) <= Len(accepted)
      /\ Len(accepted') = Len(accepted) + 1
      /\ accepted'[Len(accepted) + 1] = j
      /\ \A i \in 1 .. Len(accepted) : accepted'[i] = accepted[i]
    BY <1>1, HistoryFacts, AppendFacts DEF SInv, IInv, TypeOK
<1>5. \A i \in 1 .. Len(accepted') : i = Len(accepted) + 1 \/ i \in 1 .. Len(accepted)
    BY <1>4
<1>6. HeldInv'
  <2>1. cb' # "none" <=> wpc' = "done"
      BY <1>1, Zenon DEF SInv, HeldInv
  <2>2. ASSUME NEW i \in Len(delivered) + 1 .. Len(accepted'),
               cb \in {"entry", "stored", "copied"}
        PROVE  accepted'[i].msg # running.msg
    <3>1. wpc = "done"
        BY <2>2, Zenon DEF SInv, HeldInv
    <3>2. CASE i = Len(accepted) + 1
        BY <1>3, <1>4, <3>1, <3>2, Zenon
    <3>3. CASE i \in 1 .. Len(accepted)
      <4>1. i \in Len(delivered) + 1 .. Len(accepted)
          BY <1>4, <3>3
      <4> QED
          BY <1>4, <2>2, <3>3, <4>1, Zenon DEF SInv, HeldInv
    <3> QED
        BY <1>4, <1>5, <3>2, <3>3
  <2> QED
      BY <1>1, <2>1, <2>2, Zenon DEF HeldInv
<1>7. NumberInv'
  <2>1. ASSUME NEW i \in 1 .. Len(accepted)
        PROVE  accepted[i].n <= tries'[accepted[i].msg]
    <3>1. accepted[i] \in Jobs /\ accepted[i].n <= tries[accepted[i].msg]
        BY HistoryFacts, Zenon DEF SInv, NumberInv
    <3>2. /\ accepted[i].msg \in Msgs /\ accepted[i].n \in Nat
          /\ tries[accepted[i].msg] \in Nat /\ tries \in [Msgs -> Nat]
        BY <3>1, JobFacts, TriesFacts, Zenon DEF SInv
    <3> QED
        BY <3>1, <3>2
  <2>2. j.n <= tries'[j.msg]
      BY <1>0
  <2> QED
      BY <1>4, <1>5, <2>1, <2>2, Zenon DEF NumberInv
<1>8. DoneExactlyOnce'
  <2> SUFFICES ASSUME NEW s \in Sends
               PROVE  done[s] = IF Accepted(s)' /\ ~InFlight(s)' THEN 1 ELSE 0
      BY Zenon DEF DoneExactlyOnce
  <2>1. Ending(s)' <=> Ending(s)
      BY <1>1, Zenon DEF Ending
  <2>2. CASE s = SendOf(j)
    <3>1. InFlight(s)'
      <4>1. Len(accepted) + 1 \in Len(delivered') + 1 .. Len(accepted')
          BY <1>1, <1>4
      <4> QED
          BY <1>4, <2>2, <4>1, Zenon DEF InFlight, Owed
    <3>2. ~Accepted(s)
      <4> SUFFICES ASSUME NEW i \in 1 .. Len(accepted), SendOf(accepted[i]) = s
                   PROVE  FALSE
          BY Zenon DEF Accepted
      <4>1. accepted[i] \in Jobs /\ accepted[i].n <= tries[accepted[i].msg]
          BY HistoryFacts, Zenon DEF SInv, NumberInv
      <4>2. accepted[i].n = j.n /\ accepted[i].msg = j.msg
          BY <2>2, SendInjective
      <4> QED
          BY <1>0, <4>1, <4>2
    <3> QED
        BY <3>1, <3>2, Zenon DEF SInv, DoneExactlyOnce
  <2>3. CASE s # SendOf(j)
    <3>1. Accepted(s)' <=> Accepted(s)
        BY <1>4, <1>5, <2>3 DEF Accepted
    <3>2. Owed(s)' <=> Owed(s)
        BY <1>1, <1>4, <1>5, <2>3 DEF Owed
    <3> QED
        BY <2>1, <3>1, <3>2, Zenon DEF SInv, DoneExactlyOnce, InFlight
  <2> QED
      BY <2>2, <2>3, Zenon
<1> QED
    BY <1>6, <1>7, <1>8 DEF Accounts

(* The ack's callback hands its attempt on to the second stage.            *)
LEMMA ChainStep ==
    ASSUME SInv, wpc = "done", cb = "entry", NEW j \in Jobs,
           j.msg = running.msg, j.n = running.n, SendOf(j) = SendOf(running),
           bm_pow_queue_submit("worker", j), accepted' # accepted,
           UNCHANGED <<done, tries>>, cb' = "return"
    PROVE  Accounts'
<1>1. accepted' = Append(accepted, j) /\ wpc' = "done" /\ UNCHANGED <<delivered, running>>
    BY Zenon DEF bm_pow_queue_submit, Refuse, Enqueue, Broadcast
<1>2. /\ Len(accepted) \in Nat /\ Len(delivered) \in Nat
      /\ Len(delivered) <= Len(accepted)
      /\ Len(accepted') = Len(accepted) + 1
      /\ accepted'[Len(accepted) + 1] = j
      /\ \A i \in 1 .. Len(accepted) : accepted'[i] = accepted[i]
    BY <1>1, HistoryFacts, AppendFacts DEF SInv, IInv, TypeOK
<1>3. \A i \in 1 .. Len(accepted') : i = Len(accepted) + 1 \/ i \in 1 .. Len(accepted)
    BY <1>2
<1>4. /\ Len(delivered) \in 1 .. Len(accepted)
      /\ accepted[Len(delivered)] = running
    BY HistoryFacts DEF SInv, IInv, OrderInv
<1>5. HeldInv'
    BY <1>1, Zenon DEF HeldInv
<1>6. NumberInv'
  <2>1. j.n <= tries[j.msg]
      BY <1>4, Zenon DEF SInv, NumberInv
  <2> QED
      BY <1>2, <1>3, <2>1, Zenon DEF SInv, NumberInv
<1>7. DoneExactlyOnce'
  <2> SUFFICES ASSUME NEW s \in Sends
               PROVE  done[s] = IF Accepted(s)' /\ ~InFlight(s)' THEN 1 ELSE 0
      BY DEF DoneExactlyOnce
  <2>1. CASE s = SendOf(j)
    <3>1. InFlight(s)
        BY <2>1 DEF InFlight, Ending
    <3>2. Len(accepted) + 1 \in Len(delivered') + 1 .. Len(accepted')
        BY <1>1, <1>2
    <3>3. InFlight(s)'
        BY <1>2, <2>1, <3>2 DEF InFlight, Owed
    <3> QED
        BY <3>1, <3>3 DEF SInv, DoneExactlyOnce
  <2>2. CASE s # SendOf(j)
    <3>1. Accepted(s)' <=> Accepted(s)
        BY <1>2, <1>3, <2>2 DEF Accepted
    <3>2. Owed(s)' <=> Owed(s)
        BY <1>1, <1>2, <1>3, <2>2 DEF Owed
    <3>3. ~Ending(s) /\ ~Ending(s)'
        BY <2>2 DEF Ending
    <3> QED
        BY <3>1, <3>2, <3>3 DEF SInv, DoneExactlyOnce, InFlight
  <2> QED
      BY <2>1, <2>2
<1> QED
    BY <1>5, <1>6, <1>7, Zenon DEF Accounts

(* No two owed jobs belong to the same message.                            *)
LEMMA OwedDistinct ==
    ASSUME SInv, NEW i \in Len(delivered) + 1 .. Len(accepted),
           NEW k \in Len(delivered) + 1 .. Len(accepted),
           accepted[i].msg = accepted[k].msg
    PROVE  i = k
<1>1. accepted[i] \in Jobs /\ accepted[k] \in Jobs
    BY HistoryFacts DEF SInv
<1>2. KeyOf[accepted[i]] = KeyOf[accepted[k]] /\ KeyOf[accepted[i]] # NoKey
    BY <1>1, JobFacts, ZenonT(60)
<1> QED
    BY <1>2, Zenon DEF SInv, IInv, NoDuplicateWork

(* The oldest owed job is settled and its callback begins.                 *)
LEMMA BeginStep ==
    ASSUME SInv, wpc = "pow", NEW out, Deliver(running, out), wpc' = "done",
           UNCHANGED <<accepted, running, done, tries>>, cb' = "entry"
    PROVE  Accounts'
<1>1. /\ Len(accepted) \in Nat /\ Len(delivered) \in Nat
      /\ Len(delivered') = Len(delivered) + 1
      /\ Len(delivered) + 1 \in Len(delivered) + 1 .. Len(accepted)
      /\ accepted[Len(delivered) + 1] = running
    BY DEF SInv, IInv, TypeOK, OrderInv, Owing, Deliver
<1>2. \A i \in Len(delivered) + 1 .. Len(accepted) :
          i = Len(delivered) + 1 \/ i \in Len(delivered') + 1 .. Len(accepted)
    BY <1>1
<1>3. \A i \in Len(delivered') + 1 .. Len(accepted) :
          i \in Len(delivered) + 1 .. Len(accepted) /\ i # Len(delivered) + 1
    BY <1>1
<1>4. HeldInv'
    BY <1>1, <1>3, OwedDistinct DEF HeldInv
<1>5. NumberInv'
    BY Zenon DEF SInv, NumberInv
<1>6. ASSUME NEW s \in Sends PROVE InFlight(s)' <=> InFlight(s)
  <2>1. ~Ending(s)
      BY Zenon DEF Ending, SInv, HeldInv
  <2>2. Ending(s)' <=> SendOf(running) = s
      BY DEF Ending
  <2>3. Owed(s) <=> Owed(s)' \/ SendOf(running) = s
      BY <1>1, <1>2, <1>3 DEF Owed
  <2> QED
      BY <2>1, <2>2, <2>3 DEF InFlight
<1>7. DoneExactlyOnce'
    BY <1>6 DEF SInv, DoneExactlyOnce, Accepted
<1> QED
    BY <1>4, <1>5, <1>7 DEF Accounts

(* The callback reports the end of its attempt.                            *)
LEMMA ReportStep ==
    ASSUME SInv, wpc = "done", cb \in {"entry", "stored", "copied"},
           Report(SendOf(running)), wpc' = "done", cb' = "return",
           UNCHANGED <<accepted, delivered, running, tries>>
    PROVE  Accounts'
<1>1. running \in Jobs /\ SendOf(running) \in Sends
    BY HistoryFacts, JobFacts, ZenonT(60) DEF SInv
<1>2. HeldInv' /\ NumberInv'
    BY Zenon DEF SInv, HeldInv, NumberInv
<1>3. /\ Len(delivered) \in 1 .. Len(accepted)
      /\ accepted[Len(delivered)] = running
    BY HistoryFacts DEF SInv, IInv, OrderInv
<1>4. DoneExactlyOnce'
  <2> SUFFICES ASSUME NEW s \in Sends
               PROVE  done'[s] = IF Accepted(s)' /\ ~InFlight(s)' THEN 1 ELSE 0
      BY DEF DoneExactlyOnce
  <2>0. done \in [Sends -> Nat] /\ done' = [done EXCEPT ![SendOf(running)] = @ + 1]
      BY Zenon DEF SInv, SendTypeOK, Report
  <2>1. ~Ending(s)' /\ (Owed(s)' <=> Owed(s)) /\ (Accepted(s)' <=> Accepted(s))
      BY DEF Ending, Owed, Accepted
  <2>2. CASE s = SendOf(running)
    <3>1. InFlight(s) /\ Accepted(s)
        BY <1>3, <2>2, Zenon DEF InFlight, Ending, Accepted
    <3>2. ~Owed(s)
        BY <2>2, SendInjective DEF Owed, SInv, HeldInv
    <3>3. done[s] = 0
        BY <3>1 DEF SInv, DoneExactlyOnce
    <3> QED
        BY <2>0, <2>1, <2>2, <3>1, <3>2, <3>3 DEF InFlight
  <2>3. CASE s # SendOf(running)
    <3>1. ~Ending(s)
        BY <2>3 DEF Ending
    <3>2. done'[s] = done[s]
        BY <2>0, <2>3
    <3> QED
        BY <2>1, <3>1, <3>2, Zenon DEF SInv, DoneExactlyOnce, InFlight
  <2> QED
      BY <2>2, <2>3
<1> QED
    BY <1>2, <1>4 DEF Accounts

(* The worker leaves the callback, or enters or leaves its loop.           *)
LEMMA WorkerStep ==
    ASSUME SInv, cb \in {"none", "return"}, cb' = "none", wpc' # "done",
           UNCHANGED <<accepted, delivered, done, tries>>
    PROVE  Accounts'
<1>1. HeldInv' /\ NumberInv'
    BY DEF SInv, HeldInv, NumberInv
<1>2. ASSUME NEW s \in Sends PROVE (Owed(s)' <=> Owed(s)) /\ ~Ending(s)' /\ ~Ending(s)
                                   /\ (Accepted(s)' <=> Accepted(s))
    BY DEF Owed, Ending, Accepted
<1>3. DoneExactlyOnce'
    BY <1>2 DEF SInv, DoneExactlyOnce, InFlight
<1> QED
    BY <1>1, <1>3 DEF Accounts

(* The shutting-down thread settles the oldest owed job and reports it.    *)
LEMMA DiscardReports ==
    ASSUME SInv, ShutdownDiscard, Report(SendOf(Head(doomed))),
           UNCHANGED <<cb, tries>>
    PROVE  Accounts'
<1>1. /\ doomed \in Seq(Jobs) /\ doomed # <<>> /\ wpc = "exited" /\ Owing = 0
      /\ Len(waiting) = 0
    BY DEF ShutdownDiscard, SInv, IInv, TypeOK, ControlInv, Owing
<1>2. /\ Head(doomed) = accepted[Len(delivered) + 1] /\ Len(delivered) < Len(accepted)
      /\ Len(accepted) \in Nat /\ Len(delivered) \in Nat
    BY <1>1, TailFacts DEF SInv, IInv, TypeOK, OrderInv
<1> DEFINE r == Head(doomed)
<1>3. /\ Len(delivered') = Len(delivered) + 1
      /\ UNCHANGED <<accepted, running>> /\ wpc' = wpc
    BY <1>2 DEF ShutdownDiscard, Deliver, qvars, SInv, IInv, TypeOK
<1>4. r \in Jobs /\ SendOf(r) \in Sends
    BY <1>1, TailFacts, JobFacts, ZenonT(60)
<1>5. cb = "none"
    BY <1>1 DEF SInv, HeldInv
<1>6. HeldInv' /\ NumberInv'
    BY <1>1, <1>3, <1>5, Zenon DEF SInv, HeldInv, NumberInv
<1>7. DoneExactlyOnce'
  <2> SUFFICES ASSUME NEW s \in Sends
               PROVE  done'[s] = IF Accepted(s)' /\ ~InFlight(s)' THEN 1 ELSE 0
      BY DEF DoneExactlyOnce
  <2>0. done \in [Sends -> Nat] /\ done' = [done EXCEPT ![SendOf(r)] = @ + 1]
      BY DEF SInv, SendTypeOK, Report
  <2>1. ~Ending(s)' /\ ~Ending(s) /\ (Accepted(s)' <=> Accepted(s))
      BY <1>3, <1>5 DEF Ending, Accepted
  <2>2. \A i \in Len(delivered') + 1 .. Len(accepted) :
            i \in Len(delivered) + 1 .. Len(accepted) /\ i # Len(delivered) + 1
      BY <1>2, <1>3
  <2>3. \A i \in Len(delivered) + 1 .. Len(accepted) :
            i = Len(delivered) + 1 \/ i \in Len(delivered') + 1 .. Len(accepted)
      BY <1>2, <1>3
  <2>4. Len(delivered) + 1 \in Len(delivered) + 1 .. Len(accepted)
      BY <1>2
  <2>5. CASE s = SendOf(r)
    <3>1. Owed(s) /\ Accepted(s)
        BY <1>2, <2>4, <2>5 DEF Owed, Accepted
    <3>2. ~Owed(s)'
      <4> SUFFICES ASSUME NEW i \in Len(delivered') + 1 .. Len(accepted),
                          SendOf(accepted[i]) = SendOf(r)
                   PROVE  FALSE
          BY <1>3, <2>5 DEF Owed
      <4>1. accepted[i].msg = accepted[Len(delivered) + 1].msg
          BY <1>2, SendInjective
      <4> QED
          BY <2>2, <2>4, <4>1, OwedDistinct
    <3>3. done[s] = 0
        BY <3>1 DEF SInv, DoneExactlyOnce, InFlight
    <3> QED
        BY <2>0, <2>1, <2>5, <3>1, <3>2, <3>3 DEF InFlight
  <2>6. CASE s # SendOf(r)
    <3>1. Owed(s)' <=> Owed(s)
        BY <1>2, <1>3, <2>2, <2>3, <2>6 DEF Owed
    <3>2. done'[s] = done[s]
        BY <2>0, <2>6
    <3> QED
        BY <2>1, <3>1, <3>2, Zenon DEF SInv, DoneExactlyOnce, InFlight
  <2> QED
      BY <2>5, <2>6
<1> QED
    BY <1>6, <1>7 DEF Accounts

(* The process begins anew: nothing is in flight.                          *)
NothingBegun ==
    /\ accepted = <<>> /\ delivered = <<>> /\ cb = "none" /\ wpc = "start"
    /\ done = [s \in Sends |-> 0]
LEMMA EmptyAccounts == NothingBegun => Accounts
<1> SUFFICES ASSUME NothingBegun PROVE Accounts
    OBVIOUS
<1> USE DEF NothingBegun
<1>1. Len(accepted) = 0 /\ Len(delivered) = 0
    OBVIOUS
<1>2. HeldInv /\ NumberInv
    BY <1>1 DEF HeldInv, NumberInv
<1>3. \A s \in Sends : ~Accepted(s)
    BY <1>1 DEF Accepted
<1>4. DoneExactlyOnce
    BY <1>3 DEF DoneExactlyOnce
<1> QED
    BY <1>2, <1>4 DEF Accounts

-----------------------------------------------------------------------------
LEMMA InitSInv == SendInit => SInv
<1> SUFFICES ASSUME SendInit PROVE SInv
    OBVIOUS
<1>1. IInv
    BY InitIInv DEF SendInit
<1>2. SendTypeOK
  <2>1. NoRow \in Rows
      BY NumberAssumption DEF NoRow, Rows, Statuses
  <2> QED
      BY <1>1, <2>1, NumberAssumption DEF SendInit, SendTypeOK, IInv
<1>3. Accounts
    BY EmptyAccounts DEF SendInit, Init, NothingBegun
<1> QED
    BY <1>1, <1>2, <1>3 DEF SInv, Accounts

(* The types of the pipeline's own variables.                              *)
LEMMA TypeStep ==
    ASSUME SInv, [SendNext]_allvars
    PROVE  SendTypeOK'
<1>0. TypeOK' /\ IInv'
    BY QueueStep DEF SInv, IInv
<1>1. wpc = "done" => running \in Jobs /\ running.msg \in Msgs
                      /\ running.n \in 1 .. MaxSends /\ SendOf(running) \in Sends
    BY HistoryFacts, JobFacts, JobAssumption, ZenonT(60) DEF SInv
<1>2. cb \in {"entry", "stored", "copied", "return"} => wpc = "done"
    BY DEF SInv, HeldInv
<1>3. CASE Restart
    BY <1>0, <1>3, NumberAssumption DEF Restart, SInv, SendTypeOK, store
<1>4. CASE \/ UNCHANGED svars
           \/ QueueRuns \/ ShutDown \/ BeginCallback \/ EndCallback
    BY <1>0, <1>4, Zenon DEF svars, store, QueueRuns, ShutDown, BeginCallback, EndCallback,
                      SInv, SendTypeOK
<1>5. ASSUME NEW s \in Sends, Report(s)
      PROVE  done' \in [Sends -> Nat]
    BY <1>5 DEF Report, SInv, SendTypeOK
<1>6. CASE Discard
  <2>1. Head(doomed) \in Jobs
      BY <1>6, TailFacts, Zenon DEF Discard, ShutdownDiscard, SInv, IInv, TypeOK
  <2>2. done' \in [Sends -> Nat]
      BY <1>5, <1>6, <2>1, JobFacts, ZenonT(60) DEF Discard
  <2> QED
      BY <1>0, <1>6, <2>2, Zenon DEF Discard, store, SInv, SendTypeOK
<1>7. CASE AckFailed \/ AckPowDone \/ MsgFailed
  <2>1. done' \in [Sends -> Nat]
    <3>1. done' = done \/ Report(SendOf(running))
        BY <1>7, Zenon DEF AckFailed, AckPowDone, MsgFailed
    <3>2. wpc = "done"
        BY <1>7, ZenonT(60) DEF AckFailed, AckPowDone, MsgFailed, InCallback
    <3> QED
        BY <1>1, <1>5, <3>1, <3>2 DEF SInv, SendTypeOK
  <2> QED
      BY <1>0, <1>7, <2>1, ZenonT(60)
         DEF AckFailed, AckPowDone, MsgFailed, store, SInv, SendTypeOK
<1>8. CASE MsgReported
  <2>1. wpc = "done"
      BY <1>2, <1>8 DEF MsgReported
  <2>2. done' \in [Sends -> Nat] /\ handed' \subseteq Sends
      BY <1>1, <1>5, <1>8, <2>1, Zenon DEF MsgReported, SInv, SendTypeOK
  <2> QED
      BY <1>0, <1>8, <2>2, Zenon DEF MsgReported, store, SInv, SendTypeOK
<1>9. CASE MsgStored
  <2>1. running.msg \in Msgs /\ running.n \in 1 .. MaxSends
      BY <1>1, <1>9, Zenon DEF MsgStored, InCallback
  <2>2. rows' \in [Msgs -> Rows]
    <3>1. rows \in [Msgs -> Rows]
        BY DEF SInv, SendTypeOK
    <3> DEFINE m == running.msg
    <3>2. PICK new : new \in Rows /\ rows' = [rows EXCEPT ![m] = new]
      <4> DEFINE new == [status |-> IF m \in SelfMsgs THEN "msgsentnoackexpected" ELSE "sent",
                         ack    |-> IF m \in SelfMsgs THEN 0 ELSE running.n,
                         count  |-> IF rows[m].status = "none" THEN 0 ELSE rows[m].count + 1,
                         due    |-> FALSE]
      <4>1. rows[m].count \in Nat
          BY <2>1, <3>1 DEF Rows
      <4>2. new \in Rows
          BY <2>1, <4>1, NumberAssumption DEF Rows, Statuses
      <4>3. rows' = [rows EXCEPT ![m] = new]
          BY <1>9, Zenon DEF MsgStored, bm_messages_store_insert_sent
      <4> QED
          BY <4>2, <4>3, ZenonT(60)
    <3> QED
        BY <2>1, <3>1, <3>2
  <2> QED
      BY <1>0, <1>9, <2>2, Zenon DEF MsgStored, SInv, SendTypeOK
<1>10. CASE InboxCopy
  <2>1. inbox' \subseteq Sends
      BY <1>1, <1>2, <1>10, Zenon DEF InboxCopy, SInv, SendTypeOK
  <2> QED
      BY <1>0, <1>10, <2>1, Zenon DEF InboxCopy, SInv, SendTypeOK
<1>11. CASE bm_object_sync_check_resends \/ \E m \in Msgs : ResendSkipped(m)
    BY <1>0, <1>11, Zenon DEF bm_object_sync_check_resends, ResendSkipped, Candidates,
                       store, SInv, SendTypeOK
<1>12. CASE \E m \in Msgs : SendMessage(m) \/ Resend(m)
  <2>1. PICK m \in Msgs : SendMessage(m) \/ Resend(m)
      BY <1>12
  <2>2. tries' \in [Msgs -> 0 .. MaxSends]
      BY <2>1, NumberAssumption DEF SendMessage, Resend, SInv, SendTypeOK,
                                    bm_send_pipeline_send_message_async
  <2> QED
      BY <1>0, <2>1, <2>2, Zenon DEF SendMessage, Resend, store, SInv, SendTypeOK
<1>13. CASE \E s \in Sends : bm_messages_store_try_mark_ack_received(s)
  <2>1. PICK s \in Sends : bm_messages_store_try_mark_ack_received(s)
      BY <1>13
  <2>2. s[1] \in Msgs
      BY DEF Sends
  <2>3. rows' \in [Msgs -> Rows]
      BY <2>1, <2>2 DEF bm_messages_store_try_mark_ack_received, SInv, SendTypeOK,
                        Rows, Statuses
  <2> QED
      BY <1>0, <2>1, <2>2, <2>3 DEF bm_messages_store_try_mark_ack_received, SInv,
                                    SendTypeOK
<1>14. CASE \E m \in Msgs : Overdue(m)
  <2>1. rows' \in [Msgs -> Rows]
    <3>1. rows \in [Msgs -> Rows]
        BY DEF SInv, SendTypeOK
    <3>2. PICK m \in Msgs : rows' = [rows EXCEPT ![m].due = TRUE]
        BY <1>14, Zenon DEF Overdue
    <3>3. [rows[m] EXCEPT !.due = TRUE] \in Rows
        BY <3>1, Zenon DEF Rows
    <3> QED
        BY <3>1, <3>2, <3>3
  <2> QED
      BY <1>0, <1>14, <2>1 DEF Overdue, SInv, SendTypeOK
<1> QED
    BY <1>3, <1>4, <1>6, <1>7, <1>8, <1>9, <1>10, <1>11, <1>12, <1>13, <1>14
       DEF SendNext, Callback, allvars

LEMMA NextSInv == SInv /\ [SendNext]_allvars => SInv'
<1> SUFFICES ASSUME SInv, [SendNext]_allvars PROVE SInv'
    OBVIOUS
<1>1. IInv' /\ SendTypeOK'
    BY QueueStep, TypeStep DEF SInv
<1>2. wpc = "done" => running \in Jobs
    BY HistoryFacts DEF SInv
<1>3. cb \in {"entry", "stored", "copied", "return"} => wpc = "done"
    BY DEF SInv, HeldInv
<1> USE DEF store, qvars, hist
<1>4. CASE Restart
  <2>1. NothingBegun'
      BY <1>4, Zenon DEF Restart, NothingBegun
  <2>2. Accounts'
      BY <2>1, EmptyAccounts, PTL
  <2> QED
      BY <1>1, <2>2 DEF SInv, Accounts
<1>5. CASE UNCHANGED <<vars, cb, done, tries>>
  <2>1. Accounts'
      BY <1>5, QuietStep DEF vars
  <2> QED
      BY <1>1, <2>1 DEF SInv, Accounts
<1>6. ASSUME NEW m \in Msgs, bm_send_pipeline_send_message_async(m), UNCHANGED <<done, cb>>
      PROVE  Accounts'
  <2> DEFINE j == FirstStage(m)
  <2>1. /\ j \in Jobs /\ j.msg = m /\ j.n = tries[m] + 1
        /\ bm_pow_queue_submit("other", j)
      BY <1>6, FirstStageFacts, Zenon DEF bm_send_pipeline_send_message_async, SInv
  <2>2. KeyOf[j] = j.msg /\ KeyOf[j] # NoKey
      BY <2>1, JobFacts, Zenon
  <2>3. CASE accepted' # accepted
    <3>1. tries' = [tries EXCEPT ![j.msg] = @ + 1]
        BY <1>6, <2>1, <2>3, Zenon DEF bm_send_pipeline_send_message_async
    <3> HIDE DEF j
    <3> QED
        BY <1>6, <2>1, <2>2, <2>3, <3>1, AcceptStep, ZenonT(60)
  <2>4. CASE accepted' = accepted
    <3>1. UNCHANGED tries
        BY <1>6, <2>4, Zenon DEF bm_send_pipeline_send_message_async, SInv, SendTypeOK
    <3>2. UNCHANGED <<delivered, running>> /\ (wpc' = "done" <=> wpc = "done")
        BY <2>1, Zenon DEF bm_pow_queue_submit, Enqueue, Refuse, Broadcast
    <3> QED
        BY <1>6, <2>4, <3>1, <3>2, QuietStep, Zenon
  <2> QED
      BY <2>3, <2>4
<1>7. CASE AckPowDone
  <2> SUFFICES Accounts'
      BY <1>1 DEF SInv, Accounts
  <2> DEFINE j == [running EXCEPT !.stage = "msg"]
  <2>1. wpc = "done" /\ cb = "entry" /\ running \in Jobs
      BY <1>2, <1>7 DEF AckPowDone, InCallback
  <2>2. /\ j \in Jobs /\ SendOf(j) = SendOf(running)
        /\ j.msg = running.msg /\ j.n = running.n
      BY <2>1, JobFacts
  <2>3. bm_pow_queue_submit("worker", j) /\ UNCHANGED tries /\ cb' = "return"
      BY <1>7 DEF AckPowDone
  <2>4. CASE accepted' # accepted
    <3>1. UNCHANGED done
        BY <1>7, <2>4 DEF AckPowDone
    <3> HIDE DEF j
    <3> QED
        BY <2>1, <2>2, <2>3, <2>4, <3>1, ChainStep, Zenon
  <2>5. CASE accepted' = accepted
    <3>1. Report(SendOf(running))
        BY <1>7, <2>5 DEF AckPowDone
    <3>2. UNCHANGED <<delivered, running>> /\ wpc' = "done"
        BY <2>1, <2>3 DEF bm_pow_queue_submit, Enqueue, Refuse, Broadcast
    <3> QED
        BY <2>1, <2>3, <2>5, <3>1, <3>2, ReportStep
  <2> QED
      BY <2>4, <2>5
<1>8. CASE AckFailed \/ MsgFailed \/ MsgReported
  <2>1. /\ wpc = "done" /\ cb \in {"entry", "stored", "copied"}
        /\ Report(SendOf(running)) /\ cb' = "return" /\ UNCHANGED <<vars, tries>>
      BY <1>3, <1>8, ZenonT(60) DEF AckFailed, MsgFailed, MsgReported, InCallback
  <2>2. Accounts'
      BY <2>1, ReportStep, Zenon DEF vars
  <2> QED
      BY <1>1, <2>2 DEF SInv, Accounts
<1>9. CASE MsgStored \/ InboxCopy
  <2>1. /\ cb \in {"entry", "stored"} /\ cb' \in {"stored", "copied"}
        /\ UNCHANGED <<vars, done, tries>>
      BY <1>9, Zenon DEF MsgStored, InboxCopy, InCallback
  <2>2. Accounts'
      BY <2>1, QuietStep DEF vars
  <2> QED
      BY <1>1, <2>2 DEF SInv, Accounts
<1>10. CASE BeginCallback
  <2>1. PICK out : /\ Deliver(running, out) /\ wpc = "pow" /\ wpc' = "done"
                   /\ UNCHANGED <<accepted, running>>
      BY <1>10 DEF BeginCallback, PowFound, PowCancelled
  <2>2. UNCHANGED <<done, tries>> /\ cb' = "entry"
      BY <1>10 DEF BeginCallback
  <2>3. Accounts'
      BY <2>1, <2>2, BeginStep
  <2> QED
      BY <1>1, <2>3 DEF SInv, Accounts
<1>11. CASE EndCallback \/ (WorkerEnter /\ UNCHANGED svars)
  <2>1. /\ cb \in {"none", "return"} /\ cb' = "none" /\ wpc' # "done"
        /\ UNCHANGED <<accepted, delivered, done, tries>>
      BY <1>11, Zenon DEF EndCallback, WorkerEnter, WorkerFinish, LoopHead, svars, SInv,
                   SendTypeOK, HeldInv
  <2>2. Accounts'
      BY <2>1, WorkerStep
  <2> QED
      BY <1>1, <2>2 DEF SInv, Accounts
<1>12. CASE /\ SpuriousWakeup \/ ShutdownJoin \/ ShutdownReturn \/ bm_pow_queue_shutdown
            /\ UNCHANGED svars
  <2>1. /\ UNCHANGED <<accepted, delivered, done, tries, running, cb>>
        /\ wpc' = "done" <=> wpc = "done"
      BY <1>12, Zenon DEF SpuriousWakeup, ShutdownJoin, ShutdownReturn,
                   bm_pow_queue_shutdown, Broadcast, svars
  <2>2. Accounts'
      BY <2>1, QuietStep, Zenon
  <2> QED
      BY <1>1, <2>2 DEF SInv, Accounts
<1>13. CASE Discard
  <2>1. Accounts'
      BY <1>13, DiscardReports DEF Discard
  <2> QED
      BY <1>1, <2>1 DEF SInv, Accounts
<1>14. CASE \E m \in Msgs : SendMessage(m) \/ Resend(m)
  <2>1. Accounts'
      BY <1>6, <1>14, Zenon DEF SendMessage, Resend
  <2> QED
      BY <1>1, <2>1 DEF SInv, Accounts
<1>15. CASE \/ bm_object_sync_check_resends
            \/ \E m \in Msgs : ResendSkipped(m) \/ Overdue(m)
            \/ \E s \in Sends : bm_messages_store_try_mark_ack_received(s)
            \/ UNCHANGED allvars
    BY <1>5, <1>15, ZenonT(60) DEF bm_object_sync_check_resends, ResendSkipped, Overdue,
                       bm_messages_store_try_mark_ack_received, allvars, svars
<1> QED
    BY <1>4, <1>7, <1>8, <1>9, <1>10, <1>11, <1>12, <1>13, <1>14, <1>15, Zenon
       DEF SendNext, Callback, QueueRuns, ShutDown

LEMMA AlwaysSInv == SendSpec => []SInv
BY InitSInv, NextSInv, PTL DEF SendSpec

(* The pipeline keeps the types of its variables and the invariants of the *)
(* queue it drives, through restarts.                                      *)
THEOREM PipelineTypes == SendSpec => [](SendTypeOK /\ IInv)
BY AlwaysSInv, PTL DEF SInv

(* send_pipeline.h: every accepted attempt calls done exactly once.        *)
THEOREM ReportedOnce == SendSpec => []DoneExactlyOnce
BY AlwaysSInv, PTL DEF SInv

(* send_pipeline.c: the dedup key keeps the attempts for one row apart.    *)
THEOREM AttemptsApart == SendSpec => []OneAttemptAtATime
<1>1. SInv => OneAttemptAtATime
  <2> SUFFICES ASSUME SInv, NEW s \in Sends, NEW t \in Sends, s[1] = t[1],
                      InFlight(s), InFlight(t)
               PROVE  s = t
      BY DEF OneAttemptAtATime
  <2>1. ASSUME NEW a \in Sends, NEW b \in Sends, a[1] = b[1], Owed(a), Owed(b)
        PROVE  a = b
    <3>1. PICK i \in Len(delivered) + 1 .. Len(accepted) : SendOf(accepted[i]) = a
        BY <2>1, Zenon DEF Owed
    <3>2. PICK k \in Len(delivered) + 1 .. Len(accepted) : SendOf(accepted[k]) = b
        BY <2>1, Zenon DEF Owed
    <3>3. accepted[i].msg = accepted[k].msg
        BY <2>1, <3>1, <3>2, Zenon DEF SendOf
    <3> QED
        BY <3>1, <3>2, <3>3, OwedDistinct
  <2>2. ASSUME NEW a \in Sends, NEW b \in Sends, a[1] = b[1], Owed(a), Ending(b)
        PROVE  FALSE
    <3>1. PICK i \in Len(delivered) + 1 .. Len(accepted) : SendOf(accepted[i]) = a
        BY <2>2, Zenon DEF Owed
    <3>2. accepted[i].msg = running.msg
        BY <2>2, <3>1, Zenon DEF Ending, SendOf
    <3> QED
        BY <2>2, <3>1, <3>2, Zenon DEF SInv, HeldInv, Ending
  <2> QED
      BY <2>1, <2>2, Zenon DEF InFlight, Ending
<1> QED
    BY <1>1, AlwaysSInv, PTL
=============================================================================
