--------------------------- MODULE ObjectExchange ---------------------------
(***************************************************************************)
(* The exchange of objects with a peer: inv, getdata and object of         *)
(* src/infra/object_sync.c, the pool of src/infra/object_store.c with its  *)
(* collection of expired objects, and the inv in chunks of                 *)
(* src/infra/network.c.  All handlers run in the network thread; the other *)
(* threads add bytes to the connection's send queue between its steps.     *)
(*                                                                         *)
(* The uploads a peer waits for are kept in an array with head, count and  *)
(* capacity, which grows by doubling.  A request is known by its number;   *)
(* Wants says which object it names.  The send queue counts packets.       *)
(*                                                                         *)
(* An operator X_Suffix just before X is a wrong form of X that no action  *)
(* uses, named for the slip it makes.                                      *)
(***************************************************************************)
EXTENDS Integers, Sequences, FiniteSets, Functions

CONSTANTS
    Objects,
    Expires,      \* expires_time of an object
    AckOf,        \* the ack object that a message carries, or None
    Wants,        \* the objects the peer asks for, in order
    Limit,        \* BM_MAX_INVENTORY_ITEMS
    FirstCap,     \* the first capacity of the array, 64
    Chunk,        \* BM_BIG_INV_CHUNK_SIZE
    Threshold,    \* BM_UPLOAD_REFILL_THRESHOLD_BYTES
    QueueLimit,   \* what the send queue takes before the peer is evicted
    AcceptGrace,  \* BM_OBJECT_EXPIRE_GRACE_PERIOD_SECONDS
    GcGrace,      \* BM_OBJECT_GC_GRACE_PERIOD_SECONDS
    MaxTime, MaxOther, \* bounds: the clock, and the packets other than uploads
    None

(* Objects are kept for longer than they are accepted.                     *)
ASSUME GraceAssumption ==
    AcceptGrace \in Nat /\ GcGrace \in Nat /\ AcceptGrace <= GcGrace
ASSUME ObjectAssumption ==
    /\ Expires \in [Objects -> Int] /\ None \notin Objects
    /\ AckOf \in [Objects -> Objects \cup {None}] /\ Wants \in Seq(Objects)
(* The pool is finite, and a listing of it is not taken for a missing one. *)
ASSUME ListAssumption ==
    \A shown \in SUBSET Objects :
        /\ Cardinality(shown) \in Nat /\ shown # None
        /\ \A l \in Bijection(1 .. Cardinality(shown), shown) : l # None
ASSUME SizeAssumption ==
    /\ FirstCap \in Nat \ {0} /\ Limit \in Nat \ {0} /\ Chunk \in Nat \ {0}
    /\ QueueLimit \in Nat /\ MaxTime \in Nat

VARIABLES
    now,
    pool,       \* hashes in object_pool.db
    coming,     \* how often an object is on its way to the node
    handled,    \* how often an object went to the handler of its type
    arr,        \* upload_pending, by index
    head, count, cap,
    asked,      \* how many objects the peer has asked for
    refilling,  \* the network thread is in the loop of refill_uploads
    list,       \* pending_inv_hashes, or None
    invSent,       \* pending_inv_sent
    advertised, \* hashes the peer got by the big inv
    offered,    \* what the big inv is to tell, or None before the verack
    out,        \* packets in the send queue
    others,     \* packets sent by other threads and by handle_inv
    evicted,    \* pending_eviction
    open        \* the connection exists

store == <<now, pool, coming, handled>>
upload == <<arr, head, count, cap, asked>>
biginv == <<list, invSent, advertised, offered>>
conn == <<out, evicted, open>>
vars == <<store, upload, refilling, biginv, conn, others>>

Pending == [i \in 1 .. count |-> arr[head + i - 1]]

ExchangeTypeOK ==
    /\ now \in 0 .. MaxTime /\ pool \subseteq Objects
    /\ coming \in [Objects -> Nat] /\ handled \in [Objects -> Nat]
    /\ DOMAIN arr = 0 .. cap - 1 /\ head + count <= cap
    /\ asked \in 0 .. Len(Wants) /\ out \in 0 .. QueueLimit
    /\ list = None \/ invSent \in 0 .. Len(list) - 1

Init ==
    /\ now = 0 /\ pool \in SUBSET {o \in Objects : Expires[o] > 0}
    /\ coming = [o \in Objects |-> 0]
    /\ handled = [o \in Objects |-> IF o \in pool THEN 1 ELSE 0]
    /\ arr = <<>> /\ head = 0 /\ count = 0 /\ cap = 0 /\ asked = 0
    /\ refilling = FALSE
    /\ list = None /\ invSent = 0 /\ advertised = {} /\ offered = None
    /\ out = 0 /\ others = 0 /\ evicted = FALSE /\ open = TRUE

(* The network thread is between two events.                               *)
Idle == ~ refilling

Tick ==
    /\ now < MaxTime /\ now' = now + 1
    /\ UNCHANGED <<pool, coming, handled, upload, refilling, biginv, conn, others>>

-----------------------------------------------------------------------------
(* The send queue: a packet is written at once, queued, or one too many.   *)

bm_network_send(rc) ==
    /\ UNCHANGED open
    /\ \/ rc = "failed" /\ (evicted \/ out = QueueLimit)
          /\ evicted' = TRUE /\ UNCHANGED out
       \/ rc = "ok" /\ ~ evicted /\ out < QueueLimit
          /\ out' \in {out + 1} \cup (IF out = 0 THEN {0} ELSE {})
          /\ UNCHANGED evicted

Results == {"ok", "failed"}

OtherSend ==
    /\ open /\ others < MaxOther /\ others' = others + 1
    /\ \E rc \in Results : bm_network_send(rc)
    /\ UNCHANGED <<store, upload, refilling, biginv>>

close_connection ==
    /\ open' = FALSE /\ out' = 0
    /\ arr' = <<>> /\ head' = 0 /\ count' = 0 /\ cap' = 0 /\ list' = None
    /\ UNCHANGED <<store, asked, refilling, invSent, advertised, offered, evicted,
                   others>>

-----------------------------------------------------------------------------
(* Receiving objects.                                                      *)

bm_object_store_has(o) == o \in pool

(* What the peer has and the node lacks is asked for.  A list that is too  *)
(* long is ignored, here and in handle_getdata.                            *)
handle_inv(items) ==
    /\ Idle /\ open /\ others < MaxOther /\ others' = others + 1
    /\ Cardinality(items) <= Limit
    /\ LET missing == {o \in items : ~ bm_object_store_has(o)}
       IN  /\ missing # {}
           /\ \E rc \in Results :
               /\ bm_network_send(rc)
               /\ coming' = IF rc = "ok"
                              THEN [o \in Objects |->
                                      IF o \in missing THEN coming[o] + 1 ELSE coming[o]]
                              ELSE coming
    /\ UNCHANGED <<now, pool, handled, upload, refilling, biginv>>

Accepted(o) == Expires[o] >= now - AcceptGrace

object_pow_is_valid(valid) == valid

(* The ack in a message is an object too, stored and passed on.            *)
validate_and_store_ack(stored, ack, valid) ==
    IF ack # None /\ Accepted(ack) /\ object_pow_is_valid(valid)
      THEN stored \cup {ack} ELSE stored

handle_object(o, valid, opened) ==
    /\ Idle /\ coming[o] > 0 /\ coming' = [coming EXCEPT ![o] = @ - 1]
    /\ IF Accepted(o) /\ object_pow_is_valid(valid) /\ ~ bm_object_store_has(o)
         THEN /\ pool' = validate_and_store_ack(pool \cup {o},
                                IF opened THEN AckOf[o] ELSE None, valid)
              /\ handled' = [handled EXCEPT ![o] = @ + 1]
         ELSE UNCHANGED <<pool, handled>>
    /\ UNCHANGED <<now, upload, refilling, biginv, conn, others>>

bm_object_store_delete_expired(before) == {o \in pool : Expires[o] >= before}

bm_object_sync_gc_NoGrace ==
    /\ Idle /\ pool' = bm_object_store_delete_expired(now)
    /\ UNCHANGED <<now, coming, handled, upload, refilling, biginv, conn, others>>

(* Every 300 seconds, from the network thread.                             *)
bm_object_sync_gc ==
    /\ Idle /\ pool' = bm_object_store_delete_expired(now - GcGrace)
    /\ UNCHANGED <<now, coming, handled, upload, refilling, biginv, conn, others>>

-----------------------------------------------------------------------------
(* Uploading objects.                                                      *)

(* The capacity doubles until it is enough.                                *)
Grown(need) ==
    LET base == IF cap > 0 THEN cap ELSE FirstCap
    IN  IF need <= cap THEN {cap}
        ELSE {c \in base .. base + 2 * need :
                /\ \E i \in 0 .. need : c = base * 2 ^ i
                /\ need <= c /\ (c = base \/ c < 2 * need)}

(* The array a, of which count entries from h on are pending, takes k more.*)
Put(a, h, c, k) ==
    /\ arr' = [i \in 0 .. c - 1 |->
                  IF i \in h + count .. h + count + k - 1
                    THEN asked + i - h - count + 1
                    ELSE IF i \in DOMAIN a THEN a[i] ELSE 0]
    /\ head' = h /\ cap' = c /\ count' = count + k

(* Append k requests; h is the head after the entries have moved to the    *)
(* front, if they must, and c the capacity after the array has grown.      *)
upload_pending_append_NoMove(k, memory) ==
    LET h == IF head + count + k > cap THEN 0 ELSE head
    IN  \E c \in Grown(h + count + k) :
        IF c = cap \/ memory THEN Put(arr, h, c, k) ELSE Put(arr, h, cap, 0)

upload_pending_append(k, memory) ==
    LET h == IF head + count + k > cap THEN 0 ELSE head
        moved == [i \in DOMAIN arr |-> IF i < count THEN arr[i + head - h] ELSE arr[i]]
    IN  \E c \in Grown(h + count + k) :
        IF c = cap \/ memory THEN Put(moved, h, c, k) ELSE Put(moved, h, cap, 0)

handle_getdata(n) ==
    /\ Idle /\ open /\ asked + n <= Len(Wants) /\ asked' = asked + n
    /\ LET room == IF count < Limit THEN Limit - count ELSE 0
           accepted == IF n < room THEN n ELSE room
       IN  IF n > Limit
             THEN UNCHANGED <<arr, head, count, cap, refilling>>
             ELSE /\ \E memory \in BOOLEAN : upload_pending_append(accepted, memory)
                  /\ refilling' = (count' > 0)
    /\ UNCHANGED <<store, biginv, conn, others>>

bm_object_store_get(o) == o \in pool

(* One turn of the loop: the first request is taken, and the object sent   *)
(* if the pool still has it and there is memory for the packet.  A         *)
(* connection that takes no more is given up.                              *)
RefillTurn ==
    /\ refilling /\ count > 0 /\ ~ evicted /\ out < Threshold
    /\ head' = head + 1
    /\ \/ /\ bm_object_store_get(Wants[arr[head]])
          /\ \E rc \in Results :
                /\ bm_network_send(rc)
                /\ count' = IF rc = "ok" THEN count - 1 ELSE 0
       \/ count' = count - 1 /\ UNCHANGED conn
    /\ UNCHANGED <<store, arr, cap, asked, refilling, biginv, others>>

RefillDone_LeavesLast == refilling /\ (count <= 1 \/ evicted \/ out >= Threshold)

RefillDone == refilling /\ (count = 0 \/ evicted \/ out >= Threshold)

bm_object_sync_refill_uploads ==
    \/ RefillTurn
    \/ /\ RefillDone /\ refilling' = FALSE
       /\ head' = IF count = 0 THEN 0 ELSE head
       /\ UNCHANGED <<store, arr, count, cap, asked, biginv, conn, others>>

-----------------------------------------------------------------------------
(* Advertising the pool to a new peer.                                     *)

send_inv_chunk_SkipsOne(l, t) ==
    LET n == IF Len(l) - t < Chunk THEN Len(l) - t ELSE Chunk
    IN  \E rc \in Results :
        /\ bm_network_send(rc)
        /\ advertised' = IF rc = "ok" THEN advertised \cup Range(SubSeq(l, t + 1, t + n))
                                      ELSE advertised
        /\ invSent' = IF rc = "ok" THEN t + n + 1 ELSE t
        /\ list' = IF rc = "ok" /\ t + n + 1 < Len(l) THEN l ELSE None

send_inv_chunk(l, t) ==
    LET n == IF Len(l) - t < Chunk THEN Len(l) - t ELSE Chunk
    IN  \E rc \in Results :
        /\ bm_network_send(rc)
        /\ advertised' = IF rc = "ok" THEN advertised \cup Range(SubSeq(l, t + 1, t + n))
                                      ELSE advertised
        /\ invSent' = IF rc = "ok" THEN t + n ELSE t
        /\ list' = IF rc = "ok" /\ t + n < Len(l) THEN l ELSE None

bm_object_store_list_hashes_by_stream == {o \in pool : Expires[o] > now}

(* A peer sends one verack.  Objects still in their stem (Dandelion) are   *)
(* left out.                                                               *)
bm_network_begin_big_inv ==
    /\ Idle /\ open /\ offered = None
    /\ \E shown \in SUBSET bm_object_store_list_hashes_by_stream :
      /\ offered' = shown
      /\ IF shown = {} THEN UNCHANGED <<list, invSent, advertised, conn>>
                       ELSE \E l \in Bijection(1 .. Cardinality(shown), shown) :
                                send_inv_chunk(l, 0)
    /\ UNCHANGED <<store, upload, refilling, others>>

-----------------------------------------------------------------------------
(* The event loop: a socket that takes bytes, and the sweep of each second.*)

EpollOut ==
    /\ Idle /\ open /\ out > 0 /\ out' \in 0 .. out - 1
    /\ refilling' = (count > 0)
    /\ UNCHANGED <<store, upload, biginv, evicted, open, others>>

(* A peer that is evicted, gone, or takes no bytes for too long.           *)
SweepCloses == Idle /\ open /\ (evicted \/ out > 0) /\ close_connection

PeerCloses == Idle /\ open /\ close_connection

Sweep(due) ==
    /\ Idle /\ open /\ ~ evicted
    /\ IF list # None /\ due /\ out = 0
         THEN send_inv_chunk(list, invSent)
         ELSE UNCHANGED <<list, invSent, advertised, conn>>
    /\ refilling' = (count > 0)
    /\ UNCHANGED <<store, upload, offered, others>>

Next ==
    \/ Tick \/ OtherSend \/ bm_object_sync_gc
    \/ \E items \in SUBSET Objects : handle_inv(items)
    \/ \E o \in Objects, valid, opened \in BOOLEAN : handle_object(o, valid, opened)
    \/ \E n \in 1 .. Limit + 1 : handle_getdata(n)
    \/ bm_object_sync_refill_uploads \/ bm_network_begin_big_inv
    \/ EpollOut \/ SweepCloses \/ PeerCloses
    \/ \E due \in BOOLEAN : Sweep(due)

Spec == Init /\ [][Next]_vars

(* The loop of a handler ends, the sweep comes every second, and the event *)
(* loop returns to a socket that takes bytes or is closed for not taking.  *)
FairSpec ==
    /\ Spec
    /\ WF_vars(bm_object_sync_refill_uploads)
    /\ WF_vars(Sweep(TRUE))
    /\ SF_vars(EpollOut \/ SweepCloses)

-----------------------------------------------------------------------------
(* However often an object is asked for and comes, before and after it     *)
(* expires and is collected, it goes to the handler of its type once.      *)
HandledOnce == \A o \in Objects : handled[o] <= 1

Fifo == INSTANCE UploadFifo WITH fifo <- Pending

(* Whatever getdata requests meet whatever states of the array, moved,     *)
(* grown or out of memory, the requests come out of it in order and once.  *)
ImplementsFifo == Fifo!Spec

(* Every request that was accepted is taken from the array in the end: the *)
(* object is sent, or missing, or the connection is closed.                *)
EveryUploadEnds ==
    \A r \in 1 .. Len(Wants) : r \in Range(Pending) ~> r \notin Range(Pending)

(* A new peer hears of every object of the pool, chunk after chunk, unless *)
(* it is evicted.                                                          *)
PoolIsAdvertised ==
    \A o \in Objects :
        (offered # None /\ o \in offered) ~> (o \in advertised \/ evicted \/ ~ open)

(* A peer hears of nothing that the listing at its verack left out, such   *)
(* as an object in its stem, and of everything in it once pending_inv is   *)
(* gone, unless it is evicted or closed.                                   *)
ListingTold ==
    /\ offered = None => advertised = {}
    /\ offered # None =>
        /\ advertised \subseteq offered
        /\ list = None /\ open /\ ~ evicted => offered \subseteq advertised
=============================================================================
