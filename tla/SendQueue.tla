----------------------------- MODULE SendQueue -----------------------------
(***************************************************************************)
(* The send queue of one connection: src/infra/network.c.                  *)
(*                                                                         *)
(* Any thread appends a message and writes what the socket will take; the  *)
(* rest is written by the epoll thread when EPOLLOUT fires.  All of it     *)
(* happens under conn->send_lock, one send(2) at a time.  The epoll thread *)
(* alone closes the connection, after taking reg->lock, which every other  *)
(* sender holds throughout its call.                                       *)
(*                                                                         *)
(* A byte is its position in the stream of bytes that bm_network_send has  *)
(* accepted, so that the wire shows at once whether it is out of order.    *)
(* Time is kept as ages.  The `now' a caller passes was read earlier: it   *)
(* lags the clock by at most Lag.                                          *)
(*                                                                         *)
(* A definition whose name ends in an underscore and a word (as in         *)
(* Write_DropsRest) is a deliberately wrong form of the definition that    *)
(* follows it; no specification uses it.                                   *)
(***************************************************************************)
EXTENDS Integers, Sequences

CONSTANTS
    Others,       \* the sending threads other than the epoll thread
    Epoll,        \* network_epoll_thread
    Free,         \* no thread: send_lock is free
    Lens,         \* the lengths of the messages that are sent
    HardLimit,    \* BM_SEND_QUEUE_HARD_LIMIT_BYTES
    Stall,        \* BM_SEND_STALL_TIMEOUT_SECONDS
    Lag,          \* the age of the `now' a caller passes, at most
    MaxRoom,      \* the socket buffer, in bytes
    CtlOutcomes,  \* whether epoll_ctl succeeds: {TRUE}, or also FALSE
    MaxAccepted   \* bound: the bytes accepted in a behaviour

ASSUME ThreadAssumption ==
    Epoll \notin Others /\ Free \notin Others \cup {Epoll}
ASSUME NumberAssumption ==
    /\ Lens \subseteq Nat \ {0}
    /\ HardLimit \in Nat /\ Stall \in Nat /\ Lag \in Nat /\ MaxRoom \in Nat
    /\ MaxAccepted \in Nat
ASSUME CtlAssumption == CtlOutcomes \subseteq BOOLEAN

Threads == Others \cup {Epoll}

VARIABLES
    queue,       \* send_head .. send_tail: chunks of bytes first+1 .. first+len
    queued,      \* send_queued_bytes
    armed,       \* send_out_armed: EPOLLOUT is registered
    registered,  \* epoll_registered
    evict,       \* pending_eviction
    age,         \* the clock minus last_write_progress
    lock,        \* the holder of send_lock, which is in flush_locked
    caller,      \* flush_locked was called by "send" or by "flush"
    epc,         \* where the epoll thread is in its pass, for this connection
    room,        \* what the socket buffer still takes
    peer,        \* "up", or "gone": send(2) fails
    wire,        \* history: the bytes written, in order
    accepted,    \* history: the number of bytes accepted
    quiet        \* history: the time since a byte was written or the queue
                 \* became non-empty

chunks == <<queue, queued, wire, accepted>>
clocks == <<age, quiet>>
world  == <<room, peer>>
vars   == <<queue, queued, armed, registered, evict, age, lock, caller, epc,
            room, peer, wire, accepted, quiet>>

(* "new": not yet registered.  "wait": in epoll_wait.  "out": about to     *)
(* flush.  "in": in handle_readable, or refilling.  "sweep", "stall",      *)
(* "post": the steps of idle_sweep_one.  "close": in close_connection.     *)
EpollPCs == {"new", "wait", "out", "in", "sweep", "stall", "post", "close",
             "closed"}

Chunks == [first : Nat, len : Nat, off : Nat]

(* Ages beyond this one are all alike.                                     *)
MaxAge == Stall + Lag + 1

Init ==
    /\ queue = <<>> /\ queued = 0 /\ armed = FALSE /\ registered = FALSE
    /\ evict = FALSE /\ age = 0 /\ lock = Free /\ caller = "send"
    /\ epc = "new" /\ room = MaxRoom /\ peer = "up"
    /\ wire = <<>> /\ accepted = 0 /\ quiet = 0

-----------------------------------------------------------------------------
(* last_write_progress = now                                               *)
Progress == age' \in 0 .. Lag /\ quiet' = 0

bm_network_epoll_register ==
    /\ epc = "new"
    /\ armed' = (queue # <<>>) /\ registered' = TRUE
    /\ epc' = "wait"
    /\ UNCHANGED <<chunks, evict, clocks, lock, caller, world>>

(* The epoll thread sends from its handlers and from the sweep.            *)
MaySend(t) == IF t = Epoll THEN epc \in {"in", "post"}
                           ELSE epc \notin {"new", "closed"}

(* bm_network_send, up to its call of flush_locked.  (A failed allocation  *)
(* returns -1 and changes nothing.)                                        *)
AppendChunk_LeavesClock(len) ==
    /\ queue' = Append(queue, [first |-> accepted, len |-> len, off |-> 0])
    /\ queued' = queued + len
    /\ accepted' = accepted + len
    /\ UNCHANGED age
    /\ IF queue = <<>> THEN quiet' = 0 ELSE UNCHANGED quiet
AppendChunk(len) ==
    /\ queue' = Append(queue, [first |-> accepted, len |-> len, off |-> 0])
    /\ queued' = queued + len
    /\ accepted' = accepted + len
    /\ IF queue = <<>> THEN Progress ELSE UNCHANGED clocks

SendAccepted(t, len) ==
    /\ lock = Free /\ MaySend(t)
    /\ accepted + len <= MaxAccepted
    /\ queued + len <= HardLimit
    /\ AppendChunk(len)
    /\ lock' = t /\ caller' = "send"
    /\ UNCHANGED <<wire, armed, registered, evict, epc, world>>

SendRefused(t, len) ==
    /\ lock = Free /\ MaySend(t)
    /\ queued + len > HardLimit
    /\ evict' = TRUE
    /\ UNCHANGED <<chunks, armed, registered, clocks, lock, caller, epc, world>>

bm_network_send(t, len) == SendAccepted(t, len) \/ SendRefused(t, len)

-----------------------------------------------------------------------------
(* flush_locked: one send(2) that takes n bytes of the first chunk ...     *)
Write_DropsRest ==
    /\ lock # Free /\ queue # <<>> /\ peer = "up" /\ room > 0
    /\ LET c == Head(queue) IN
       \E n \in 1 .. c.len - c.off :
          /\ n <= room
          /\ room' = room - n
          /\ wire' = wire \o [i \in 1 .. n |-> c.first + c.off + i]
          /\ queued' = queued - n
          /\ queue' = Tail(queue)
    /\ Progress
    /\ UNCHANGED <<accepted, armed, registered, evict, lock, caller, epc, peer>>
Write ==
    /\ lock # Free /\ queue # <<>> /\ peer = "up" /\ room > 0
    /\ LET c == Head(queue) IN
       \E n \in 1 .. c.len - c.off :
          /\ n <= room
          /\ room' = room - n
          /\ wire' = wire \o [i \in 1 .. n |-> c.first + c.off + i]
          /\ queued' = queued - n
          /\ queue' = IF c.off + n = c.len
                      THEN Tail(queue)
                      ELSE [queue EXCEPT ![1].off = @ + n]
    /\ Progress
    /\ UNCHANGED <<accepted, armed, registered, evict, lock, caller, epc, peer>>

update_out_interest_locked ==
    \E ok \in CtlOutcomes :
        armed' = IF registered /\ ok THEN queue # <<>> ELSE armed

(* ... the queue is empty or the socket full: flush_locked returns 0 ...   *)
FlushDone ==
    /\ lock # Free
    /\ queue = <<>> \/ (peer = "up" /\ room = 0)
    /\ update_out_interest_locked
    /\ lock' = Free
    /\ epc' = IF caller = "flush" THEN "in" ELSE epc
    /\ UNCHANGED <<chunks, registered, evict, clocks, caller, world>>

(* ... or send(2) failed: it returns -1, which bm_network_send turns into  *)
(* pending_eviction and the epoll thread into a close.                     *)
FlushFailed ==
    /\ lock # Free /\ queue # <<>> /\ peer = "gone"
    /\ lock' = Free
    /\ IF caller = "send" THEN evict' = TRUE /\ UNCHANGED epc
                          ELSE epc' = "close" /\ UNCHANGED evict
    /\ UNCHANGED <<chunks, armed, registered, clocks, caller, world>>

-----------------------------------------------------------------------------
(* One pass of bm_network_epoll_thread over this connection.  EPOLLOUT is  *)
(* level-triggered.                                                        *)
EpollWait ==
    /\ epc = "wait"
    /\ epc' = IF armed /\ (room > 0 \/ peer = "gone") THEN "out" ELSE "in"
    /\ UNCHANGED <<chunks, armed, registered, evict, clocks, lock, caller, world>>

bm_network_flush ==
    /\ epc = "out" /\ lock = Free
    /\ lock' = Epoll /\ caller' = "flush"
    /\ UNCHANGED <<chunks, armed, registered, evict, clocks, epc, world>>

(* handle_readable reports EOF, an error, or should_disconnect; or not.    *)
ReadDone ==
    /\ epc = "in" /\ lock # Epoll
    /\ epc' \in {"close", "sweep"}
    /\ UNCHANGED <<chunks, armed, registered, evict, clocks, lock, caller, world>>

SweepEviction ==
    /\ epc = "sweep"
    /\ epc' = IF evict THEN "close" ELSE "stall"
    /\ UNCHANGED <<chunks, armed, registered, evict, clocks, lock, caller, world>>

(* The sweep's own `now' lags by d.                                        *)
send_stalled_NeedsArmed(d) == queued > 0 /\ armed /\ age - d > Stall
send_stalled(d) == queued > 0 /\ age - d > Stall

SweepStalled ==
    /\ epc = "stall" /\ lock = Free
    /\ \E d \in 0 .. Lag : epc' = IF send_stalled(d) THEN "close" ELSE "post"
    /\ UNCHANGED <<chunks, armed, registered, evict, clocks, lock, caller, world>>

SweepDone ==
    /\ epc = "post" /\ lock # Epoll
    /\ epc' = "wait"
    /\ UNCHANGED <<chunks, armed, registered, evict, clocks, lock, caller, world>>

(* close_connection waits for reg->lock, hence for a sender to finish.     *)
close_connection ==
    /\ epc = "close" /\ lock = Free
    /\ epc' = "closed"
    /\ UNCHANGED <<chunks, armed, registered, evict, clocks, lock, caller, world>>

-----------------------------------------------------------------------------
Tick ==
    /\ age < MaxAge \/ quiet < MaxAge
    /\ age' = IF age < MaxAge THEN age + 1 ELSE age
    /\ quiet' = IF quiet < MaxAge THEN quiet + 1 ELSE quiet
    /\ UNCHANGED <<chunks, armed, registered, evict, lock, caller, epc, world>>

PeerReads ==
    /\ peer = "up" /\ room < MaxRoom
    /\ room' = room + 1
    /\ UNCHANGED <<chunks, armed, registered, evict, clocks, lock, caller, epc, peer>>

PeerGone ==
    /\ peer = "up"
    /\ peer' = "gone"
    /\ UNCHANGED <<chunks, armed, registered, evict, clocks, lock, caller, epc, room>>

FlushLocked == Write \/ FlushDone \/ FlushFailed
EpollThread ==
    \/ bm_network_epoll_register \/ EpollWait \/ bm_network_flush \/ ReadDone
    \/ SweepEviction \/ SweepStalled \/ SweepDone \/ close_connection

Next ==
    \/ \E t \in Threads, len \in Lens : bm_network_send(t, len)
    \/ FlushLocked
    \/ EpollThread
    \/ Tick
    \/ PeerReads
    \/ PeerGone

(* A thread inside flush_locked goes on, the epoll thread goes round its   *)
(* loop (epoll_wait times out every second) and time passes.  The peer is  *)
(* obliged to nothing.                                                     *)
Spec == Init /\ [][Next]_vars
        /\ WF_vars(FlushLocked) /\ WF_vars(EpollThread) /\ WF_vars(Tick)

-----------------------------------------------------------------------------
TypeOK ==
    /\ queue \in Seq(Chunks) /\ queued \in Nat
    /\ armed \in BOOLEAN /\ registered \in BOOLEAN /\ evict \in BOOLEAN
    /\ age \in 0 .. MaxAge /\ quiet \in 0 .. MaxAge
    /\ lock \in Threads \cup {Free} /\ caller \in {"send", "flush"}
    /\ epc \in EpollPCs
    /\ room \in 0 .. MaxRoom /\ peer \in {"up", "gone"}
    /\ wire \in Seq(Nat) /\ accepted \in Nat

(* The connection carries exactly the accepted messages, whole, in order   *)
(* and never mixed, whatever threads send and however short the writes.    *)
StreamIntact == \A i \in 1 .. Len(wire) : wire[i] = i

(* send_queued_bytes is what was accepted and not yet written, at most the *)
(* hard limit, and is zero just when the list is empty: the limit and the  *)
(* stall check read the counter, the arming of EPOLLOUT the list.          *)
QueuedExact ==
    /\ queued = accepted - Len(wire)
    /\ queued <= HardLimit
    /\ queued = 0 <=> queue = <<>>

(* network.c:254: EPOLLOUT is never left off beside bytes to send, nor on  *)
(* beside none (epoll_wait would spin), once the lock is free again, unless*)
(* the connection is about to be closed.                                   *)
ArmedWhenNeeded ==
    lock = Free /\ registered /\ ~evict /\ epc \notin {"close", "closed"}
        => (armed <=> queue # <<>>)

(* network.c:957: a connection is closed for stalling only if no byte went *)
(* out for the timeout, less the lag of the clock readings; a first message*)
(* after a long silence starts the count afresh.                           *)
SlowPeerSurvives ==
    [][epc = "stall" /\ epc' = "close" => quiet > Stall - Lag]_vars

(* Every accepted byte is written, or the connection is closed: even a     *)
(* peer that stays connected and never reads.                              *)
SentOrClosed ==
    \A n \in 1 .. MaxAccepted :
        accepted >= n ~> Len(wire) >= n \/ epc = "closed"

=============================================================================
