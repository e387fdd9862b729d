--------------------------- MODULE ConnLifecycle ---------------------------
(***************************************************************************)
(* The life of a connection: who makes, registers, closes and frees a      *)
(* struct bm_fd_data.  src/infra/network.c, peer_registry.c and            *)
(* peer_connector.c, the handshake of src/infra/object_sync.c and the      *)
(* ratings of src/core/peer_manager.c.                                     *)
(*                                                                         *)
(* The network thread accepts, reads, sweeps and closes.  The connector    *)
(* makes outbound connections: it gives a new one to epoll, sends its      *)
(* version and only then puts it into the registry.  Other threads walk    *)
(* the registry under reg->lock and send to what they find there.          *)
(*                                                                         *)
(* An identity in Inbound or Outbound is one allocation; it is never used  *)
(* again once freed, so that a pointer to freed memory shows.  The network *)
(* thread reads the clock once per pass: time moves while it waits.        *)
(* Sends and queues are those of module SendQueue, reduced to whether one  *)
(* fails: a failed send sets pending_eviction; any polled connection may   *)
(* become writable, and any swept one may have stalled.                    *)
(*                                                                         *)
(* A peer may act as soon as its connection is made, which is before the   *)
(* connector has registered it.  The network thread may then free what the *)
(* connector has in hand, or the connector what is in a batch of events.   *)
(* What a thread does with freed memory is undefined: here it takes no     *)
(* step any more, and nothing is claimed of it.                            *)
(*                                                                         *)
(* An operator X_Suffix just before X is a wrong form of X that no action  *)
(* uses, named for the slip it makes.                                      *)
(***************************************************************************)
EXTENDS Integers, Sequences, FiniteSets

CONSTANTS
    Inbound,           \* BM_FD_SERVER_SOCKET
    Outbound,          \* BM_FD_CLIENT_SOCKET
    Peers,             \* the rows of peers.db
    PeerOf,            \* whom each outbound connection leads to
    Listener,          \* the listening socket
    Commands,          \* what peers may send, of AllCommands
    MaxInbound,        \* BM_MAX_INBOUND_CONNECTIONS
    MaxOutbound,       \* max_outbound
    MaxAccepts,        \* BM_INBOUND_ACCEPT_MAX_PER_WINDOW
    Window,            \* BM_INBOUND_ACCEPT_WINDOW_SECONDS
    HandshakeTimeout,  \* BM_HANDSHAKE_TIMEOUT_SECONDS
    PingTimeout,       \* BM_IDLE_PING_TIMEOUT_SECONDS
    ReplyDelay,        \* BM_VERACK_REPLY_DELAY_SECONDS
    Cooldown,          \* BM_PEER_LOW_RATING_COOLDOWN_SECONDS
    Scale,             \* the best rating (1.0), in tenths
    FirstRating,       \* the rating of every peer at first, in tenths
    MaxUnread,         \* how many messages of a peer may wait to be read
    None

Conns == Inbound \cup Outbound

(* "oldversion" stands for every version that is turned away: an old       *)
(* protocol, a clock too far off; "toolarge" for a message that declares a *)
(* length above the limit; "other" for what does not matter here, a few    *)
(* bytes of a longer message included.                                     *)
AllCommands == {"version", "oldversion", "verack", "error", "toolarge", "other"}

ASSUME ConnAssumption ==
    /\ Inbound \cap Outbound = {} /\ Listener \notin Conns /\ None \notin Conns
    /\ IsFiniteSet(Conns) /\ PeerOf \in [Outbound -> Peers] /\ None \notin Peers
ASSUME CommandAssumption == Commands \subseteq AllCommands
ASSUME NumberAssumption ==
    /\ MaxInbound \in Nat /\ MaxOutbound \in Nat /\ MaxAccepts \in Nat
    /\ Window \in Nat /\ HandshakeTimeout \in Nat /\ PingTimeout \in Nat
    /\ ReplyDelay \in Nat /\ Cooldown \in Nat
    /\ Scale \in Nat /\ FirstRating \in -Scale .. Scale /\ MaxUnread \in Nat

VARIABLES
    life,      \* "none", "made", "freed", or "refused" at the accept
    polled,    \* registered with epoll
    conns,     \* reg->conns
    listed,    \* history: the connections that have been in the registry
    inbuf,     \* sent by the peer and not read yet
    gone,      \* the peer has closed or reset the connection
    ver,       \* history: a version was received
    hs,        \* handshake_complete
    idle,      \* now - last_activity
    reply,     \* pending_verack_reply_at - now, or None
    evict,     \* pending_eviction
    backlog,   \* clients waiting to be accepted
    wage,      \* now - window_start
    wcount,    \* count_in_window
    npc,       \* where the network thread is in its pass
    cur,       \* the connection it is reading or closing
    recv,      \* the messages in its recv_buffer
    batch,     \* the events of epoll_wait still to be handled: EPOLLIN
    outs,      \* and EPOLLOUT
    todo,      \* the snapshot of the sweep still to be visited
    walking,   \* another thread walks the registry, holding reg->lock
    walk,      \* the connections it has yet to visit
    cpc,       \* where the connector is
    cpeer,     \* the candidate it has chosen
    cconn,     \* the connection it is making
    want,      \* the connections it has yet to make in this round
    snap,      \* the ratings in its list of candidates
    cool,      \* per peer, what is left of the cooldown
    rating     \* peers.db, in tenths

socket == <<inbuf, gone>>
state == <<ver, hs, idle, reply, evict>>
table == <<life, polled, conns, listed>>
limiter == <<backlog, wage, wcount>>
network == <<npc, cur, recv, batch, outs, todo>>
walker == <<walking, walk>>
connector == <<cpc, cpeer, cconn, want, snap, cool>>
vars == <<table, socket, state, limiter, network, walker, connector, rating>>

MaxAge == IF HandshakeTimeout > PingTimeout THEN HandshakeTimeout + 1
                                            ELSE PingTimeout + 1

Init ==
    /\ life = [c \in Conns |-> "none"] /\ polled = {} /\ conns = {} /\ listed = {}
    /\ inbuf = [c \in Conns |-> <<>>] /\ gone = [c \in Conns |-> FALSE]
    /\ ver = [c \in Conns |-> FALSE] /\ hs = [c \in Conns |-> FALSE]
    /\ idle = [c \in Conns |-> 0] /\ reply = [c \in Conns |-> None]
    /\ evict = [c \in Conns |-> FALSE]
    /\ backlog = {} /\ wage = Window /\ wcount = 0
    /\ npc = "wait" /\ cur = None /\ recv = <<>> /\ batch = {} /\ outs = {} /\ todo = {}
    /\ walking = FALSE /\ walk = {}
    /\ cpc = "idle" /\ cpeer = None /\ cconn = None /\ want = 0
    /\ rating = [p \in Peers |-> FirstRating] /\ snap = rating
    /\ cool = [p \in Peers |-> 0]

Up(r) == IF r < Scale THEN r + 1 ELSE Scale
Down(r) == IF r > -Scale THEN r - 1 ELSE -Scale

(* bm_peer_manager_record_result for the peer of c; an inbound connection  *)
(* has no row.                                                             *)
record_result(c, success) ==
    rating' = IF c \in Outbound
              THEN [rating EXCEPT ![PeerOf[c]] = IF success THEN Up(@) ELSE Down(@)]
              ELSE rating
-----------------------------------------------------------------------------
(* The peers.                                                              *)
Reachable(c) == life[c] = "made" /\ ~gone[c]

ClientConnects(c) ==
    /\ life[c] = "none" /\ c \notin backlog
    /\ backlog' = backlog \cup {c}
    /\ UNCHANGED <<table, socket, state, wage, wcount, network, walker,
                   connector, rating>>

Arrive(c, m) ==
    /\ Reachable(c) /\ Len(inbuf[c]) < MaxUnread
    /\ inbuf' = [inbuf EXCEPT ![c] = Append(@, m)]
    /\ UNCHANGED <<table, gone, state, limiter, network, walker, connector,
                   rating>>

Leave(c) ==
    /\ Reachable(c)
    /\ gone' = [gone EXCEPT ![c] = TRUE]
    /\ UNCHANGED <<table, inbuf, state, limiter, network, walker, connector,
                   rating>>

Older(a, limit) == IF a < limit THEN a + 1 ELSE a
Sooner(t) == IF t = None \/ t = 0 THEN t ELSE t - 1

Tick ==
    /\ npc = "wait"
    /\ idle' = [c \in Conns |-> IF life[c] = "made" THEN Older(idle[c], MaxAge)
                                                    ELSE idle[c]]
    /\ reply' = [c \in Conns |-> Sooner(reply[c])]
    /\ wage' = Older(wage, Window)
    /\ cool' = [p \in Peers |-> Sooner(cool[p])]
    /\ UNCHANGED <<table, socket, ver, hs, evict, backlog, wcount, network,
                   walker, cpc, cpeer, cconn, want, snap, rating>>
-----------------------------------------------------------------------------
(* The network thread: bm_network_epoll_thread.                            *)
Ready_DataOnly(c) == inbuf[c] # <<>>
Ready(c) == inbuf[c] # <<>> \/ gone[c]

EpollWait ==
    /\ npc = "wait" /\ npc' = "events"
    /\ batch' = {c \in polled : Ready(c)}
                    \cup (IF backlog # {} THEN {Listener} ELSE {})
    /\ outs' \in SUBSET polled
    /\ UNCHANGED <<table, socket, state, limiter, cur, recv, todo, walker,
                   connector, rating>>

bm_inbound_rate_limiter_allow ==
    /\ wage' = IF wage >= Window THEN 0 ELSE wage
    /\ wcount' = IF wage >= Window THEN 1 ELSE wcount + 1

CountByType(type) == Cardinality(conns \cap type)

InboundFull == CountByType(Inbound) >= MaxInbound

(* One accept(2) of bm_network_handle_accept.  A client over a limit, or   *)
(* one that bm_fd_data_new or epoll_ctl fails for, is closed at once.      *)
Accept(c) ==
    /\ npc = "events" /\ Listener \in batch /\ c \in backlog /\ ~walking
    /\ backlog' = backlog \ {c}
    /\ bm_inbound_rate_limiter_allow
    /\ \/ /\ life' = [life EXCEPT ![c] = "refused"]
          /\ UNCHANGED <<polled, conns, listed, idle>>
       \/ /\ wcount' <= MaxAccepts /\ ~InboundFull
          /\ life' = [life EXCEPT ![c] = "made"]
          /\ idle' = [idle EXCEPT ![c] = 0]
          /\ polled' = polled \cup {c}
          /\ conns' = conns \cup {c} /\ listed' = listed \cup {c}
    /\ UNCHANGED <<socket, ver, hs, reply, evict, network, walker,
                   connector, rating>>

AcceptDone ==
    /\ npc = "events" /\ Listener \in batch /\ backlog = {}
    /\ batch' = batch \ {Listener}
    /\ UNCHANGED <<table, socket, state, limiter, npc, cur, recv, outs, todo,
                   walker, connector, rating>>

(* A send to c that may fail, and then sets pending_eviction.              *)
SendTo(c) == evict' = evict \/ evict' = [evict EXCEPT ![c] = TRUE]

(* EPOLLOUT comes first in an event.  After a write error the connection   *)
(* is closed and not read; else uploads may be sent.                       *)
FlushSocket(c) ==
    /\ npc = "events" /\ c \in outs /\ life[c] = "made"
    /\ outs' = outs \ {c}
    /\ \/ /\ npc' = "closeEvent" /\ cur' = c /\ batch' = batch \ {c}
          /\ UNCHANGED evict
       \/ SendTo(c) /\ UNCHANGED <<npc, cur, batch>>
    /\ UNCHANGED <<table, socket, ver, hs, idle, reply, limiter, recv, todo,
                   walker, connector, rating>>

(* bm_network_handle_readable up to EAGAIN.  When the peer has gone the    *)
(* connection is closed, and what it sent before is not parsed.  What      *)
(* comes after that is for the next pass.                                  *)
ReadSocket(c) ==
    /\ npc = "events" /\ c \in batch \cap Conns /\ c \notin outs
    /\ life[c] = "made"
    /\ batch' = batch \ {c} /\ cur' = c
    /\ \/ /\ gone[c] /\ npc' = "closeEvent"
          /\ UNCHANGED <<inbuf, idle, recv>>
       \/ /\ ~gone[c] /\ npc' = "read"
          /\ recv' = inbuf[c] /\ inbuf' = [inbuf EXCEPT ![c] = <<>>]
          /\ idle' = [idle EXCEPT ![c] = 0]
    /\ UNCHANGED <<table, gone, ver, hs, reply, evict, limiter, outs,
                   todo, walker, connector, rating>>

(* The handlers of bm_object_sync_dispatch, one per command.               *)
OnVersion(c) ==
    /\ ver' = [ver EXCEPT ![c] = TRUE]
    /\ record_result(c, TRUE) /\ SendTo(c)
    /\ UNCHANGED <<hs, reply, npc>>

OnOldVersion(c) ==
    /\ npc' = "closeEvent" /\ SendTo(c)
    /\ UNCHANGED <<ver, hs, reply, rating>>

OnTooLarge ==
    /\ npc' = "closeEvent"
    /\ UNCHANGED <<ver, hs, reply, evict, rating>>

OnVerack(c) ==
    /\ hs' = [hs EXCEPT ![c] = TRUE]
    /\ record_result(c, TRUE)
    /\ reply' = [reply EXCEPT ![c] = ReplyDelay]
    /\ UNCHANGED <<ver, evict, npc>>

OnError(c) ==
    /\ record_result(c, FALSE)
    /\ UNCHANGED <<ver, hs, reply, evict, npc>>

OnOther(c) ==
    /\ SendTo(c)
    /\ UNCHANGED <<ver, hs, reply, npc, rating>>

Dispatch ==
    /\ npc = "read" /\ life[cur] = "made" /\ recv # <<>>
    /\ recv' = Tail(recv)
    /\ \/ Head(recv) = "version" /\ OnVersion(cur)
       \/ Head(recv) = "oldversion" /\ OnOldVersion(cur)
       \/ Head(recv) = "verack" /\ OnVerack(cur)
       \/ Head(recv) = "error" /\ OnError(cur)
       \/ Head(recv) = "toolarge" /\ OnTooLarge
       \/ Head(recv) = "other" /\ OnOther(cur)
    /\ UNCHANGED <<table, socket, idle, limiter, cur, batch, outs, todo, walker,
                   connector>>

ReadDone ==
    /\ npc = "read" /\ life[cur] = "made" /\ recv = <<>>
    /\ npc' = "events" /\ cur' = None
    /\ UNCHANGED <<table, socket, state, limiter, recv, batch, outs, todo, walker,
                   connector, rating>>

(* What is freed is not seen any more; it starts from nothing.             *)
Forget(c) ==
    /\ life' = [life EXCEPT ![c] = "freed"]
    /\ inbuf' = [inbuf EXCEPT ![c] = <<>>]
    /\ gone' = [gone EXCEPT ![c] = FALSE]
    /\ ver' = [ver EXCEPT ![c] = FALSE] /\ hs' = [hs EXCEPT ![c] = FALSE]
    /\ idle' = [idle EXCEPT ![c] = 0] /\ reply' = [reply EXCEPT ![c] = None]
    /\ evict' = [evict EXCEPT ![c] = FALSE]

Unlist(c) == conns' = conns \ {c}

close_connection ==
    /\ npc \in {"closeEvent", "closeSweep"} /\ life[cur] = "made" /\ ~walking
    /\ record_result(cur, FALSE)
    /\ Unlist(cur)
    /\ polled' = polled \ {cur}
    /\ Forget(cur)
    /\ npc' = IF npc = "closeEvent" THEN "events" ELSE "sweep"
    /\ cur' = None /\ recv' = <<>>
    /\ UNCHANGED <<listed, limiter, batch, outs, todo, walker, connector>>

(* bm_network_idle_sweep goes over a snapshot of the registry.             *)
SweepBegin ==
    /\ npc = "events" /\ batch = {} /\ outs = {} /\ ~walking
    /\ npc' = "sweep" /\ todo' = conns
    /\ UNCHANGED <<table, socket, state, limiter, cur, recv, batch, outs,
                   walker, connector, rating>>

Overdue_Completed(c) == hs[c] /\ idle[c] > HandshakeTimeout
Overdue(c) == ~hs[c] /\ idle[c] > HandshakeTimeout

PingDue(c) == hs[c] /\ idle[c] > PingTimeout

(* A ping that was queued counts as activity.                              *)
Ping(c) ==
    \/ idle' = [idle EXCEPT ![c] = 0] /\ SendTo(c)
    \/ evict' = [evict EXCEPT ![c] = TRUE] /\ UNCHANGED idle

idle_sweep_one(c) ==
    /\ npc = "sweep" /\ c \in todo
    /\ todo' = todo \ {c}
    /\ \/ /\ \E stalled \in BOOLEAN : evict[c] \/ stalled \/ Overdue(c)
          /\ npc' = "closeSweep" /\ cur' = c /\ UNCHANGED <<idle, evict>>
       \/ ~evict[c] /\ PingDue(c) /\ Ping(c) /\ UNCHANGED <<npc, cur>>
       \/ /\ ~evict[c] /\ ~Overdue(c) /\ ~PingDue(c)
          /\ SendTo(c) /\ UNCHANGED <<npc, cur, idle>>
    /\ UNCHANGED <<table, socket, ver, hs, reply, limiter, recv, batch, outs,
                   walker, connector, rating>>

(* bm_object_sync_on_network_sweep, under reg->lock: the addr and the big  *)
(* inv that answer a verack, after a delay.                                *)
Due(c) == c \in conns /\ reply[c] = 0

SweepDone ==
    /\ npc = "sweep" /\ todo = {} /\ ~walking
    /\ npc' = "wait"
    /\ reply' = [c \in Conns |-> IF Due(c) THEN None ELSE reply[c]]
    /\ \E failed \in SUBSET {c \in Conns : Due(c)} :
          evict' = [c \in Conns |-> evict[c] \/ c \in failed]
    /\ UNCHANGED <<table, socket, ver, hs, idle, limiter, cur, recv, batch,
                   outs, todo, walker, connector, rating>>
-----------------------------------------------------------------------------
(* Another thread in bm_peer_registry_broadcast_inv or                     *)
(* bm_peer_registry_for_each_locked.                                       *)
WalkBegin ==
    /\ ~walking /\ walking' = TRUE /\ walk' = conns
    /\ UNCHANGED <<table, socket, state, limiter, network, connector, rating>>

WalkOne_Frees(c) ==
    /\ walking /\ c \in walk
    /\ walk' = walk \ {c}
    /\ \/ UNCHANGED <<table, socket, state>>
       \/ /\ conns' = conns \ {c} /\ polled' = polled \ {c}
          /\ Forget(c) /\ UNCHANGED listed
    /\ UNCHANGED <<limiter, network, walking, connector, rating>>
WalkOne(c) ==
    /\ walking /\ c \in walk
    /\ walk' = walk \ {c} /\ SendTo(c)
    /\ UNCHANGED <<table, socket, ver, hs, idle, reply, limiter, network,
                   walking, connector, rating>>

WalkEnd ==
    /\ walking /\ walk = {} /\ walking' = FALSE
    /\ UNCHANGED <<table, socket, state, limiter, network, walk, connector,
                   rating>>
-----------------------------------------------------------------------------
(* The connector: bm_peer_connector_connect_initial.                       *)
CountOutbound == CountByType(Outbound)

ConnectBegin ==
    /\ cpc = "idle" /\ ~walking
    /\ CountOutbound < MaxOutbound
    /\ want' = MaxOutbound - CountOutbound
    /\ snap' = rating /\ cpc' = "choose"
    /\ UNCHANGED <<table, socket, state, limiter, network, walker, cpeer, cconn,
                   cool, rating>>

bm_peer_registry_has_peer(p) == \E c \in conns \cap Outbound : PeerOf[c] = p

Resting(p) == snap[p] < 0 /\ cool[p] > 0

(* bm_peer_connector_choose_candidate_index draws at random and may give   *)
(* up; the attempt is recorded before it is made.                          *)
Choose(p) ==
    /\ cpc = "choose" /\ ~walking
    /\ ~bm_peer_registry_has_peer(p) /\ ~Resting(p)
    /\ cpc' = "open" /\ cpeer' = p
    /\ cool' = [cool EXCEPT ![p] = Cooldown]
    /\ UNCHANGED <<table, socket, state, limiter, network, walker, cconn, want,
                   snap, rating>>

ChooseNone ==
    /\ cpc = "choose" /\ cpc' = "idle" /\ want' = 0
    /\ UNCHANGED <<table, socket, state, limiter, network, walker, cpeer, cconn,
                   snap, cool, rating>>

(* An attempt that fails costs the peer a tenth, in the table and in the   *)
(* list of candidates.                                                     *)
Failed ==
    /\ cpc' = "choose" /\ cconn' = None
    /\ rating' = [rating EXCEPT ![cpeer] = Down(@)]
    /\ snap' = [snap EXCEPT ![cpeer] = Down(@)]
    /\ UNCHANGED <<cpeer, want, cool>>

OpenFails ==
    /\ cpc = "open" /\ Failed
    /\ UNCHANGED <<table, socket, state, limiter, network, walker>>

Open(c) ==
    /\ cpc = "open" /\ life[c] = "none" /\ PeerOf[c] = cpeer
    /\ life' = [life EXCEPT ![c] = "made"]
    /\ idle' = [idle EXCEPT ![c] = 0]
    /\ cpc' = "register" /\ cconn' = c
    /\ UNCHANGED <<polled, conns, listed, socket, ver, hs, reply, evict,
                   limiter, network, walker, cpeer, want, snap, cool, rating>>

Register ==
    /\ cpc = "register" /\ life[cconn] = "made"
    /\ polled' = polled \cup {cconn} /\ cpc' = "version"
    /\ UNCHANGED <<life, conns, listed, socket, state, limiter, network, walker,
                   cpeer, cconn, want, snap, cool, rating>>

(* epoll_ctl, or the version, fails: the connector frees what it made.     *)
GiveUp ==
    /\ cpc \in {"register", "version"} /\ life[cconn] = "made" /\ Failed
    /\ polled' = polled \ {cconn}
    /\ Forget(cconn)
    /\ UNCHANGED <<conns, listed, limiter, network, walker>>

PostVersion ==
    /\ cpc = "version" /\ life[cconn] = "made" /\ cpc' = "add"
    /\ UNCHANGED <<table, socket, state, limiter, network, walker, cpeer, cconn,
                   want, snap, cool, rating>>

bm_peer_registry_add ==
    conns' = conns \cup {cconn} /\ listed' = listed \cup {cconn}

Add ==
    /\ cpc = "add" /\ life[cconn] = "made" /\ ~walking
    /\ bm_peer_registry_add
    /\ want' = want - 1
    /\ cpc' = IF want = 1 THEN "idle" ELSE "choose"
    /\ cconn' = None
    /\ UNCHANGED <<life, polled, socket, state, limiter, network, walker, cpeer,
                   snap, cool, rating>>
-----------------------------------------------------------------------------
PeerStep ==
    \/ \E c \in Inbound : ClientConnects(c)
    \/ \E c \in Conns : Leave(c) \/ \E m \in Commands : Arrive(c, m)

NetworkStep ==
    \/ EpollWait \/ AcceptDone \/ Dispatch \/ ReadDone \/ close_connection
    \/ SweepBegin \/ SweepDone
    \/ \E c \in Conns :
          Accept(c) \/ FlushSocket(c) \/ ReadSocket(c) \/ idle_sweep_one(c)

WalkerStep == WalkBegin \/ WalkEnd \/ \E c \in Conns : WalkOne(c)

ConnectorStep ==
    \/ ConnectBegin \/ ChooseNone \/ OpenFails \/ Register \/ GiveUp
    \/ PostVersion \/ Add
    \/ \E p \in Peers : Choose(p)
    \/ \E c \in Outbound : Open(c)

Next == PeerStep \/ Tick \/ NetworkStep \/ WalkerStep \/ ConnectorStep

Spec == Init /\ [][Next]_vars

(* The network thread, a walk once begun and the connector with a          *)
(* connection in hand go on, the clock ticks though the network thread     *)
(* keeps being busy, and a thread that waits for reg->lock gets it         *)
(* although others keep taking it.                                         *)
FairSpec ==
    /\ Spec /\ SF_vars(NetworkStep) /\ SF_vars(Tick)
    /\ WF_vars(Register \/ GiveUp \/ PostVersion) /\ SF_vars(Add)
    /\ WF_vars(WalkEnd \/ \E c \in Conns : WalkOne(c))
-----------------------------------------------------------------------------
TableOK ==
    /\ life \in [Conns -> {"none", "made", "freed", "refused"}]
    /\ polled \subseteq Conns /\ conns \subseteq Conns /\ listed \subseteq Conns

SocketOK == inbuf \in [Conns -> Seq(Commands)] /\ recv \in Seq(Commands)

FlagsOK ==
    /\ gone \in [Conns -> BOOLEAN] /\ evict \in [Conns -> BOOLEAN]
    /\ ver \in [Conns -> BOOLEAN] /\ hs \in [Conns -> BOOLEAN]

ClocksOK ==
    /\ idle \in [Conns -> 0 .. MaxAge]
    /\ reply \in [Conns -> 0 .. ReplyDelay \cup {None}]

LimiterOK == backlog \subseteq Inbound /\ wage \in 0 .. Window /\ wcount \in Nat

NetworkOK ==
    /\ npc \in {"wait", "events", "read", "closeEvent", "closeSweep", "sweep"}
    /\ cur \in IF npc \in {"read", "closeEvent", "closeSweep"} THEN Conns
                                                              ELSE {None}
    /\ batch \subseteq Conns \cup {Listener} /\ outs \subseteq Conns
    /\ todo \subseteq Conns

WalkerOK == walking \in BOOLEAN /\ walk \subseteq Conns

InHand == cpc \in {"register", "version", "add"}

ConnectorOK ==
    /\ cpc \in {"idle", "choose", "open", "register", "version", "add"}
    /\ cpeer \in IF cpc \in {"idle", "choose"} THEN Peers \cup {None} ELSE Peers
    /\ cconn \in IF InHand THEN Outbound ELSE {None}
    /\ want \in IF cpc = "idle" THEN {0} ELSE 1 .. MaxOutbound
    /\ snap \in [Peers -> -Scale .. Scale] /\ cool \in [Peers -> 0 .. Cooldown]

RatingsOK == rating \in [Peers -> -Scale .. Scale]

(* Every field has its type.  Ratings stay between -1.0 and 1.0, and the   *)
(* connector never goes on once it has made all it wanted.                 *)
ConnTypeOK ==
    /\ TableOK /\ SocketOK /\ FlagsOK /\ ClocksOK /\ LimiterOK
    /\ NetworkOK /\ WalkerOK /\ ConnectorOK /\ RatingsOK

(* The pointers to connections that a thread, epoll or the registry has.   *)
Pointers ==
    UNION {conns, polled, batch \cap Conns, outs, todo, walk,
           IF npc \in {"read", "closeEvent", "closeSweep"} THEN {cur} ELSE {},
           IF InHand THEN {cconn} ELSE {}}

(* What network.h says of pending_eviction: since only the network thread  *)
(* frees, nobody has a pointer to a connection that has been freed.        *)
NoDangling == \A c \in Pointers : life[c] = "made"

(* Nobody has a pointer to a connection that was freed after it had been   *)
(* registered: no event in a batch, no snapshot of the sweep, no walk, not *)
(* the registry, not epoll and not the connector.  So nothing is used      *)
(* after free or freed twice, once bm_peer_registry_add has returned.      *)
SafeOnceListed == \A c \in Pointers \cap listed : life[c] = "made"

(* A connection that exists is watched by epoll and listed in the registry *)
(* where the sweep and the limits see it, unless the connector has it.     *)
NoneIsLost ==
    \A c \in Conns :
        life[c] = "made" =>
            \/ c \in polled /\ c \in conns
            \/ InHand /\ c = cconn

Live(type) == {c \in type : life[c] = "made"}

(* There are never more inbound connections than allowed, though clients   *)
(* are counted through the registry and accepted in bursts.                *)
InboundBounded == Cardinality(Live(Inbound)) <= MaxInbound

(* There are never more outbound connections than asked for, though they   *)
(* are counted once and made one by one while others close.                *)
OutboundBounded == Cardinality(Live(Outbound)) <= MaxOutbound

(* Two outbound connections never lead to the same peer.                   *)
OnePerPeer ==
    \A c, d \in Live(Outbound) : PeerOf[c] = PeerOf[d] => c = d

(* A registered connection whose peer sends nothing is closed unless its   *)
(* handshake is complete: bm_network_idle_sweep gives up only on silence,  *)
(* for whatever is read, be it a byte, counts as activity.  A use of freed *)
(* memory is the other way out.                                            *)
HandshakeOrClosed ==
    \A c \in Conns :
        c \in conns /\ inbuf[c] = <<>>
            ~> hs[c] \/ life[c] = "freed" \/ inbuf[c] # <<>> \/ ~NoDangling

(* A connection whose peer has gone is closed and freed, whoever has it.   *)
GoneIsFreed == \A c \in Conns : gone[c] ~> life[c] = "freed" \/ ~NoDangling

(* What object_sync.c says where it sets handshake_complete: by then each  *)
(* side has the other's version.                                           *)
HandshakeIsMutual == \A c \in Conns : hs[c] => ver[c]
=============================================================================
