----------------------------- MODULE Dandelion -----------------------------
(***************************************************************************)
(* Who is told of an object, and when: src/infra/dandelion.c, with the     *)
(* broadcast of src/infra/peer_registry.c and the list a new peer gets     *)
(* from src/infra/object_sync.c.                                           *)
(*                                                                         *)
(* An object is first relayed to one peer, the stem successor, as a dinv.  *)
(* When its deadline passes it is fluffed: announced to every peer as an   *)
(* inv.  Three threads announce: the network thread (received objects,     *)
(* repeated pubkeys), the publisher (own objects) and the connector        *)
(* (expired stems).  A broadcast holds reg->lock over all its peers but    *)
(* takes the Dandelion lock for one decision at a time; sections under     *)
(* either lock are single actions.                                         *)
(*                                                                         *)
(* Times are kept as differences, so that the clock needs no bound: for a  *)
(* stemming entry, the time left to its deadline; for a fluffed one, the   *)
(* time since.  The connector reads the clock once per pass; lag is the    *)
(* age of that reading.                                                    *)
(*                                                                         *)
(* An operator X_Suffix just before X is a wrong form of X that no action  *)
(* uses, named for the slip it makes.                                      *)
(***************************************************************************)
EXTENDS Integers, FiniteSets

CONSTANTS
    Peers,
    Stemmers,   \* the outbound peers that offer the Dandelion service
    Hashes,
    Timeouts,   \* the stem timeouts that may be drawn, in seconds
    Epoch,      \* BM_DANDELION_EPOCH_SECONDS
    PruneAge,   \* BM_DANDELION_ENTRY_PRUNE_AGE_SECONDS
    MaxExpire,  \* BM_DANDELION_MAX_EXPIRE_PER_CALL
    MaxLag,     \* bound: seconds one pass of the connector may take
    Nil

Broadcasters == {"network", "publisher", "connector"}

ASSUME BroadcasterAssumption == Nil \notin Broadcasters
ASSUME PeerAssumption == Stemmers \subseteq Peers /\ Nil \notin Peers
ASSUME HashAssumption == Nil \notin Hashes /\ IsFiniteSet(Hashes)
ASSUME TimeAssumption ==
    /\ Timeouts \subseteq Nat \ {0} /\ Timeouts # {}
    /\ Epoch \in Nat /\ PruneAge \in Nat /\ MaxLag \in Nat
    /\ MaxExpire \in Nat \ {0}

VARIABLES
    have,      \* object_pool.db
    entry,     \* g_state.entries: "none", "stemming" or "fluffed"
    timer,     \* fluff_deadline - now, or now - fluffed_at
    plain,     \* learned_via_plain_inv
    stem,      \* stem_ip and stem_port, or None if has_stem is 0
    epochAge,  \* now - epoch_started, up to Epoch
    link,      \* the registered connections, and how far each one is
    told,      \* the connections each hash was sent to in an inv
    gave,      \* the connections each object came from
    leftOut,   \* history: those a broadcast left out, and not told since
    stemmed,   \* history: hashes sent in a dinv
    viaInv,    \* history: hashes learned from a plain inv
    own,       \* history: objects made here
    job,       \* the hash each thread is to broadcast, or None
    except,    \* the peer the network thread's broadcast leaves out
    holder,    \* the thread in bm_peer_registry_broadcast_inv, or None
    todo,      \* the connections that broadcast has yet to visit
    passed,    \* history: those it visited that have had no inv
    cpc,       \* where the connector is in its one-second pass
    chosen,    \* the peer bm_peer_registry_pick_random_dandelion_peer found
    toFluff,   \* to_fluff
    lag

entries == <<entry, timer, plain>>
peers == <<link, told, gave, leftOut>>
history == <<stemmed, viaInv, own>>
casting == <<job, except, holder, todo, passed>>
connector == <<cpc, chosen, toFluff, lag>>
relayVars ==
    <<have, entry, timer, plain, stem, epochAge, link, told, gave, leftOut,
      stemmed, viaInv, own, job, except, holder, todo, passed, cpc,
      chosen, toFluff, lag>>

Registered == {p \in Peers : link[p] # "none"}

DandelionTypeOK ==
    /\ have \subseteq Hashes
    /\ entry \in [Hashes -> {"none", "stemming", "fluffed"}]
    /\ timer \in [Hashes -> Int]
    /\ plain \subseteq Hashes
    /\ stem \in Stemmers \cup {Nil}
    /\ epochAge \in 0 .. Epoch
    /\ link \in [Peers -> {"none", "new", "pending", "done"}]
    /\ told \in [Hashes -> SUBSET Peers]
    /\ gave \in [Hashes -> SUBSET Peers]
    /\ leftOut \in [Hashes -> SUBSET Peers]
    /\ stemmed \subseteq Hashes /\ viaInv \subseteq Hashes
    /\ own \subseteq have
    /\ job \in [Broadcasters -> Hashes \cup {Nil}]
    /\ except \in Peers \cup {Nil}
    /\ holder \in Broadcasters \cup {Nil} /\ (holder # Nil => job[holder] # Nil)
    /\ todo \subseteq Registered /\ (holder = Nil => todo = {})
    /\ passed \subseteq Peers
    /\ cpc \in {"idle", "pick", "set", "expire", "refluff"}
    /\ chosen \in Stemmers \cup {Nil}
    /\ toFluff \subseteq Hashes
    /\ lag \in 0 .. MaxLag

RelayInit ==
    /\ have = {}
    /\ entry = [h \in Hashes |-> "none"]
    /\ timer = [h \in Hashes |-> 0]
    /\ plain = {}
    /\ stem = Nil
    /\ epochAge = Epoch
    /\ link = [p \in Peers |-> "none"]
    /\ told = [h \in Hashes |-> {}]
    /\ gave = [h \in Hashes |-> {}]
    /\ leftOut = [h \in Hashes |-> {}]
    /\ stemmed = {} /\ viaInv = {} /\ own = {}
    /\ job = [t \in Broadcasters |-> Nil]
    /\ except = Nil
    /\ holder = Nil
    /\ todo = {} /\ passed = {}
    /\ cpc = "idle"
    /\ chosen = Nil
    /\ toFluff = {}
    /\ lag = 0

(***************************************************************************)
(* The clock.  Ages stop where no comparison can tell them apart.          *)
(***************************************************************************)
Older(h) ==
    CASE entry[h] = "none" -> timer[h]
      [] entry[h] = "stemming" ->
            IF timer[h] > - MaxLag THEN timer[h] - 1 ELSE timer[h]
      [] entry[h] = "fluffed" ->
            IF timer[h] <= PruneAge + MaxLag THEN timer[h] + 1 ELSE timer[h]

RelayTick ==
    /\ cpc # "idle" => lag < MaxLag
    /\ timer' = [h \in Hashes |-> Older(h)]
    /\ epochAge' = IF epochAge < Epoch THEN epochAge + 1 ELSE epochAge
    /\ lag' = IF cpc = "idle" THEN 0 ELSE lag + 1
    /\ UNCHANGED <<have, entry, plain, stem, cpc, chosen, toFluff>>
    /\ UNCHANGED <<peers, history, casting>>

(***************************************************************************)
(* Connections.  Outbound ones are made by the connector between passes,   *)
(* inbound ones by the network thread, which also runs the handshake and   *)
(* closes.  Registering and removing take reg->lock.                       *)
(***************************************************************************)
NetworkFree == job["network"] = Nil

bm_peer_registry_add(p) ==
    /\ link[p] = "none" /\ holder = Nil
    /\ IF p \in Stemmers THEN cpc = "idle" ELSE NetworkFree
    /\ link' = [link EXCEPT ![p] = "new"]
    /\ UNCHANGED <<have, stem, epochAge, told, gave, leftOut>>
    /\ UNCHANGED <<entries, history, casting, connector>>

(* version and verack: the services are known, and addr and the big inv    *)
(* are due after BM_VERACK_REPLY_DELAY_SECONDS.                            *)
HandshakeDone(p) ==
    /\ link[p] = "new" /\ NetworkFree
    /\ link' = [link EXCEPT ![p] = "pending"]
    /\ UNCHANGED <<have, stem, epochAge, told, gave, leftOut>>
    /\ UNCHANGED <<entries, history, casting, connector>>

bm_peer_registry_remove(p) ==
    /\ link[p] # "none" /\ NetworkFree /\ holder = Nil
    /\ link' = [link EXCEPT ![p] = "none"]
    /\ told' = [h \in Hashes |-> told[h] \ {p}]
    /\ gave' = [h \in Hashes |-> gave[h] \ {p}]
    /\ leftOut' = [h \in Hashes |-> leftOut[h] \ {p}]
    /\ UNCHANGED <<have, stem, epochAge>>
    /\ UNCHANGED <<entries, history, casting, connector>>

bm_dandelion_is_stemming_WhenKnown(h) == entry[h] # "none"

bm_dandelion_is_stemming(h) == entry[h] = "stemming"

(* Under reg->lock, the big inv: all we have but what is still stemming.   *)
send_big_inv(p) ==
    /\ link[p] = "pending" /\ NetworkFree /\ holder = Nil
    /\ link' = [link EXCEPT ![p] = "done"]
    /\ told' = [h \in Hashes |->
                   IF h \in have /\ ~ bm_dandelion_is_stemming(h)
                   THEN told[h] \cup {p} ELSE told[h]]
    /\ leftOut' = [h \in Hashes |-> leftOut[h] \ told'[h]]
    /\ UNCHANGED <<have, stem, epochAge, gave>>
    /\ UNCHANGED <<entries, history, casting, connector>>

(***************************************************************************)
(* Objects and hashes that arrive or are made.  Storing an object comes    *)
(* before its broadcast, which then waits for reg->lock.                   *)
(***************************************************************************)
(* find_or_create_entry: a new entry draws its deadline.                   *)
Entered(h, t) ==
    IF entry[h] = "none"
    THEN [state |-> "stemming", time |-> t]
    ELSE [state |-> entry[h], time |-> timer[h]]

(* bm_dandelion_note_source does nothing for a dinv.                       *)
bm_dandelion_note_source(h, p) ==
    /\ link[p] # "none" /\ NetworkFree
    /\ h \notin have
    /\ \E t \in Timeouts :
          /\ entry' = [entry EXCEPT ![h] = Entered(h, t).state]
          /\ timer' = [timer EXCEPT ![h] = Entered(h, t).time]
    /\ plain' = plain \cup {h}
    /\ viaInv' = viaInv \cup {h}
    /\ UNCHANGED <<have, stem, epochAge, stemmed, own>>
    /\ UNCHANGED <<peers, casting, connector>>

(* handle_object asks for no handshake.                                    *)
ReceiveObject(h, p) ==
    /\ link[p] # "none" /\ NetworkFree
    /\ h \notin have
    /\ have' = have \cup {h}
    /\ gave' = [gave EXCEPT ![h] = @ \cup {p}]
    /\ job' = [job EXCEPT !["network"] = h]
    /\ except' = p
    /\ UNCHANGED <<stem, epochAge, link, told, leftOut, holder, todo, passed>>
    /\ UNCHANGED <<entries, history, connector>>

(* The end of handle_object for a msg to one of our identities,            *)
(* validate_and_store_ack: h is the ack in it, and is broadcast to all but *)
(* p, which gave us the msg but has not the ack.  The msg, broadcast       *)
(* before, is an object like any other, in Hashes or not.                  *)
ReceiveAck(h, p) ==
    /\ link[p] # "none" /\ NetworkFree
    /\ h \notin have
    /\ have' = have \cup {h}
    /\ leftOut' = [leftOut EXCEPT ![h] = @ \cup {p}]
    /\ job' = [job EXCEPT !["network"] = h]
    /\ except' = p
    /\ UNCHANGED <<stem, epochAge, link, told, gave, holder, todo, passed>>
    /\ UNCHANGED <<entries, history, connector>>

(* handle_getpubkey announces its cached answer again.                     *)
reuse_cached_pubkey_response(h) ==
    /\ NetworkFree
    /\ h \in own
    /\ job' = [job EXCEPT !["network"] = h]
    /\ except' = Nil
    /\ UNCHANGED <<have, stem, epochAge, holder, todo, passed>>
    /\ UNCHANGED <<entries, peers, history, connector>>

(* An object made here, unknown to anyone else:                            *)
(* bm_object_sync_broadcast_thread, and in the same order the completions  *)
(* of resends and getpubkey answers.                                       *)
bm_object_sync_broadcast_thread(h) ==
    /\ job["publisher"] = Nil
    /\ h \notin have /\ h \notin viaInv
    /\ have' = have \cup {h}
    /\ own' = own \cup {h}
    /\ job' = [job EXCEPT !["publisher"] = h]
    /\ UNCHANGED <<stem, epochAge, stemmed, viaInv>>
    /\ UNCHANGED <<except, holder, todo, passed>>
    /\ UNCHANGED <<entries, peers, connector>>

(***************************************************************************)
(* bm_peer_registry_broadcast_inv.                                         *)
(***************************************************************************)
Excepted(t) == IF t = "network" THEN {except} ELSE {}

BroadcastBegin(t) ==
    /\ job[t] # Nil /\ holder = Nil
    /\ holder' = t
    /\ todo' = Registered \ Excepted(t)
    /\ passed' = {}
    /\ UNCHANGED <<have, stem, epochAge, job, except>>
    /\ UNCHANGED <<entries, peers, history, connector>>

(* The conditions of bm_dandelion_decide, for an entry e of h.             *)
Fluffs(h, e) ==
    \/ e.state = "fluffed"
    \/ e.time <= 0
    \/ stem = Nil
    \/ h \in plain

(* queue_inv_for_conn: decide for one connection, by a clock read for this *)
(* decision, and queue the inv or dinv.  A connection that cannot take it  *)
(* is evicted by the sweep.  If a deadline or a new stem makes the object  *)
(* fluff half way, those passed until then are left out.                   *)
queue_inv_for_conn(p) ==
    /\ p \in todo
    /\ todo' = todo \ {p}
    /\ \E t \in Timeouts :
          LET h == job[holder]
              e == Entered(h, t)
          IN  IF Fluffs(h, e)
              THEN /\ entry' = [entry EXCEPT ![h] = "fluffed"]
                   /\ timer' = [timer EXCEPT ![h] =
                                   IF e.state = "fluffed" THEN e.time ELSE 0]
                   /\ told' = [told EXCEPT ![h] = @ \cup {p}]
                   /\ leftOut' = [leftOut EXCEPT ![h] =
                                     (@ \cup passed) \ {p}]
                   /\ passed' = {}
                   /\ UNCHANGED stemmed
              ELSE /\ entry' = [entry EXCEPT ![h] = e.state]
                   /\ timer' = [timer EXCEPT ![h] = e.time]
                   /\ stemmed' = IF p = stem THEN stemmed \cup {h} ELSE stemmed
                   /\ passed' = passed \cup ({p} \ (told[h] \cup gave[h]))
                   /\ UNCHANGED <<told, leftOut>>
    /\ UNCHANGED <<have, plain, stem, epochAge, link, gave, viaInv, own>>
    /\ UNCHANGED <<job, except, holder, connector>>

BroadcastEnd ==
    /\ holder # Nil /\ todo = {}
    /\ job' = [job EXCEPT ![holder] = Nil]
    /\ except' = IF holder = "network" THEN Nil ELSE except
    /\ holder' = Nil
    /\ passed' = {}
    /\ UNCHANGED <<have, stem, epochAge, todo>>
    /\ UNCHANGED <<entries, peers, history, connector>>

(***************************************************************************)
(* The connector's pass: bm_dandelion_maybe_reshuffle in three sections,   *)
(* then bm_dandelion_expire_and_refluff.                                   *)
(***************************************************************************)
ReshuffleBegin ==
    /\ cpc = "idle"
    /\ lag' = 0
    /\ IF epochAge < Epoch
       THEN cpc' = "expire" /\ UNCHANGED epochAge
       ELSE cpc' = "pick" /\ epochAge' = 0
    /\ UNCHANGED <<have, stem, chosen, toFluff>>
    /\ UNCHANGED <<entries, peers, history, casting>>

Eligible == {p \in Stemmers : link[p] \in {"pending", "done"}}

bm_peer_registry_pick_random_dandelion_peer ==
    /\ cpc = "pick" /\ holder = Nil
    /\ IF Eligible = {} THEN chosen' = Nil ELSE chosen' \in Eligible
    /\ cpc' = "set"
    /\ UNCHANGED <<have, stem, epochAge, toFluff, lag>>
    /\ UNCHANGED <<entries, peers, history, casting>>

ReshuffleEnd ==
    /\ cpc = "set"
    /\ stem' = chosen
    /\ chosen' = Nil
    /\ cpc' = "expire"
    /\ UNCHANGED <<have, epochAge, toFluff, lag>>
    /\ UNCHANGED <<entries, peers, history, casting>>

(* As of the connector's reading of the clock.                             *)
Expired_Swapped(h) == entry[h] = "stemming" /\ timer[h] + lag > 0

Expired(h) == entry[h] = "stemming" /\ timer[h] + lag <= 0
Prunable(h) == entry[h] = "fluffed" /\ timer[h] - lag > PruneAge

(* At most MaxExpire of the expired are marked; which ones, the order of   *)
(* the array decides, and here any.                                        *)
Marked(due) ==
    {S \in SUBSET due :
        \/ S = due /\ Cardinality(due) <= MaxExpire
        \/ Cardinality(S) = MaxExpire /\ Cardinality(due) > MaxExpire}

bm_dandelion_expire_and_refluff ==
    /\ cpc = "expire"
    /\ \E S \in Marked({h \in Hashes : Expired(h)}) :
          /\ toFluff' = S
          /\ entry' = [h \in Hashes |->
                          CASE h \in S -> "fluffed"
                            [] Prunable(h) -> "none"
                            [] OTHER -> entry[h]]
          /\ timer' = [h \in Hashes |->
                          CASE h \in S -> lag
                            [] Prunable(h) -> 0
                            [] OTHER -> timer[h]]
          /\ plain' = {h \in plain : ~ Prunable(h)}
    /\ cpc' = "refluff"
    /\ UNCHANGED <<have, stem, epochAge, chosen, lag>>
    /\ UNCHANGED <<peers, history, casting>>

(* Each marked hash is announced, if by now we have the object.            *)
RefluffOne_Unchecked(h) ==
    /\ cpc = "refluff" /\ h \in toFluff /\ job["connector"] = Nil
    /\ toFluff' = toFluff \ {h}
    /\ job' = [job EXCEPT !["connector"] = h]
    /\ UNCHANGED <<have, stem, epochAge, except, holder, todo, passed>>
    /\ UNCHANGED <<cpc, chosen, lag, entries, peers, history>>

RefluffOne(h) ==
    /\ cpc = "refluff" /\ h \in toFluff /\ job["connector"] = Nil
    /\ toFluff' = toFluff \ {h}
    /\ job' = [job EXCEPT !["connector"] = IF h \in have THEN h ELSE Nil]
    /\ UNCHANGED <<have, stem, epochAge, except, holder, todo, passed>>
    /\ UNCHANGED <<cpc, chosen, lag, entries, peers, history>>

PassEnd ==
    /\ cpc = "refluff" /\ toFluff = {} /\ job["connector"] = Nil
    /\ cpc' = "idle"
    /\ lag' = 0
    /\ UNCHANGED <<have, stem, epochAge, chosen, toFluff>>
    /\ UNCHANGED <<entries, peers, history, casting>>

Broadcasting ==
    \/ \E t \in Broadcasters : BroadcastBegin(t)
    \/ \E p \in Peers : queue_inv_for_conn(p)
    \/ BroadcastEnd

ConnectorStep ==
    \/ ReshuffleBegin
    \/ bm_peer_registry_pick_random_dandelion_peer
    \/ ReshuffleEnd
    \/ bm_dandelion_expire_and_refluff
    \/ \E h \in Hashes : RefluffOne(h)
    \/ PassEnd

PeerStep(p) ==
    \/ bm_peer_registry_add(p)
    \/ HandshakeDone(p)
    \/ bm_peer_registry_remove(p)
    \/ send_big_inv(p)
    \/ \E h \in Hashes :
          \/ bm_dandelion_note_source(h, p)
          \/ ReceiveObject(h, p)
          \/ ReceiveAck(h, p)

ObjectStep(h) ==
    \/ reuse_cached_pubkey_response(h)
    \/ bm_object_sync_broadcast_thread(h)

RelayNext ==
    \/ RelayTick
    \/ \E p \in Peers : PeerStep(p)
    \/ \E h \in Hashes : ObjectStep(h)
    \/ Broadcasting
    \/ ConnectorStep

RelaySpec == RelayInit /\ [][RelayNext]_relayVars

(* Time passes; the connector's thread and a thread in a broadcast are     *)
(* scheduled; and reg->lock, released again and again, goes in the end to  *)
(* some thread with a broadcast to make, and to the connector.             *)
RelayFairSpec ==
    /\ RelaySpec
    /\ SF_relayVars(RelayTick)
    /\ WF_relayVars(BroadcastEnd \/ \E p \in Peers : queue_inv_for_conn(p))
    /\ SF_relayVars(\E t \in Broadcasters : BroadcastBegin(t))
    /\ SF_relayVars(ConnectorStep)
    /\ SF_relayVars(bm_peer_registry_pick_random_dandelion_peer)

(* No inv is sent for an object we do not have: every getdata it brings    *)
(* would be answered notfound (dandelion.c:385, the has check before the   *)
(* refluff, and the store before every broadcast).                         *)
AdvertisesHeld == \A h \in Hashes \ have : told[h] = {} /\ h \notin stemmed

(* A peer past its handshake was told of every object we have, or gave it  *)
(* to us, unless the object is still stemming, its announcement is still   *)
(* to come, or a broadcast left the peer out for one of two reasons: the   *)
(* object is an ack and the peer gave us the msg it came in                *)
(* (object_sync.c:328), or the peer was passed while the object was        *)
(* stemming and a deadline or a new stem then made the rest of the         *)
(* broadcast an inv (object.c:64).  Otherwise, between the broadcasts, the *)
(* big inv and the expiry of stems, nobody is forgotten                    *)
(* (peer_registry.c:303, object_sync.c:1664, dandelion.c:344).             *)
ToCome(h) == h \in toFluff \/ \E t \in Broadcasters : job[t] = h

NobodyForgotten ==
    \A h \in have, p \in Peers :
        \/ link[p] # "done"
        \/ p \in told[h] \cup gave[h] \cup leftOut[h]
        \/ entry[h] = "stemming"
        \/ ToCome(h)

(* The same with nobody left out, which the two cases refute.              *)
NobodyLeftOut ==
    \A h \in have, p \in Peers :
        \/ link[p] # "done"
        \/ p \in told[h] \cup gave[h]
        \/ entry[h] = "stemming"
        \/ ToCome(h)

(* In the end, and again whenever peers have joined since, everyone past   *)
(* the handshake is told of an object we have, but for those a broadcast   *)
(* left out in one of the two cases of NobodyForgotten: although nobody    *)
(* asks for a decision on a stemming object again, its deadline passes,    *)
(* the connector marks the entry and its broadcast runs (dandelion.c:344). *)
EventuallyTold ==
    \A h \in Hashes :
        h \in have ~>
            \A p \in Peers : \/ link[p] # "done"
                             \/ p \in told[h] \cup gave[h] \cup leftOut[h]

(* An object learned from a plain inv is public, and is never stemmed      *)
(* (dandelion.h:13, learned_via_plain_inv).                                *)
PublicIsNotStemmed == viaInv \cap stemmed = {}

(* While an object is in its stem phase no peer has been sent it in an inv *)
(* (dandelion.h:5; bm_dandelion_is_stemming keeps it out of the big inv).  *)
StemFirst ==
    \A h \in Hashes : entry[h] = "stemming" => told[h] = {}
=============================================================================
