---------------------------- MODULE RelayProofs -----------------------------
(***************************************************************************)
(* Proofs about the objects that go from peer to peer: who is told of one, *)
(* for any peers, objects, deadlines and limits (module Dandelion), and    *)
(* how it is asked for, handled and sent, for any objects and lifetimes,   *)
(* any sequence of requests, any limit and any first capacity (module      *)
(* ObjectExchange). Neither section uses the other.                        *)
(***************************************************************************)
EXTENDS Dandelion, ObjectExchange, TLAPS

-----------------------------------------------------------------------------
(* Dandelion.  Types and AdvertisesHeld need only that a broadcast under   *)
(* way is of an object we have (JobInv).  NobodyForgotten is not           *)
(* inductive: a peer that a broadcast passed over has to find the object   *)
(* still stemming when the broadcast ends, or to be among those left out   *)
(* when a later decision of the same broadcast fluffs it.  Covered says    *)
(* why each peer is accounted for.                                         *)

JobInv ==
    /\ \A t \in Broadcasters : job[t] # Nil => job[t] \in have
    /\ except # Nil =>
          /\ job["network"] # Nil
          /\ except \in gave[job["network"]] \cup leftOut[job["network"]]
                          \cup told[job["network"]]
    /\ toFluff # {} => cpc = "refluff"

BroadcastOf(h) == holder # Nil /\ job[holder] = h

Waiting(h) == \E t \in Broadcasters : job[t] = h /\ holder # t

Knows(h, p) == p \in told[h] \cup gave[h] \cup leftOut[h]

Covered(h, p) ==
    \/ link[p] # "done"
    \/ Knows(h, p)
    \/ h \in toFluff
    \/ Waiting(h)
    \/ BroadcastOf(h) /\ p \in todo
    \/ entry[h] = "stemming" /\ (BroadcastOf(h) => p \in passed)

CoverInv == \A h \in have, p \in Peers : Covered(h, p)

(* The module starts with nothing stored, registered or under way.         *)
LEMMA InitTypes == RelayInit => DandelionTypeOK /\ JobInv
  BY BroadcasterAssumption, PeerAssumption, HashAssumption, TimeAssumption
     DEF RelayInit, DandelionTypeOK, JobInv, Broadcasters, Registered

(* One decision of a broadcast is about its object only, which is fluffed  *)
(* and announced to the peer, or stemming with the peer among the passed.  *)
LEMMA QueueStep ==
  ASSUME DandelionTypeOK, NEW q \in Peers, queue_inv_for_conn(q)
  PROVE  /\ job[holder] \in Hashes /\ todo' = todo \ {q}
         /\ UNCHANGED <<have, link, gave, job, except, holder, toFluff>>
         /\ \A h \in Hashes :
               /\ told[h] \cup leftOut[h] \subseteq told'[h] \cup leftOut'[h]
               /\ h # job[holder] =>
                     /\ entry'[h] = entry[h] /\ told'[h] = told[h]
                     /\ h \in stemmed' => h \in stemmed
               /\ h = job[holder] =>
                     \/ q \in told'[h] /\ passed \subseteq told'[h] \cup leftOut'[h]
                     \/ /\ entry'[h] = "stemming" /\ passed \subseteq passed'
                        /\ q \in passed' \cup told'[h] \cup gave'[h]
<1>1. /\ entry \in [Hashes -> {"none", "stemming", "fluffed"}] /\ timer \in [Hashes -> Int]
      /\ told \in [Hashes -> SUBSET Peers] /\ leftOut \in [Hashes -> SUBSET Peers]
      /\ holder \in Broadcasters \cup {Nil}
      /\ job \in [Broadcasters -> Hashes \cup {Nil}] /\ (holder # Nil => job[holder] # Nil)
      /\ todo \subseteq Registered /\ (holder = Nil => todo = {})
  BY Zenon DEF DandelionTypeOK
<1>2. job[holder] \in Hashes /\ todo' = todo \ {q}
  BY <1>1, Zenon DEF queue_inv_for_conn
<1>3. UNCHANGED <<have, link, gave, job, except, holder, toFluff>>
  BY Zenon DEF queue_inv_for_conn, connector
<1> DEFINE g == job[holder]
<1>4. PICK t \in Timeouts :
          IF Fluffs(g, Entered(g, t))
          THEN /\ entry' = [entry EXCEPT ![g] = "fluffed"]
               /\ told' = [told EXCEPT ![g] = @ \cup {q}]
               /\ leftOut' = [leftOut EXCEPT ![g] = (@ \cup passed) \ {q}]
               /\ UNCHANGED stemmed
          ELSE /\ entry' = [entry EXCEPT ![g] = Entered(g, t).state]
               /\ stemmed' = IF q = stem THEN stemmed \cup {g} ELSE stemmed
               /\ passed' = passed \cup ({q} \ (told[g] \cup gave[g]))
               /\ UNCHANGED <<told, leftOut>>
  BY Zenon DEF queue_inv_for_conn
<1>5. CASE Fluffs(g, Entered(g, t))
  <2>1. /\ told'[g] = told[g] \cup {q} /\ leftOut'[g] = (leftOut[g] \cup passed) \ {q}
        /\ UNCHANGED stemmed
        /\ \A h \in Hashes : h # g => /\ entry'[h] = entry[h] /\ told'[h] = told[h]
                                      /\ leftOut'[h] = leftOut[h]
    BY <1>1, <1>2, <1>4, <1>5
  <2> HIDE DEF g
  <2>2. \A h \in Hashes : told[h] \cup leftOut[h] \subseteq told'[h] \cup leftOut'[h]
    BY <2>1
  <2>3. q \in told'[g] /\ passed \subseteq told'[g] \cup leftOut'[g]
    BY <2>1
  <2> QED BY <1>2, <1>3, <2>1, <2>2, <2>3, Zenon DEF g
<1>6. CASE ~ Fluffs(g, Entered(g, t))
  <2>1. /\ UNCHANGED <<told, leftOut>> /\ entry'[g] = Entered(g, t).state
        /\ passed' = passed \cup ({q} \ (told[g] \cup gave[g]))
        /\ \A h \in Hashes : h # g => /\ entry'[h] = entry[h]
                                      /\ h \in stemmed' => h \in stemmed
    BY <1>1, <1>2, <1>4, <1>6
  <2>2. Entered(g, t).state = "stemming"
    BY <1>1, <1>2, <1>6 DEF Fluffs, Entered
  <2>3. passed \subseteq passed' /\ q \in passed' \cup told'[g] \cup gave'[g]
    BY <1>3, <2>1
  <2> QED BY <1>2, <1>3, <2>1, <2>2, <2>3, Zenon
<1> QED BY <1>5, <1>6, Zenon

(* Every step keeps the types, for any constants the code may have.        *)
LEMMA RelayTypeStep ==
  ASSUME DandelionTypeOK, [RelayNext]_relayVars
  PROVE  DandelionTypeOK'
<1> USE BroadcasterAssumption, PeerAssumption, HashAssumption, TimeAssumption
    DEF DandelionTypeOK, Broadcasters, Registered
<1>1. CASE RelayTick
  BY <1>1 DEF RelayTick, Older, peers, history, casting
<1>2. ASSUME NEW p \in Peers, bm_peer_registry_add(p) \/ HandshakeDone(p)
      PROVE  DandelionTypeOK'
  BY <1>2 DEF bm_peer_registry_add, HandshakeDone, entries, history, casting, connector
<1>3. ASSUME NEW p \in Peers, bm_peer_registry_remove(p) \/ send_big_inv(p)
      PROVE  DandelionTypeOK'
  BY <1>3 DEF bm_peer_registry_remove, send_big_inv, entries, history, casting, connector
<1>4. ASSUME NEW p \in Peers, NEW h \in Hashes,
             bm_dandelion_note_source(h, p) \/ ReceiveObject(h, p)
             \/ ReceiveAck(h, p)
      PROVE  DandelionTypeOK'
  <2>1. CASE bm_dandelion_note_source(h, p)
    BY <2>1 DEF bm_dandelion_note_source, Entered, peers, casting, connector
  <2>2. CASE ReceiveObject(h, p)
    BY <2>2 DEF ReceiveObject, NetworkFree, entries, history, connector
  <2>3. CASE ReceiveAck(h, p)
    BY <2>3 DEF ReceiveAck, NetworkFree, entries, history, connector
  <2> QED BY <1>4, <2>1, <2>2, <2>3, Zenon
<1>5. ASSUME NEW h \in Hashes, ObjectStep(h)
      PROVE  DandelionTypeOK'
  BY <1>5 DEF ObjectStep, reuse_cached_pubkey_response, NetworkFree,
              bm_object_sync_broadcast_thread, entries, peers, history, connector
<1>6. CASE Broadcasting
  <2>1. ASSUME NEW t \in Broadcasters, BroadcastBegin(t)
        PROVE  DandelionTypeOK'
    BY <2>1 DEF BroadcastBegin, entries, peers, history, connector
  <2>2. ASSUME NEW p \in Peers, queue_inv_for_conn(p)
        PROVE  DandelionTypeOK'
    <3>1. job[holder] \in Hashes
      BY <2>2, Zenon DEF queue_inv_for_conn
    <3>2. /\ entry' \in [Hashes -> {"none", "stemming", "fluffed"}]
          /\ timer' \in [Hashes -> Int]
          /\ told' \in [Hashes -> SUBSET Peers]
          /\ stemmed' \subseteq Hashes
      BY <2>2, <3>1 DEF queue_inv_for_conn, Entered
    <3>3. leftOut' \in [Hashes -> SUBSET Peers] /\ passed' \subseteq Peers
      BY <2>2, <3>1 DEF queue_inv_for_conn
    <3> QED BY <2>2, <3>2, <3>3, Zenon DEF queue_inv_for_conn, connector
  <2>3. CASE BroadcastEnd
    BY <2>3, Zenon DEF BroadcastEnd, entries, peers, history, connector
  <2> QED BY <1>6, <2>1, <2>2, <2>3, ZenonT(60) DEF Broadcasting
<1>7. CASE ConnectorStep
  <2>1. CASE ReshuffleBegin \/ PassEnd
    BY <2>1 DEF ReshuffleBegin, PassEnd, entries, peers, history, casting
  <2>2. CASE bm_peer_registry_pick_random_dandelion_peer \/ ReshuffleEnd
    BY <2>2 DEF bm_peer_registry_pick_random_dandelion_peer, ReshuffleEnd, Eligible,
                entries, peers, history, casting
  <2>3. CASE bm_dandelion_expire_and_refluff
    BY <2>3 DEF bm_dandelion_expire_and_refluff, Marked, peers, history, casting
  <2>4. ASSUME NEW h \in Hashes, RefluffOne(h)
        PROVE  DandelionTypeOK'
    BY <2>4, Zenon DEF RefluffOne, entries, peers, history
  <2> QED BY <1>7, <2>1, <2>2, <2>3, <2>4, Zenon DEF ConnectorStep
<1>8. CASE UNCHANGED relayVars
  BY <1>8 DEF relayVars
<1> HIDE DEF DandelionTypeOK
<1>9. ASSUME NEW p \in Peers, PeerStep(p)
      PROVE  DandelionTypeOK'
  BY <1>2, <1>3, <1>4, <1>9, Zenon DEF PeerStep
<1> QED BY <1>1, <1>5, <1>6, <1>7, <1>8, <1>9, Zenon DEF RelayNext

(* A broadcast under way stays one of an object we have, and the peer it   *)
(* leaves out gave us the object or, for an ack, the msg it came in; what  *)
(* is to be fluffed is worked off before the next pass.                    *)
LEMMA JobStep ==
  ASSUME DandelionTypeOK, JobInv, [RelayNext]_relayVars
  PROVE  JobInv'
<1>0. /\ have \subseteq Hashes /\ own \subseteq have /\ gave \in [Hashes -> SUBSET Peers]
      /\ told \in [Hashes -> SUBSET Peers] /\ leftOut \in [Hashes -> SUBSET Peers]
      /\ job \in [Broadcasters -> Hashes \cup {Nil}]
      /\ except \in Peers \cup {Nil} /\ toFluff \subseteq Hashes
      /\ holder \in Broadcasters \cup {Nil} /\ (holder # Nil => job[holder] # Nil)
  BY DEF DandelionTypeOK
<1> USE <1>0, BroadcasterAssumption, PeerAssumption, HashAssumption DEF JobInv, Broadcasters
<1>1. CASE RelayTick
  BY <1>1 DEF RelayTick, peers, casting
<1>2. ASSUME NEW p \in Peers,
             bm_peer_registry_add(p) \/ HandshakeDone(p)
      PROVE  JobInv'
  BY <1>2, Zenon DEF bm_peer_registry_add, HandshakeDone, casting, connector
<1>3. ASSUME NEW p \in Peers, bm_peer_registry_remove(p) \/ send_big_inv(p)
      PROVE  JobInv'
  BY <1>3, Zenon DEF bm_peer_registry_remove, send_big_inv, NetworkFree, casting, connector
<1>4. ASSUME NEW p \in Peers, NEW h \in Hashes,
             bm_dandelion_note_source(h, p) \/ ReceiveObject(h, p)
             \/ ReceiveAck(h, p)
      PROVE  JobInv'
  <2>1. CASE bm_dandelion_note_source(h, p)
    BY <2>1, Zenon DEF bm_dandelion_note_source, peers, casting, connector
  <2>2. CASE ReceiveObject(h, p)
    BY <2>2 DEF ReceiveObject, connector
  <2>3. CASE ReceiveAck(h, p)
    BY <2>3 DEF ReceiveAck, connector
  <2> QED BY <1>4, <2>1, <2>2, <2>3, Zenon
<1>5. ASSUME NEW h \in Hashes, ObjectStep(h)
      PROVE  JobInv'
  BY <1>5, Zenon DEF ObjectStep, reuse_cached_pubkey_response,
              bm_object_sync_broadcast_thread, peers, connector
<1>6. CASE Broadcasting
  <2>1. ASSUME NEW t \in Broadcasters, BroadcastBegin(t)
        PROVE  JobInv'
    BY <2>1 DEF BroadcastBegin, peers, connector
  <2>2. ASSUME NEW p \in Peers, queue_inv_for_conn(p)
        PROVE  JobInv'
    <3>1. UNCHANGED <<have, gave, job, except, toFluff, cpc>>
      BY <2>2, Zenon DEF queue_inv_for_conn, connector
    <3>2. \A h \in Hashes :
             told[h] \cup leftOut[h] \subseteq told'[h] \cup leftOut'[h]
      BY <2>2, QueueStep, Zenon
    <3> QED BY <3>1, <3>2
  <2>3. CASE BroadcastEnd
    BY <2>3 DEF BroadcastEnd, peers, connector
  <2> QED BY <1>6, <2>1, <2>2, <2>3, Zenon DEF Broadcasting
<1>7. CASE ConnectorStep
  <2>1. CASE ReshuffleBegin \/ PassEnd
    BY <2>1, Zenon DEF ReshuffleBegin, PassEnd, peers, casting
  <2>2. CASE bm_peer_registry_pick_random_dandelion_peer \/ ReshuffleEnd
    BY <2>2, Zenon DEF bm_peer_registry_pick_random_dandelion_peer, ReshuffleEnd, peers,
       casting
  <2>3. CASE bm_dandelion_expire_and_refluff
    BY <2>3 DEF bm_dandelion_expire_and_refluff, peers, casting
  <2>4. ASSUME NEW h \in Hashes, RefluffOne(h)
        PROVE  JobInv'
    BY <2>4 DEF RefluffOne, peers
  <2> QED BY <1>7, <2>1, <2>2, <2>3, <2>4, Zenon DEF ConnectorStep
<1>8. CASE UNCHANGED relayVars
  BY <1>8, Zenon DEF relayVars
<1> QED BY <1>1, <1>2, <1>3, <1>4, <1>5, <1>6, <1>7, <1>8, Zenon DEF RelayNext, PeerStep

(* Types and jobs, together.                                               *)
LEMMA AlwaysTypes == RelaySpec => [](DandelionTypeOK /\ JobInv)
<1>1. DandelionTypeOK /\ JobInv /\ [RelayNext]_relayVars => (DandelionTypeOK /\ JobInv)'
  BY RelayTypeStep, JobStep
<1> QED BY InitTypes, <1>1, PTL DEF RelaySpec

(* Every variable keeps its type: the holder of reg->lock has a broadcast  *)
(* to make and visits only registered connections, the stem is an outbound *)
(* peer that offers the service.                                           *)
THEOREM DandelionTypes == RelaySpec => []DandelionTypeOK
  BY AlwaysTypes, PTL

(* No hash is ever announced, by inv or dinv, for an object not in         *)
(* object_pool.db.                                                         *)
THEOREM OnlyHeldAdvertised == RelaySpec => []AdvertisesHeld
<1>1. RelayInit => AdvertisesHeld
  BY DEF RelayInit, AdvertisesHeld
<1>2. ASSUME DandelionTypeOK, JobInv, AdvertisesHeld, [RelayNext]_relayVars
      PROVE  AdvertisesHeld'
  <2> USE <1>2 DEF AdvertisesHeld
  <2>1. ASSUME UNCHANGED <<told, stemmed>>, have \subseteq have'
        PROVE  AdvertisesHeld'
    BY <2>1
  <2>2. ASSUME NEW p \in Peers, bm_peer_registry_remove(p) \/ send_big_inv(p)
        PROVE  AdvertisesHeld'
    BY <2>2 DEF bm_peer_registry_remove, send_big_inv, history, DandelionTypeOK
  <2>3. ASSUME NEW p \in Peers, queue_inv_for_conn(p)
        PROVE  AdvertisesHeld'
    <3>1. job[holder] \in have
      BY <2>3, Zenon DEF queue_inv_for_conn, DandelionTypeOK, JobInv
    <3>2. \A h \in Hashes \ have : told'[h] = told[h] /\ (h \in stemmed' => h \in stemmed)
      BY <1>2, <2>3, <3>1, QueueStep, Zenon
    <3>3. have' = have
      BY <2>3, Zenon DEF queue_inv_for_conn
    <3> QED BY <3>2, <3>3
  <2>4. CASE RelayTick \/ ConnectorStep
    <3>1. UNCHANGED <<told, stemmed, have>>
      BY <2>4, Zenon DEF RelayTick, ConnectorStep, ReshuffleBegin, PassEnd, ReshuffleEnd,
         RefluffOne,
                  bm_peer_registry_pick_random_dandelion_peer,
                  bm_dandelion_expire_and_refluff, peers, history
    <3> QED BY <2>1, <3>1
  <2>5. ASSUME NEW p \in Peers, NEW h \in Hashes,
               bm_dandelion_note_source(h, p) \/ ReceiveObject(h, p)
               \/ ReceiveAck(h, p)
        PROVE  AdvertisesHeld'
    BY <2>1, <2>5, Zenon DEF bm_dandelion_note_source, ReceiveObject,
                             ReceiveAck, peers, history
  <2>6. ASSUME NEW t \in Broadcasters, BroadcastBegin(t) \/ BroadcastEnd
        PROVE  AdvertisesHeld'
    BY <2>1, <2>6, Zenon DEF BroadcastBegin, BroadcastEnd, peers, history
  <2>7. CASE UNCHANGED relayVars
    BY <2>1, <2>7, Zenon DEF relayVars
  <2>8. CASE Broadcasting
    <3> "network" \in Broadcasters
      BY DEF Broadcasters
    <3> QED BY <2>3, <2>6, <2>8 DEF Broadcasting
  <2>9. ASSUME NEW p \in Peers, PeerStep(p)
        PROVE  AdvertisesHeld'
    <3>1. CASE bm_peer_registry_add(p) \/ HandshakeDone(p)
      BY <2>1, <3>1, Zenon DEF bm_peer_registry_add, HandshakeDone, history
    <3> QED BY <2>2, <2>5, <2>9, <3>1, Zenon DEF PeerStep
  <2>10. ASSUME NEW h \in Hashes, ObjectStep(h)
         PROVE  AdvertisesHeld'
    BY <2>1, <2>10, Zenon DEF ObjectStep, reuse_cached_pubkey_response,
                       bm_object_sync_broadcast_thread, peers, history
  <2> QED BY <1>2, <2>4, <2>7, <2>8, <2>9, <2>10, Zenon DEF RelayNext
<1>3. DandelionTypeOK /\ JobInv /\ AdvertisesHeld /\ [RelayNext]_relayVars => AdvertisesHeld'
  BY <1>2
<1> QED BY <1>1, <1>3, AlwaysTypes, PTL DEF RelaySpec

(* Steps that leave the bookkeeping of announcements alone, or add to it.  *)
LEMMA CoverKept ==
  ASSUME CoverInv,
         UNCHANGED <<have, entry, job, holder, todo, passed, toFluff>>,
         \A p \in Peers : link'[p] = "done" => link[p] = "done",
         \A h \in have, p \in Peers :
             link'[p] = "done" /\ Knows(h, p) => Knows(h, p)'
  PROVE  CoverInv'
  BY Zenon DEF CoverInv, Covered, Waiting, BroadcastOf

(* A step that stores an object leaves its broadcast to be made.           *)
LEMMA CoverStored ==
  ASSUME CoverInv, DandelionTypeOK, NEW t \in Broadcasters, job[t] = Nil,
         NEW g \in Hashes, have' = have \cup {g}, job' = [job EXCEPT ![t] = g],
         UNCHANGED <<entry, link, holder, todo, passed, toFluff>>,
         \A h \in have, p \in Peers : Knows(h, p) => Knows(h, p)'
  PROVE  CoverInv'
<1>1. /\ job \in [Broadcasters -> Hashes \cup {Nil}] /\ have \subseteq Hashes
      /\ holder \in Broadcasters \cup {Nil} /\ (holder # Nil => job[holder] # Nil)
  BY Zenon DEF DandelionTypeOK
<1>2. /\ holder # t /\ Nil \notin Hashes /\ job'[t] = g
      /\ \A u \in Broadcasters : u # t => job'[u] = job[u]
  BY <1>1, HashAssumption, BroadcasterAssumption
<1>3. /\ Waiting(g)'
      /\ \A h \in have : Waiting(h) => Waiting(h)'
      /\ \A h \in have : BroadcastOf(h)' <=> BroadcastOf(h)
  BY <1>1, <1>2, BroadcasterAssumption, Zenon DEF Waiting, BroadcastOf
<1> QED BY <1>3, Zenon DEF CoverInv, Covered

(* No step forgets a peer.                                                 *)
LEMMA CoverStep ==
  ASSUME DandelionTypeOK, JobInv, CoverInv, [RelayNext]_relayVars
  PROVE  CoverInv'
<1>0. /\ have \subseteq Hashes /\ toFluff \subseteq Hashes
      /\ entry \in [Hashes -> {"none", "stemming", "fluffed"}]
      /\ link \in [Peers -> {"none", "new", "pending", "done"}]
      /\ told \in [Hashes -> SUBSET Peers] /\ gave \in [Hashes -> SUBSET Peers]
      /\ leftOut \in [Hashes -> SUBSET Peers]
      /\ job \in [Broadcasters -> Hashes \cup {Nil}] /\ except \in Peers \cup {Nil}
      /\ holder \in Broadcasters \cup {Nil} /\ (holder # Nil => job[holder] # Nil)
      /\ todo \subseteq Registered /\ (holder = Nil => todo = {})
  BY Zenon DEF DandelionTypeOK
<1> USE <1>0, BroadcasterAssumption, PeerAssumption, HashAssumption
<1>1. CASE RelayTick \/ ReshuffleBegin \/ PassEnd \/ ReshuffleEnd
           \/ bm_peer_registry_pick_random_dandelion_peer
  BY <1>1, CoverKept, Zenon
     DEF RelayTick, ReshuffleBegin, PassEnd, ReshuffleEnd, Knows,
         bm_peer_registry_pick_random_dandelion_peer, entries, peers, casting
<1>2. ASSUME NEW p \in Peers, bm_peer_registry_add(p) \/ HandshakeDone(p)
      PROVE  CoverInv'
  BY <1>2, CoverKept, Zenon
     DEF bm_peer_registry_add, HandshakeDone, Knows, entries, casting, connector
<1>3. ASSUME NEW p \in Peers, bm_peer_registry_remove(p)
      PROVE  CoverInv'
  BY <1>3, CoverKept DEF bm_peer_registry_remove, Knows, entries, casting, connector
<1>4. ASSUME NEW p \in Peers, send_big_inv(p)
      PROVE  CoverInv'
  BY <1>4 DEF send_big_inv, bm_dandelion_is_stemming, CoverInv, Covered, Knows, Waiting,
              BroadcastOf, entries, casting, connector
<1>5. ASSUME NEW p \in Peers, NEW g \in Hashes, bm_dandelion_note_source(g, p)
      PROVE  CoverInv'
  BY <1>5 DEF bm_dandelion_note_source, Entered, CoverInv, Covered, Knows, Waiting,
              BroadcastOf, peers, casting, connector
<1>6. ASSUME NEW p \in Peers, NEW g \in Hashes,
             ReceiveObject(g, p) \/ ReceiveAck(g, p)
      PROVE  CoverInv'
  <2>1. /\ "network" \in Broadcasters /\ job["network"] = Nil
        /\ have' = have \cup {g} /\ job' = [job EXCEPT !["network"] = g]
        /\ UNCHANGED <<entry, link, holder, todo, passed, toFluff, told>>
    BY <1>6, Zenon DEF ReceiveObject, ReceiveAck, NetworkFree, Broadcasters,
                       entries, connector
  <2>2. \A h \in have, q \in Peers : Knows(h, q) => Knows(h, q)'
    BY <1>6 DEF ReceiveObject, ReceiveAck, Knows
  <2> QED BY <2>1, <2>2, CoverStored
<1>7. ASSUME NEW g \in Hashes, reuse_cached_pubkey_response(g)
      PROVE  CoverInv'
  BY <1>7 DEF reuse_cached_pubkey_response, NetworkFree, CoverInv, Covered, Knows, Waiting,
              BroadcastOf, entries, peers, connector, Broadcasters
<1>8. ASSUME NEW g \in Hashes, bm_object_sync_broadcast_thread(g)
      PROVE  CoverInv'
  <2>1. /\ "publisher" \in Broadcasters /\ job["publisher"] = Nil
        /\ have' = have \cup {g} /\ job' = [job EXCEPT !["publisher"] = g]
        /\ UNCHANGED <<entry, link, holder, todo, passed, toFluff, told, gave, leftOut>>
    BY <1>8, Zenon DEF bm_object_sync_broadcast_thread, Broadcasters, entries, peers,
                       connector
  <2>2. \A h \in have, q \in Peers : Knows(h, q) => Knows(h, q)'
    BY <2>1, Zenon DEF Knows
  <2> QED BY <2>1, <2>2, CoverStored
<1>9. ASSUME NEW t \in Broadcasters, BroadcastBegin(t)
      PROVE  CoverInv'
  <2>1. \A p \in Excepted(t) : p # Nil => Knows(job[t], p)
    BY <1>9, Zenon DEF Excepted, JobInv, Knows
  <2>2. \A p \in Peers : link[p] = "done" => p \in todo' \/ Knows(job[t], p)
    BY <1>9, <2>1 DEF BroadcastBegin, Registered
  <2> QED BY <1>9, <2>2 DEF BroadcastBegin, CoverInv, Covered, Knows, Waiting,
                            BroadcastOf, entries, peers, connector
<1>10. ASSUME NEW q \in Peers, queue_inv_for_conn(q)
       PROVE  CoverInv'
  <2>1. /\ todo' = todo \ {q} /\ job[holder] \in Hashes
        /\ UNCHANGED <<have, link, gave, job, except, holder, toFluff>>
    BY <1>10, QueueStep, Zenon
  <2> SUFFICES ASSUME NEW h \in have, NEW p \in Peers
               PROVE  Covered(h, p)'
    BY <2>1, Zenon DEF CoverInv
  <2>2. Covered(h, p) /\ h \in Hashes
    BY Zenon DEF CoverInv
  <2>3. Knows(h, p) => Knows(h, p)'
    <3>1. told[h] \cup leftOut[h] \subseteq told'[h] \cup leftOut'[h]
      BY <1>10, <2>2, QueueStep, Zenon
    <3> QED BY <2>1, <3>1 DEF Knows
  <2>4. /\ Waiting(h)' <=> Waiting(h)
        /\ BroadcastOf(h)' <=> BroadcastOf(h)
    BY <2>1, Zenon DEF Waiting, BroadcastOf
  <2>5. CASE BroadcastOf(h)
    <3>1. \/ q \in told'[h] /\ passed \subseteq told'[h] \cup leftOut'[h]
          \/ /\ entry'[h] = "stemming" /\ passed \subseteq passed'
             /\ q \in passed' \cup told'[h] \cup gave'[h]
      BY <1>10, <2>2, <2>5, QueueStep, Zenon DEF BroadcastOf
    <3>2. (p = q \/ p \in passed) =>
             \/ Knows(h, p)'
             \/ entry'[h] = "stemming" /\ p \in passed'
      BY <3>1 DEF Knows
    <3> QED BY <2>1, <2>2, <2>3, <2>4, <2>5, <3>2, Zenon DEF Covered
  <2>6. CASE ~ BroadcastOf(h)
    <3>1. holder # Nil
      BY <1>10, Zenon DEF queue_inv_for_conn
    <3>2. h # job[holder]
      BY <2>6, <3>1, Zenon DEF BroadcastOf
    <3>3. entry'[h] = entry[h]
      BY <1>10, <2>2, <3>2, QueueStep, Zenon
    <3> QED BY <2>1, <2>2, <2>3, <2>4, <2>6, <3>3, Zenon DEF Covered
  <2> QED BY <2>5, <2>6, Zenon
<1>11. CASE BroadcastEnd
  BY <1>11 DEF BroadcastEnd, CoverInv, Covered, Knows, Waiting, BroadcastOf, entries, peers,
               connector
<1>12. CASE bm_dandelion_expire_and_refluff
  BY <1>12 DEF bm_dandelion_expire_and_refluff, Marked, Expired, Prunable, JobInv, CoverInv,
               Covered, Knows, Waiting, BroadcastOf, peers, casting
<1>13. ASSUME NEW g \in Hashes, RefluffOne(g)
       PROVE  CoverInv'
  BY <1>13 DEF RefluffOne, CoverInv, Covered, Knows, Waiting, BroadcastOf, entries, peers,
               Broadcasters
<1>14. CASE UNCHANGED relayVars
  BY <1>14, CoverKept, Zenon DEF relayVars, Knows
<1> HIDE <1>0
<1> QED
  BY <1>1, <1>2, <1>3, <1>4, <1>5, <1>6, <1>7, <1>8, <1>9, <1>10, <1>11, <1>12, <1>13, <1>14,
     Zenon DEF RelayNext, PeerStep, ObjectStep, Broadcasting, ConnectorStep

(* For any schedule of deadlines, stems, broadcasts and connections: every *)
(* peer past its handshake was told of every object we have, gave it, will *)
(* be told when a stem or a broadcast under way ends, or was left out      *)
(* because a broadcast turned from stem to fluff after it was visited or   *)
(* because it gave us the msg in which the object, an ack, came.           *)
THEOREM NoneForgotten == RelaySpec => []NobodyForgotten
<1>1. RelayInit => CoverInv
  BY DEF RelayInit, CoverInv
<1>2. DandelionTypeOK /\ JobInv /\ CoverInv /\ [RelayNext]_relayVars => CoverInv'
  BY CoverStep
<1>3. DandelionTypeOK /\ CoverInv => NobodyForgotten
  BY Zenon DEF CoverInv, Covered, Knows, Waiting, BroadcastOf, NobodyForgotten, ToCome,
               DandelionTypeOK
<1> QED BY <1>1, <1>2, <1>3, AlwaysTypes, PTL DEF RelaySpec

-----------------------------------------------------------------------------
(* The pool and the handlers.                                              *)

(* An object that was handled is in the pool until it is so old that it is *)
(* not accepted any more.                                                  *)
StoreInv ==
    /\ now \in Nat /\ pool \subseteq Objects
    /\ handled \in [Objects -> Nat]
    /\ \A o \in Objects :
        /\ handled[o] <= 1
        /\ handled[o] = 1 => o \in pool \/ Expires[o] < now - GcGrace

(* Only the clock, the collection and an object that comes change what     *)
(* StoreInv speaks of.                                                     *)
LEMMA StoreSteps ==
    ASSUME [Next]_vars
    PROVE  \/ Tick \/ bm_object_sync_gc
           \/ \E o \in Objects, valid, opened \in BOOLEAN : handle_object(o, valid, opened)
           \/ UNCHANGED <<now, pool, handled>>
BY Zenon DEF Next, vars, store, OtherSend, handle_inv, handle_getdata,
       bm_object_sync_refill_uploads, RefillTurn, bm_network_begin_big_inv,
       EpollOut, SweepCloses, PeerCloses, close_connection, Sweep

LEMMA StoreInvInit == Init => StoreInv
BY DEF Init, StoreInv

(* The step of the proof that needs the two grace periods of the code: an  *)
(* object that is accepted and not in the pool was never handled.          *)
LEMMA StoreInvNext == StoreInv /\ [Next]_vars => StoreInv'
<1> SUFFICES ASSUME StoreInv, [Next]_vars PROVE StoreInv'
    OBVIOUS
<1> USE GraceAssumption, ObjectAssumption
<1>1. CASE Tick
    BY <1>1 DEF Tick, StoreInv
<1>2. CASE bm_object_sync_gc
    BY <1>2 DEF bm_object_sync_gc, bm_object_store_delete_expired, StoreInv
<1>3. ASSUME NEW o \in Objects, NEW valid \in BOOLEAN, NEW opened \in BOOLEAN,
             handle_object(o, valid, opened)
      PROVE  StoreInv'
  <2>1. now' = now
      BY <1>3 DEF handle_object
  <2>2. CASE UNCHANGED <<pool, handled>>
      BY <2>1, <2>2 DEF StoreInv
  <2>3. CASE ~ UNCHANGED <<pool, handled>>
    <3>1. /\ Expires[o] >= now - AcceptGrace /\ o \notin pool
          /\ handled' = [handled EXCEPT ![o] = @ + 1]
          /\ pool' = validate_and_store_ack(pool \cup {o},
                            IF opened THEN AckOf[o] ELSE None, valid)
        BY <1>3, <2>3, Zenon DEF handle_object, Accepted, bm_object_store_has
    <3>2. pool \cup {o} \subseteq pool' /\ pool' \subseteq Objects
        BY <3>1, Zenon DEF validate_and_store_ack, StoreInv
    <3>3. handled[o] = 0
        BY <3>1 DEF StoreInv
    <3>4. /\ handled' \in [Objects -> Nat] /\ handled'[o] = 1
          /\ \A p \in Objects \ {o} : handled'[p] = handled[p]
        BY <3>1, <3>3 DEF StoreInv
    <3>5. ASSUME NEW p \in Objects
          PROVE  /\ handled'[p] <= 1
                 /\ handled'[p] = 1 => p \in pool' \/ Expires[p] < now' - GcGrace
        BY <2>1, <3>2, <3>4 DEF StoreInv
    <3> QED
        BY <2>1, <3>2, <3>4, <3>5, Zenon DEF StoreInv
  <2> QED
      BY <2>2, <2>3
<1>4. CASE UNCHANGED <<now, pool, handled>>
    BY <1>4 DEF StoreInv
<1> QED
    BY <1>1, <1>2, <1>3, <1>4, StoreSteps

(* Whatever comes, however often and however late, and whenever the pool   *)
(* is collected, handle_object passes an object on at most once.           *)
THEOREM HandledAtMostOnce == Spec => []HandledOnce
<1>1. StoreInv => HandledOnce
    BY DEF StoreInv, HandledOnce
<1> QED
    BY <1>1, StoreInvInit, StoreInvNext, PTL DEF Spec

-----------------------------------------------------------------------------
(* The big inv.                                                            *)

(* What is left of the listing and what was told make up the listing.      *)
ListInv ==
    /\ offered = None => list = None /\ advertised = {}
    /\ offered # None => advertised \subseteq offered
    /\ list # None =>
        /\ list \in Seq(offered) /\ invSent \in 0 .. Len(list) - 1
        /\ \A o \in offered : \E i \in 1 .. Len(list) : list[i] = o
        /\ \A i \in 1 .. invSent : list[i] \in advertised
    /\ offered # None /\ list = None /\ open /\ ~ evicted => offered \subseteq advertised

(* The hashes of a chunk are of the listing, those at the chunk's places.  *)
LEMMA ChunkHashes ==
    ASSUME NEW S, NEW l \in Seq(S), NEW t \in 0 .. Len(l), NEW u \in t .. Len(l)
    PROVE  /\ Range(SubSeq(l, t + 1, u)) \subseteq S
           /\ \A i \in t + 1 .. u : l[i] \in Range(SubSeq(l, t + 1, u))
<1> DEFINE c == SubSeq(l, t + 1, u)
<1>1. /\ c \in Seq(S) /\ Len(c) = u - t
      /\ \A i \in 1 .. u - t : c[i] = l[t + i]
    OBVIOUS
<1>2. DOMAIN c = 1 .. u - t /\ \A i \in 1 .. u - t : c[i] \in S
    BY <1>1
<1>3. ASSUME NEW i \in t + 1 .. u PROVE i - t \in 1 .. u - t /\ c[i - t] = l[i]
    BY <1>1
<1> HIDE DEF c
<1>4. Range(c) \subseteq S /\ \A i \in t + 1 .. u : l[i] \in Range(c)
    BY <1>2, <1>3, Zenon DEF Range
<1> QED
    BY <1>4 DEF c

(* A chunk goes out whole, with the next one to come or as the last, or    *)
(* the peer is evicted and the rest dropped.                               *)
LEMMA ChunkTold ==
    ASSUME NEW S, NEW l \in Seq(S), NEW t \in 0 .. Len(l), send_inv_chunk(l, t),
           advertised \subseteq S,
           \A o \in S : \E i \in 1 .. Len(l) : l[i] = o,
           \A i \in 1 .. t : l[i] \in advertised
    PROVE  /\ open' = open /\ advertised' \subseteq S
           /\ \/ list' = None /\ evicted'
              \/ list' = None /\ S \subseteq advertised'
              \/ /\ list' = l /\ invSent' \in 0 .. Len(l) - 1
                 /\ \A i \in 1 .. invSent' : l[i] \in advertised'
<1> DEFINE n == IF Len(l) - t < Chunk THEN Len(l) - t ELSE Chunk
<1>1. PICK rc \in Results :
        /\ bm_network_send(rc)
        /\ advertised' = IF rc = "ok" THEN advertised \cup Range(SubSeq(l, t + 1, t + n))
                                      ELSE advertised
        /\ invSent' = IF rc = "ok" THEN t + n ELSE t
        /\ list' = IF rc = "ok" /\ t + n < Len(l) THEN l ELSE None
    BY Zenon DEF send_inv_chunk
<1>2. open' = open /\ (rc # "ok" => evicted')
    BY <1>1, Zenon DEF bm_network_send, Results
<1>3. t + n \in t .. Len(l)
    BY SizeAssumption
<1> HIDE DEF n
<1>4. CASE rc # "ok"
    BY <1>1, <1>2, <1>4, Zenon
<1>5. CASE rc = "ok"
  <2>1. /\ invSent' = t + n /\ list' = (IF t + n < Len(l) THEN l ELSE None)
        /\ advertised \subseteq advertised' /\ advertised' \subseteq S
        /\ \A i \in t + 1 .. t + n : l[i] \in advertised'
      BY <1>1, <1>3, <1>5, ChunkHashes, Zenon
  <2>2. ASSUME NEW i \in 1 .. t + n PROVE l[i] \in advertised'
    <3>1. i \in 1 .. t \/ i \in t + 1 .. t + n
        BY <1>3
    <3> QED
        BY <2>1, <3>1, Zenon
  <2>5. CASE t + n < Len(l)
    <3>1. t + n \in 0 .. Len(l) - 1
        BY <1>3, <2>5
    <3> QED
        BY <1>2, <2>1, <2>2, <2>5, <3>1, Zenon
  <2>6. CASE ~ t + n < Len(l)
    <3>1. t + n = Len(l)
        BY <1>3, <2>6
    <3>2. S \subseteq advertised'
        BY <2>2, <3>1, Zenon
    <3> QED
        BY <1>2, <2>1, <2>6, <3>2, Zenon
  <2> QED
      BY <2>5, <2>6
<1> QED
    BY <1>4, <1>5

(* Only the verack, the sweep and the close touch the listing, and an      *)
(* eviction is not taken back.                                             *)
LEMMA ListSteps ==
    ASSUME [Next]_vars
    PROVE  \/ bm_network_begin_big_inv \/ close_connection
           \/ /\ list # None /\ send_inv_chunk(list, invSent) /\ UNCHANGED offered
           \/ UNCHANGED <<biginv, open>> /\ (evicted => evicted')
<1>1. ASSUME NEW rc, bm_network_send(rc) PROVE UNCHANGED open /\ (evicted => evicted')
    BY <1>1, Zenon DEF bm_network_send
<1>2. CASE OtherSend
    BY <1>1, <1>2, Zenon DEF OtherSend
<1>3. ASSUME NEW items, handle_inv(items) PROVE UNCHANGED <<biginv, open>> /\ (evicted => evicted')
    BY <1>1, <1>3, Zenon DEF handle_inv
<1>4. CASE bm_object_sync_refill_uploads
    BY <1>1, <1>4, Zenon DEF bm_object_sync_refill_uploads, RefillTurn, conn
<1>5. ASSUME NEW due, Sweep(due)
      PROVE  \/ list # None /\ send_inv_chunk(list, invSent) /\ UNCHANGED offered
             \/ UNCHANGED <<biginv, open>> /\ (evicted => evicted')
    BY <1>5, Zenon DEF Sweep, biginv, conn
<1> QED
    BY <1>2, <1>3, <1>4, <1>5, Zenon
       DEF Next, vars, Tick, bm_object_sync_gc, handle_object, handle_getdata, EpollOut,
           SweepCloses, PeerCloses, conn, biginv

LEMMA ListInvNext == StoreInv /\ ListInv /\ [Next]_vars => ListInv'
<1> SUFFICES ASSUME StoreInv, ListInv, [Next]_vars PROVE ListInv'
    OBVIOUS
<1>1. CASE bm_network_begin_big_inv
  <2>1. PICK shown \in SUBSET bm_object_store_list_hashes_by_stream :
          /\ offered' = shown
          /\ IF shown = {} THEN UNCHANGED <<list, invSent, advertised, conn>>
                           ELSE \E l \in Bijection(1 .. Cardinality(shown), shown) :
                                    send_inv_chunk(l, 0)
      BY <1>1, Zenon DEF bm_network_begin_big_inv
  <2>2. shown \in SUBSET Objects /\ shown # None
      BY ListAssumption, Zenon DEF StoreInv, bm_object_store_list_hashes_by_stream
  <2>3. offered = None /\ list = None /\ advertised = {}
      BY <1>1, Zenon DEF bm_network_begin_big_inv, ListInv
  <2>4. CASE shown = {}
      BY <2>1, <2>2, <2>3, <2>4, Zenon DEF ListInv
  <2>5. CASE shown # {}
    <3> DEFINE m == Cardinality(shown)
    <3>1. PICK l \in Bijection(1 .. m, shown) : send_inv_chunk(l, 0)
        BY <2>1, <2>5, Zenon
    <3>2. m \in Nat /\ l # None
        BY <2>2, ListAssumption, Zenon
    <3>3. l \in [1 .. m -> shown] /\ \A o \in shown : \E i \in 1 .. m : l[i] = o
        BY <3>1, Zenon DEF Bijection, Surjection
    <3> HIDE DEF m
    <3>4. l \in Seq(shown) /\ Len(l) = m
        BY <3>2, <3>3
    <3>5. 0 \in 0 .. Len(l) /\ 1 .. 0 = {}
        BY <3>2, <3>4
    <3>6. /\ open' = open /\ advertised' \subseteq shown
          /\ \/ list' = None /\ evicted'
             \/ list' = None /\ shown \subseteq advertised'
             \/ /\ list' = l /\ invSent' \in 0 .. Len(l) - 1
                /\ \A i \in 1 .. invSent' : l[i] \in advertised'
      <4>1. \A o \in shown : \E i \in 1 .. Len(l) : l[i] = o
          BY <3>3, <3>4, Zenon
      <4>2. advertised \subseteq shown /\ \A i \in 1 .. 0 : l[i] \in advertised
          BY <2>3, <3>5, Zenon
      <4> QED
          BY <3>1, <3>4, <3>5, <4>1, <4>2, ChunkTold, Zenon
    <3> QED
        BY <2>1, <2>2, <3>2, <3>3, <3>4, <3>6, Zenon DEF ListInv
  <2> QED
      BY <2>4, <2>5
<1>2. CASE close_connection
    BY <1>2, Zenon DEF close_connection, ListInv
<1>3. CASE list # None /\ send_inv_chunk(list, invSent) /\ UNCHANGED offered
  <2>1. /\ offered # None /\ list \in Seq(offered) /\ invSent \in 0 .. Len(list) - 1
        /\ advertised \subseteq offered
        /\ \A o \in offered : \E i \in 1 .. Len(list) : list[i] = o
        /\ \A i \in 1 .. invSent : list[i] \in advertised
      BY <1>3, Zenon DEF ListInv
  <2>2. invSent \in 0 .. Len(list)
      BY <2>1
  <2>3. /\ open' = open /\ advertised' \subseteq offered
        /\ \/ list' = None /\ evicted'
           \/ list' = None /\ offered \subseteq advertised'
           \/ /\ list' = list /\ invSent' \in 0 .. Len(list) - 1
              /\ \A i \in 1 .. invSent' : list[i] \in advertised'
      BY <1>3, <2>1, <2>2, ChunkTold, Zenon
  <2> QED
      BY <1>3, <2>1, <2>3, Zenon DEF ListInv
<1>4. CASE UNCHANGED <<biginv, open>> /\ (evicted => evicted')
    BY <1>4, Zenon DEF ListInv, biginv
<1> QED
    BY <1>1, <1>2, <1>3, <1>4, ListSteps, Zenon

(* A peer is told all of the listing made at its verack, chunk after       *)
(* chunk, and nothing that the listing left out.                           *)
THEOREM WholeListing == Spec => []ListingTold
<1>1. Init => ListInv
    BY DEF Init, ListInv
<1>2. ListInv => ListingTold
    BY DEF ListInv, ListingTold
<1> QED
    BY <1>1, <1>2, StoreInvInit, StoreInvNext, ListInvNext, PTL DEF Spec

-----------------------------------------------------------------------------
(* The array of uploads.                                                   *)

(* The pending entries lie inside the array and are at most Limit.         *)
ArrayInv ==
    /\ head \in Nat /\ count \in 0 .. Limit /\ cap \in Nat /\ asked \in Nat
    /\ head + count <= cap
    /\ arr \in [0 .. cap - 1 -> Int]

(* The capacity that the array grows to is enough, and not less than it    *)
(* was.                                                                    *)
LEMMA GrownSuffices ==
    ASSUME cap \in Nat, NEW need \in Nat, NEW c \in Grown(need)
    PROVE  c \in Nat /\ need <= c /\ cap <= c
<1> DEFINE base == IF cap > 0 THEN cap ELSE FirstCap
<1>1. base \in Nat /\ cap <= base
    BY SizeAssumption
<1>2. CASE need <= cap
    BY <1>2 DEF Grown
<1>3. CASE ~ need <= cap
  <2>1. c \in base .. base + 2 * need /\ need <= c
      BY <1>3, ZenonT(60) DEF Grown
  <2> QED
      BY <1>1, <2>1
<1> QED
    BY <1>2, <1>3

(* A step that appends k requests keeps those that are pending, in order,  *)
(* and puts the new ones, by their numbers, behind them: all or none.      *)
LEMMA AppendExtends ==
    ASSUME ArrayInv, NEW k \in Nat, NEW memory \in BOOLEAN, count + k <= Limit,
           upload_pending_append(k, memory)
    PROVE  \E j \in {0, k} :
             /\ count' = count + j /\ head' \in Nat /\ cap' \in Nat
             /\ head' + count' <= cap'
             /\ arr' \in [0 .. cap' - 1 -> Int]
             /\ \A i \in 1 .. count : arr'[head' + i - 1] = arr[head + i - 1]
             /\ \A i \in 1 .. j : arr'[head' + count + i - 1] = asked + i
<1> DEFINE h == IF head + count + k > cap THEN 0 ELSE head
           moved == [i \in DOMAIN arr |-> IF i < count THEN arr[i + head - h] ELSE arr[i]]
<1> USE SizeAssumption DEF ArrayInv
<1>1. h \in Nat /\ h <= head /\ h + count <= cap
    OBVIOUS
<1>2. DOMAIN arr = 0 .. cap - 1 /\ DOMAIN moved = 0 .. cap - 1
    OBVIOUS
<1>3. \A i \in 1 .. count : moved[h + i - 1] = arr[head + i - 1]
  <2> SUFFICES ASSUME NEW i \in 1 .. count PROVE moved[h + i - 1] = arr[head + i - 1]
      BY Zenon
  <2>1. CASE h = 0
    <3>1. i - 1 \in 0 .. cap - 1 /\ i - 1 < count
        OBVIOUS
    <3>2. moved[i - 1] = arr[(i - 1) + head - 0]
        BY <2>1, <3>1, <1>2, Zenon
    <3> QED
        BY <2>1, <3>2
  <2>2. CASE h = head
    <3>1. head + i - 1 \in 0 .. cap - 1
        OBVIOUS
    <3>2. (head + i - 1) + head - head = head + i - 1
        OBVIOUS
    <3>3. moved[head + i - 1] = arr[head + i - 1]
        BY <2>2, <3>1, <3>2, <1>2, Zenon
    <3> QED
        BY <2>2, <3>3, Zenon
  <2> QED
      BY <2>1, <2>2, Zenon
<1>4. \A i \in 0 .. cap - 1 : moved[i] \in Int
  <2> SUFFICES ASSUME NEW i \in 0 .. cap - 1 PROVE moved[i] \in Int
      OBVIOUS
  <2>1. i < count => i + head - h \in 0 .. cap - 1
      BY <1>1
  <2> QED
      BY <2>1, <1>2
<1>5. PICK c \in Grown(h + count + k) :
        IF c = cap \/ memory THEN Put(moved, h, c, k) ELSE Put(moved, h, cap, 0)
    BY ZenonT(60) DEF upload_pending_append
<1>6. c \in Nat /\ h + count + k <= c /\ cap <= c
    BY <1>1, GrownSuffices
<1> HIDE DEF h, moved
<1>7. ASSUME NEW d \in Nat, NEW j \in {0, k}, Put(moved, h, d, j),
             h + count + j <= d, cap <= d
      PROVE  /\ count' = count + j /\ head' \in Nat /\ cap' \in Nat
             /\ head' + count' <= cap'
             /\ arr' \in [0 .. cap' - 1 -> Int]
             /\ \A i \in 1 .. count : arr'[head' + i - 1] = arr[head + i - 1]
             /\ \A i \in 1 .. j : arr'[head' + count + i - 1] = asked + i
  <2>1. head' = h /\ cap' = d /\ count' = count + j
      BY <1>7, Zenon DEF Put
  <2>2. DOMAIN arr' = 0 .. d - 1
      BY <1>7 DEF Put
  <2>3. \A i \in 0 .. d - 1 :
          arr'[i] = IF i \in h + count .. h + count + j - 1
                      THEN asked + i - h - count + 1
                      ELSE IF i \in 0 .. cap - 1 THEN moved[i] ELSE 0
      BY <1>7, <1>2, Zenon DEF Put
  <2>4. arr' \in [0 .. d - 1 -> Int]
    <3>1. \A i \in 0 .. d - 1 : arr'[i] \in Int
        BY <2>3, <1>1, <1>4
    <3>2. arr' = [i \in 0 .. d - 1 |-> arr'[i]]
        BY <1>7, Zenon DEF Put
    <3> QED
        BY <3>1, <3>2
  <2>5. ASSUME NEW i \in 1 .. count PROVE arr'[h + i - 1] = arr[head + i - 1]
    <3>1. h + i - 1 \in 0 .. d - 1 /\ h + i - 1 \in 0 .. cap - 1
          /\ h + i - 1 \notin h + count .. h + count + j - 1
        BY <1>1, <1>7
    <3> QED
        BY <3>1, <2>3, <1>3, Zenon
  <2>6. ASSUME NEW i \in 1 .. j PROVE arr'[h + count + i - 1] = asked + i
    <3>1. h + count + i - 1 \in 0 .. d - 1
          /\ h + count + i - 1 \in h + count .. h + count + j - 1
        BY <1>1, <1>7
    <3>2. arr'[h + count + i - 1] = asked + (h + count + i - 1) - h - count + 1
        BY <3>1, <2>3, Zenon
    <3> QED
        BY <3>2, <1>1
  <2> QED
      BY <1>1, <1>7, <2>1, <2>4, <2>5, <2>6
<1>8. CASE c = cap \/ memory
    BY <1>5, <1>6, <1>7, <1>8, Zenon
<1>9. CASE ~ (c = cap \/ memory)
  <2>1. Put(moved, h, cap, 0)
      BY <1>5, <1>9
  <2> QED
      BY <2>1, <1>1, <1>7
<1> QED
    BY <1>8, <1>9, Zenon

(* Of n requests handle_getdata accepts the first j: all, or as many as    *)
(* there is room for, or none for want of memory or because n is too many. *)
LEMMA GetdataAppends ==
    ASSUME ArrayInv, NEW n \in 1 .. Limit + 1, handle_getdata(n)
    PROVE  /\ asked' = asked + n
           /\ \E j \in 0 .. n :
               /\ j \in {0, n} \/ count + j = Limit
               /\ count' = count + j /\ count' <= Limit
               /\ head' \in Nat /\ cap' \in Nat /\ head' + count' <= cap'
               /\ arr' \in [0 .. cap' - 1 -> Int]
               /\ \A i \in 1 .. count : arr'[head' + i - 1] = arr[head + i - 1]
               /\ \A i \in 1 .. j : arr'[head' + count + i - 1] = asked + i
<1> DEFINE room == IF count < Limit THEN Limit - count ELSE 0
           k == IF n < room THEN n ELSE room
<1>1. /\ k \in 0 .. n /\ count + k <= Limit /\ (k = n \/ count + k = Limit)
    BY SizeAssumption DEF ArrayInv
<1>2. \/ \E memory \in BOOLEAN : upload_pending_append(k, memory)
      \/ UNCHANGED <<arr, head, count, cap>>
    BY DEF handle_getdata
<1> HIDE DEF k
<1> DEFINE Appended(j) ==
        /\ count' = count + j /\ head' \in Nat /\ cap' \in Nat
        /\ head' + count' <= cap'
        /\ arr' \in [0 .. cap' - 1 -> Int]
        /\ \A i \in 1 .. count : arr'[head' + i - 1] = arr[head + i - 1]
        /\ \A i \in 1 .. j : arr'[head' + count + i - 1] = asked + i
<1>3. PICK j \in {0, k} : Appended(j)
  <2>1. CASE \E memory \in BOOLEAN : upload_pending_append(k, memory)
      BY <1>1, <2>1, AppendExtends
  <2>2. CASE UNCHANGED <<arr, head, count, cap>>
    <3>1. Appended(0)
        BY <2>2 DEF ArrayInv
    <3> QED
        BY <3>1
  <2> QED
      BY <1>2, <2>1, <2>2, Zenon
<1>4. j \in 0 .. n /\ (j \in {0, n} \/ count + j = Limit) /\ count + j <= Limit
    BY <1>1, SizeAssumption DEF ArrayInv
<1> QED
    BY <1>3, <1>4, ZenonT(60) DEF handle_getdata

(* Only requests, the loop of refill_uploads and the end of the connection *)
(* touch the array.                                                        *)
LEMMA ArraySteps ==
    ASSUME [Next]_vars
    PROVE  \/ \E n \in 1 .. Limit + 1 : handle_getdata(n)
           \/ bm_object_sync_refill_uploads \/ close_connection
           \/ UNCHANGED upload
BY ZenonT(60) DEF Next, vars, Tick, OtherSend, bm_object_sync_gc, handle_inv, handle_object,
       bm_network_begin_big_inv, EpollOut, SweepCloses, PeerCloses, Sweep

LEMMA ArrayInvInit == Init => ArrayInv
BY SizeAssumption DEF Init, ArrayInv

LEMMA ArrayInvNext == ArrayInv /\ [Next]_vars => ArrayInv'
<1> SUFFICES ASSUME ArrayInv, [Next]_vars PROVE ArrayInv'
    OBVIOUS
<1> USE SizeAssumption
<1>1. ASSUME NEW n \in 1 .. Limit + 1, handle_getdata(n) PROVE ArrayInv'
  <2>1. /\ asked' = asked + n /\ count' \in 0 .. Limit
        /\ head' \in Nat /\ cap' \in Nat /\ head' + count' <= cap'
        /\ arr' \in [0 .. cap' - 1 -> Int]
      BY <1>1, GetdataAppends DEF ArrayInv
  <2>2. asked' \in Nat
      BY <2>1 DEF ArrayInv
  <2> QED
      BY <2>1, <2>2, ZenonT(60) DEF ArrayInv
<1>2. CASE RefillTurn
  <2>1. /\ UNCHANGED <<arr, cap, asked>> /\ head' = head + 1 /\ count > 0
        /\ count' \in {count - 1, 0}
      BY <1>2, Zenon DEF RefillTurn
  <2>2. head' \in Nat /\ count' \in 0 .. Limit /\ head' + count' <= cap
    <3>1. CASE count' = 0
        BY <2>1, <3>1 DEF ArrayInv
    <3>2. CASE count' = count - 1
        BY <2>1, <3>2 DEF ArrayInv
    <3> QED
        BY <2>1, <3>1, <3>2
  <2>3. arr' \in [0 .. cap' - 1 -> Int] /\ cap' \in Nat /\ asked' \in Nat
      BY <2>1 DEF ArrayInv
  <2> QED
      BY <2>1, <2>2, <2>3, ZenonT(60) DEF ArrayInv
<1>3. CASE /\ head' = (IF count = 0 THEN 0 ELSE head)
           /\ UNCHANGED <<arr, count, cap, asked>>
    BY <1>3 DEF ArrayInv
<1>4. CASE close_connection
  <2>1. arr' = <<>> /\ head' = 0 /\ count' = 0 /\ cap' = 0 /\ asked' = asked
      BY <1>4 DEF close_connection
  <2>2. <<>> \in [0 .. 0 - 1 -> Int]
      OBVIOUS
  <2> QED
      BY <2>1, <2>2 DEF ArrayInv
<1>5. CASE UNCHANGED upload
    BY <1>5 DEF upload, ArrayInv
<1> QED
    BY <1>1, <1>2, <1>3, <1>4, <1>5, ArraySteps, ZenonT(60) DEF bm_object_sync_refill_uploads

(* Two sequences with the same elements are the same.                      *)
LEMMA SameSeq ==
  ASSUME NEW S, NEW s \in Seq(S), NEW t \in Seq(S),
         Len(s) = Len(t), \A i \in 1 .. Len(s) : s[i] = t[i]
  PROVE  s = t
  OBVIOUS

(* The pending entries have indices of the array.                          *)
LEMMA Inside ==
    \A c, h, n \in Nat : h + n <= c => \A i \in 1 .. n : h + i - 1 \in 0 .. c - 1
OBVIOUS

(* What concatenation and Tail make of two sequences.                      *)
LEMMA ConcatShape ==
    ASSUME NEW s \in Seq(Int), NEW t \in Seq(Int)
    PROVE  /\ s \o t \in Seq(Int) /\ Len(s \o t) = Len(s) + Len(t)
           /\ \A i \in 1 .. Len(s) + Len(t) :
                (s \o t)[i] = IF i <= Len(s) THEN s[i] ELSE t[i - Len(s)]
OBVIOUS

LEMMA TailShape ==
    ASSUME NEW s \in Seq(Int), s # <<>>
    PROVE  Tail(s) \in Seq(Int) /\ Len(Tail(s)) = Len(s) - 1
           /\ \A i \in 1 .. Len(s) - 1 : Tail(s)[i] = s[i + 1]
OBVIOUS

(* The array with head, count and capacity, whether its entries move, it   *)
(* grows or memory runs out, is a bounded FIFO of numbered requests.       *)
THEOREM UploadsAreFifo == Spec => ImplementsFifo
<1>1. Init => Fifo!Init
    BY DEF Init, Fifo!Init, Pending
<1>2. ArrayInv /\ ArrayInv' /\ [Next]_vars => [Fifo!Next]_<<Pending, asked>>
  <2> SUFFICES ASSUME ArrayInv, ArrayInv', [Next]_vars
               PROVE  Fifo!Next \/ UNCHANGED <<Pending, asked>>
      OBVIOUS
  <2>0. /\ Pending \in Seq(Int) /\ Len(Pending) = count /\ count \in Nat
        /\ \A i \in 1 .. count : Pending[i] = arr[head + i - 1]
    <3>1. count \in Nat
        BY SizeAssumption DEF ArrayInv
    <3>2. \A i \in 1 .. count : head + i - 1 \in 0 .. cap - 1
        BY SizeAssumption DEF ArrayInv
    <3>3. \A i \in 1 .. count : arr[head + i - 1] \in Int
        BY <3>2, Zenon DEF ArrayInv
    <3> QED
        BY <3>1, <3>3 DEF Pending
  <2>a. /\ Pending' \in Seq(Int) /\ Len(Pending') = count'
         /\ \A i \in 1 .. count' : Pending'[i] = arr'[head' + i - 1]
    <3>1. count' \in Nat
        BY SizeAssumption DEF ArrayInv
    <3>2. cap' \in Nat /\ head' \in Nat /\ head' + count' <= cap'
        BY ZenonT(60) DEF ArrayInv
    <3>6. arr' \in [0 .. cap' - 1 -> Int]
        BY ZenonT(60) DEF ArrayInv
    <3> DEFINE s == [i \in 1 .. count' |-> arr'[head' + i - 1]]
    <3>3. /\ s \in Seq(Int) /\ Len(s) = count'
          /\ \A i \in 1 .. count' : s[i] = arr'[head' + i - 1]
      <4>1. \A i \in 1 .. count' : head' + i - 1 \in 0 .. cap' - 1
          BY <3>1, <3>2, Inside, Zenon
      <4>2. \A i \in 1 .. count' : arr'[head' + i - 1] \in Int
          BY <4>1, <3>6
      <4> QED
          BY <4>2, <3>1
    <3>4. Pending' = s
        BY DEF Pending
    <3> QED
        BY <3>3, <3>4, ZenonT(60)
  <2>1. ASSUME NEW n \in 1 .. Limit + 1, handle_getdata(n)
        PROVE  \E m \in 1 .. Limit + 1 : \E k \in 0 .. m : Fifo!Accept(m, k)
    <3>1. PICK j \in 0 .. n :
            /\ j \in {0, n} \/ count + j = Limit
            /\ count' = count + j /\ count' <= Limit
            /\ \A i \in 1 .. count : arr'[head' + i - 1] = arr[head + i - 1]
            /\ \A i \in 1 .. j : arr'[head' + count + i - 1] = asked + i
        BY <2>1, GetdataAppends, Zenon
    <3> DEFINE new == [i \in 1 .. j |-> asked + i]
    <3>2. new \in Seq(Int) /\ Len(new) = j /\ j \in Nat
        BY SizeAssumption DEF ArrayInv
    <3>3. /\ Pending \o new \in Seq(Int) /\ Len(Pending \o new) = count + j
          /\ \A i \in 1 .. count + j :
               (Pending \o new)[i] = IF i <= count THEN Pending[i] ELSE new[i - count]
      <4> HIDE DEF new
      <4>1. /\ Pending \o new \in Seq(Int)
            /\ Len(Pending \o new) = Len(Pending) + Len(new)
            /\ \A i \in 1 .. Len(Pending) + Len(new) :
                 (Pending \o new)[i] = IF i <= Len(Pending) THEN Pending[i]
                                        ELSE new[i - Len(Pending)]
          BY <2>0, <3>2, ConcatShape, ZenonT(60)
      <4> QED
          BY <2>0, <3>2, <4>1, ZenonT(60)
    <3> HIDE DEF new
    <3>4. ASSUME NEW i \in 1 .. count + j
          PROVE  (Pending \o new)[i] = arr'[head' + i - 1]
      <4>1. CASE i <= count
        <5>1. i \in 1 .. count
            BY <4>1, <2>0, <3>2
        <5> QED
            BY <4>1, <5>1, <2>0, <3>1, <3>3, ZenonT(60)
      <4>2. CASE ~ i <= count
        <5>1. i - count \in 1 .. j
            BY <4>2, <2>0, <3>2
        <5>2. new[i - count] = asked + (i - count)
            BY <5>1 DEF new
        <5>3. arr'[head' + count + (i - count) - 1] = asked + (i - count)
            BY <5>1, <3>1, Zenon
        <5>4. head' + count + (i - count) - 1 = head' + i - 1
            BY <2>0 DEF ArrayInv
        <5> QED
            BY <4>2, <5>2, <5>3, <5>4, <3>3, Zenon
      <4> QED
          BY <4>1, <4>2, ZenonT(60)
    <3>5. /\ Pending' \in Seq(Int) /\ Len(Pending') = count + j
          /\ \A i \in 1 .. count + j : Pending'[i] = arr'[head' + i - 1]
        BY <2>a, <3>1
    <3>6. Pending' = Pending \o new
        BY <3>3, <3>4, <3>5, SameSeq, ZenonT(60)
    <3>7. asked' = asked + n
        BY <2>1, Zenon DEF handle_getdata
    <3>8. Fifo!Accept(n, j)
        BY <2>0, <3>1, <3>6, <3>7, Zenon DEF Fifo!Accept, new
    <3> QED
        BY <3>8
  <2>2. CASE RefillTurn
    <3>1. head' = head + 1 /\ count > 0 /\ UNCHANGED <<arr, asked>>
          /\ count' \in {count - 1, 0}
        BY <2>2, Zenon DEF RefillTurn
    <3>2. CASE count' = 0
        BY <2>a, <3>1, <3>2 DEF Fifo!GiveUp, Fifo!Next
    <3>3. CASE count' = count - 1
      <4>0. Pending # <<>>
          BY <2>0, <3>1
      <4>1. /\ Tail(Pending) \in Seq(Int) /\ Len(Tail(Pending)) = count - 1
            /\ \A i \in 1 .. count - 1 : Tail(Pending)[i] = Pending[i + 1]
          BY <2>0, <4>0, TailShape
      <4>2. ASSUME NEW i \in 1 .. count - 1 PROVE Pending'[i] = Tail(Pending)[i]
        <5>1. i + 1 \in 1 .. count /\ head + (i + 1) - 1 = head + 1 + i - 1
            BY <2>0 DEF ArrayInv
        <5>2. Pending[i + 1] = arr[head + 1 + i - 1]
            BY <2>0, <5>1, Zenon
        <5> QED
            BY <2>a, <3>1, <3>3, <4>1, <5>2, Zenon
      <4>3. Pending' = Tail(Pending)
          BY <2>a, <3>3, <4>1, <4>2, SameSeq, Zenon
      <4> QED
          BY <3>1, <4>0, <4>3 DEF Fifo!Take, Fifo!Next
    <3> QED
        BY <3>1, <3>2, <3>3
  <2>3. CASE /\ head' = (IF count = 0 THEN 0 ELSE head)
             /\ UNCHANGED <<arr, count, cap, asked>>
      BY <2>3, <2>0 DEF Pending
  <2>4. CASE close_connection
      BY <2>4, <2>a DEF close_connection, Fifo!GiveUp, Fifo!Next
  <2>5. CASE UNCHANGED upload
      BY <2>5 DEF upload, Pending
  <2> QED
      BY <2>1, <2>2, <2>3, <2>4, <2>5, ArraySteps, ZenonT(60)
         DEF bm_object_sync_refill_uploads, Fifo!Next
<1> QED
    BY <1>1, <1>2, ArrayInvInit, ArrayInvNext, PTL DEF Spec, ImplementsFifo, Fifo!Spec

-----------------------------------------------------------------------------
(* Types.                                                                  *)

(* What the other invariants leave: the bounds, and what is on its way.    *)
BoundInv ==
    /\ now \in 0 .. MaxTime /\ coming \in [Objects -> Nat]
    /\ asked \in 0 .. Len(Wants) /\ out \in 0 .. QueueLimit

LEMMA SendBounded ==
    ASSUME out \in 0 .. QueueLimit, NEW rc, bm_network_send(rc)
    PROVE  out' \in 0 .. QueueLimit
BY SizeAssumption DEF bm_network_send

LEMMA BoundInvNext == BoundInv /\ [Next]_vars => BoundInv'
<1> SUFFICES ASSUME BoundInv, [Next]_vars PROVE BoundInv'
    OBVIOUS
<1>1. now' \in 0 .. MaxTime
  <2>1. CASE Tick
      BY <2>1, SizeAssumption DEF Tick, BoundInv
  <2>2. CASE now' = now
      BY <2>2 DEF BoundInv
  <2> QED
      BY <2>1, <2>2, StoreSteps, Zenon DEF bm_object_sync_gc, handle_object
<1>2. out' \in 0 .. QueueLimit
  <2>0. out \in 0 .. QueueLimit
      BY DEF BoundInv
  <2>1. CASE \E rc : bm_network_send(rc)
      BY <2>0, <2>1, SendBounded, Zenon
  <2>2. CASE out' = out
      BY <2>0, <2>2
  <2>3. CASE EpollOut
      BY <2>0, <2>3, SizeAssumption DEF EpollOut
  <2>4. CASE close_connection
      BY <2>4, SizeAssumption DEF close_connection
  <2> QED
      BY <2>1, <2>2, <2>3, <2>4, ZenonT(60)
         DEF Next, vars, conn, Tick, OtherSend, bm_object_sync_gc, handle_inv, handle_object,
             handle_getdata, bm_object_sync_refill_uploads, RefillTurn, SweepCloses, PeerCloses,
             bm_network_begin_big_inv, Sweep, send_inv_chunk
<1>3. asked' \in 0 .. Len(Wants)
  <2>1. ASSUME NEW n \in 1 .. Limit + 1, handle_getdata(n) PROVE asked' \in 0 .. Len(Wants)
    <3>1. asked' = asked + n /\ asked + n <= Len(Wants)
        BY <2>1, Zenon DEF handle_getdata
    <3>2. asked \in Nat /\ n \in Nat /\ Len(Wants) \in Nat
        BY SizeAssumption, ObjectAssumption DEF BoundInv
    <3> QED
        BY <3>1, <3>2
  <2>2. CASE asked' = asked
      BY <2>2 DEF BoundInv
  <2> QED
      BY <2>1, <2>2, ArraySteps, Zenon
         DEF bm_object_sync_refill_uploads, RefillTurn, close_connection, upload
<1>4. coming' \in [Objects -> Nat]
  <2>0. coming \in [Objects -> Nat]
      BY DEF BoundInv
  <2>1. ASSUME NEW items, handle_inv(items) PROVE coming' \in [Objects -> Nat]
    <3>1. PICK missing : \/ coming' = coming
                         \/ coming' = [o \in Objects |->
                                IF o \in missing THEN coming[o] + 1 ELSE coming[o]]
        BY <2>1, Zenon DEF handle_inv
    <3> QED
        BY <2>0, <3>1
  <2>2. ASSUME NEW o \in Objects, NEW valid, NEW opened, handle_object(o, valid, opened)
        PROVE  coming' \in [Objects -> Nat]
    <3>1. coming[o] > 0 /\ coming' = [coming EXCEPT ![o] = @ - 1]
        BY <2>2, Zenon DEF handle_object
    <3> QED
        BY <2>0, <3>1
  <2>3. CASE coming' = coming
      BY <2>0, <2>3
  <2> QED
      BY <2>1, <2>2, <2>3, ZenonT(60)
         DEF Next, vars, store, Tick, OtherSend, bm_object_sync_gc, handle_getdata, EpollOut,
             bm_object_sync_refill_uploads, RefillTurn, SweepCloses, PeerCloses,
             close_connection, bm_network_begin_big_inv, Sweep
<1> QED
    BY <1>1, <1>2, <1>3, <1>4, Zenon DEF BoundInv

(* Types and bounds: the pending uploads lie inside the array, the next    *)
(* chunk inside the listing, and the send queue within its limit.          *)
THEOREM ExchangeTypes == Spec => []ExchangeTypeOK
<1>1. Init => BoundInv /\ ListInv
    BY SizeAssumption, ObjectAssumption DEF Init, BoundInv, ListInv
<1>2. StoreInv /\ ArrayInv /\ ListInv /\ BoundInv => ExchangeTypeOK
    BY Zenon DEF StoreInv, ArrayInv, ListInv, BoundInv, ExchangeTypeOK
<1> QED
    BY <1>1, <1>2, StoreInvInit, StoreInvNext, ArrayInvInit, ArrayInvNext, ListInvNext,
       BoundInvNext, PTL DEF Spec

=============================================================================
