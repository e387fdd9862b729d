--------------------------- MODULE PubkeyExchange ---------------------------
(***************************************************************************)
(* How a node gets the public key of an address it wants to write to:      *)
(* the automatic request of src/core/api_server.c, the answer of           *)
(* src/infra/object_sync.c, and the tables of src/core/pubkey_cache.c and  *)
(* src/core/pq_pubkey_cache.c.                                             *)
(*                                                                         *)
(* Two nodes run this code: the asker, whose user calls sendMessage until  *)
(* the key is there, and the owner of the address.  On each, the network   *)
(* thread, the proof-of-work worker and (for the asker) the API thread     *)
(* work on the same tables, one statement at a time.  Strangers may ask    *)
(* the owner too, so that an answer may come before the question.          *)
(*                                                                         *)
(* Versions 2 to 4 of one address share its ripe, and with it a row of     *)
(* pubkey_cache and pubkey_requests; version 5 has tables of its own.      *)
(* Times are kept as the stages of an object's life.  A slot stands for    *)
(* the hash of an object and is used again when nothing refers to it.      *)
(*                                                                         *)
(* Neither node crashes here: a crash of the owner between the insertion   *)
(* into the pool (object_sync.c:359) and the row of own answers (361)      *)
(* would let one answer more be made.  The address asked for is the        *)
(* owner's and no identity of the asker, so the identity_store check of    *)
(* pq_request_pubkey_if_unknown (api_server.c:1653) never ends it early.   *)
(*                                                                         *)
(* An operator X_Suffix just before X is a wrong form of X that no action  *)
(* uses, named for the slip it makes.                                      *)
(***************************************************************************)
EXTENDS Naturals, FiniteSets

CONSTANTS
    Gets, Pubs,  \* slots for getpubkey and for pubkey objects
    Demands,     \* pairs of the version the asker wants and those others do
    Owned,       \* the versions the owner has an identity of
    Chans,       \* those that are chans
    None

Versions == 2 .. 5
Slots == Gets \cup Pubs
Nodes == {"asker", "owner"}
Other(n) == CHOOSE m \in Nodes : m # n

ASSUME SlotAssumption ==
    Gets \cap Pubs = {} /\ None \notin Slots \cup Versions /\ IsFiniteSet(Slots)
ASSUME VersionAssumption ==
    /\ Demands \subseteq Versions \X SUBSET Versions
    /\ Chans \subseteq Owned /\ Owned \subseteq Versions

(* The key of the rows for an address: its ripe, or the tag of version 5.  *)
Ids == {"ripe", "tag"}
IdOf(v) == IF v = 5 THEN "tag" ELSE "ripe"

(* A request names the address by its ripe or by its tag; a key is open to *)
(* everybody or sealed with a key derived from the address.                *)
Forms == {"ripe", "tag", "open", "sealed"}
Objects == [version : Versions, form : Forms]

ASSUME ObjectAssumption == None \notin Objects

bm_build_getpubkey(v) ==
    [version |-> v, form |-> IF v <= 3 THEN "ripe" ELSE "tag"]

bm_build_pubkey_v2 == [version |-> 2, form |-> "open"]
bm_build_pubkey_v3 == [version |-> 3, form |-> "open"]
bm_build_pubkey_v4 == [version |-> 4, form |-> "sealed"]
bm_pq_build_pubkey == [version |-> 5, form |-> "sealed"]

BuildPubkey(v) ==
    CASE v = 2 -> bm_build_pubkey_v2
      [] v = 3 -> bm_build_pubkey_v3
      [] v = 4 -> bm_build_pubkey_v4
      [] v = 5 -> bm_pq_build_pubkey

VARIABLES
    demand,    \* what is asked for, one of Demands
    obj,       \* the object a slot stands for, None if unused
    pool,      \* object_pool.db of each node
    inv,       \* hashes announced to a node and not looked at yet
    known,     \* asker: the ids with a row in the key cache
    request,   \* asker: the version in the id's row of pending requests
    recent,    \* asker: the ids whose request is younger than the cooldown
    asking,    \* asker: the API thread is about to ask for this version
    askJob,    \* asker: the version a getpubkey in the worker is for
    unlocked,  \* owner: the identities in the keyring
    answering, \* owner: the network thread is about to submit an answer
    job,       \* owner: how far the answer for a version is in the worker
    made,      \* owner: the last answer made for a version
    cache      \* owner: self_pubkey_response_cache

asker == <<known, request, recent, asking, askJob>>
owner == <<unlocked, answering, job, made, cache>>
vars == <<demand, obj, pool, inv, asker, owner>>

Wanted == demand[1]
Strangers == demand[2]

PubkeyTypeOK ==
    /\ demand \in Demands
    /\ obj \in [Slots -> Objects \cup {None}]
    /\ pool \in [Nodes -> SUBSET Slots] /\ inv \in [Nodes -> SUBSET Slots]
    /\ known \subseteq Ids /\ recent \subseteq Ids
    /\ request \in [Ids -> Versions \cup {None}]
    /\ asking \in Versions \cup {None}
    /\ askJob \in [Ids -> Versions \cup {None}]
    /\ unlocked \subseteq Owned
    /\ answering \in Versions \cup {None}
    /\ job \in [Versions -> {"none", "pow", "stored", "cached"}]
    /\ made \in [Versions -> Pubs \cup {None}]
    /\ cache \in [Versions -> Pubs \cup {None}]

Init ==
    /\ demand \in Demands /\ obj = [s \in Slots |-> None]
    /\ pool = [n \in Nodes |-> {}] /\ inv = [n \in Nodes |-> {}]
    /\ known = {} /\ recent = {} /\ asking = None
    /\ request = [i \in Ids |-> None] /\ askJob = [i \in Ids |-> None]
    /\ unlocked = {} /\ answering = None
    /\ job = [v \in Versions |-> "none"]
    /\ made = [v \in Versions |-> None] /\ cache = [v \in Versions |-> None]

Answers(v) == {s \in Pubs : obj[s] # None /\ obj[s].version = v}

-----------------------------------------------------------------------------
(* Time.  An object is valid until it expires, and then forgotten by both  *)
(* nodes; the row of the cache that names it no longer counts.  Answers of *)
(* one version expire in the order they were made, and a request, valid    *)
(* for two days, not before the owner has seen it.                         *)

Expire(s) ==
    /\ obj[s] # None /\ (s \in Gets => s \notin inv["owner"])
    /\ \A v \in Versions : s = made[v] =>
        Answers(v) = {s} /\ job[v] \in {"none", "pow"}
    /\ obj' = [obj EXCEPT ![s] = None]
    /\ pool' = [n \in Nodes |-> pool[n] \ {s}]
    /\ inv' = [n \in Nodes |-> inv[n] \ {s}]
    /\ made' = [v \in Versions |-> IF made[v] = s THEN None ELSE made[v]]
    /\ cache' = [v \in Versions |-> IF cache[v] = s THEN None ELSE cache[v]]
    /\ UNCHANGED <<demand, asker, unlocked, answering, job>>

CooldownOver ==
    /\ recent # {} /\ recent' = {}
    /\ UNCHANGED <<demand, obj, pool, inv, known, request, asking, askJob, owner>>

Free(S) == {s \in S : obj[s] = None}

bm_object_store_insert(s, o, n) ==
    /\ obj' = [obj EXCEPT ![s] = o]
    /\ pool' = [pool EXCEPT ![n] = @ \cup {s}]

(* A node takes no notice of a hash it holds.                              *)
Announce(n, S) == inv' = [inv EXCEPT ![n] = @ \cup (S \ pool[n])]

-----------------------------------------------------------------------------
(* The asker's API thread: sendMessage, up to where it needs the key.      *)

(* pubkey_cache and pubkey_requests, then the tables of version 5.  A      *)
(* second request for a row renews its time and not its version.           *)
bm_pubkey_cache_lookup_by_ripe == "ripe" \in known
bm_pubkey_cache_upsert == known' = known \cup {"ripe"}
bm_pubkey_cache_has_recent_request == "ripe" \in recent

bm_pubkey_cache_record_request(v) ==
    /\ request' = [request EXCEPT !["ripe"] = IF @ = None THEN v ELSE @]
    /\ recent' = recent \cup {"ripe"}

bm_pubkey_cache_clear_request ==
    /\ request' = [request EXCEPT !["ripe"] = None]
    /\ recent' = recent \ {"ripe"}

bm_pq_pubkey_cache_lookup == "tag" \in known
bm_pq_pubkey_cache_upsert == known' = known \cup {"tag"}
bm_pq_pubkey_cache_has_recent_request == "tag" \in recent
bm_pq_pubkey_cache_find_request == request["tag"] # None

bm_pq_pubkey_cache_record_request(v) ==
    /\ request' = [request EXCEPT !["tag"] = v]
    /\ recent' = recent \cup {"tag"}

bm_pq_pubkey_cache_clear_request ==
    /\ request' = [request EXCEPT !["tag"] = None]
    /\ recent' = recent \ {"tag"}

(* A version 5 key that came before it was asked for waits in the pool.    *)
KeysInPool_Never == {}

KeysInPool ==
    {s \in Pubs \cap pool["asker"] : obj[s] = bm_pq_build_pubkey}

bm_object_sync_resolve_pq_pubkey_from_pool ==
    /\ asking = None /\ ~ bm_pq_pubkey_cache_lookup
    /\ KeysInPool # {}
    /\ bm_pq_pubkey_cache_upsert /\ bm_pq_pubkey_cache_clear_request
    /\ UNCHANGED <<demand, obj, pool, inv, asking, askJob, owner>>

AskBegin(v) ==
    /\ asking = None /\ asking' = v
    /\ UNCHANGED <<demand, obj, pool, inv, known, request, recent, askJob, owner>>

pq_request_pubkey_if_unknown ==
    \/ bm_object_sync_resolve_pq_pubkey_from_pool
    \/ /\ ~ bm_pq_pubkey_cache_lookup /\ KeysInPool = {}
       /\ ~ bm_pq_pubkey_cache_has_recent_request
       /\ AskBegin(5)

RequestPubkeyIfUnknown ==
    /\ ~ bm_pubkey_cache_lookup_by_ripe
    /\ ~ bm_pubkey_cache_has_recent_request
    /\ AskBegin(Wanted)

sendMessage ==
    IF Wanted = 5 THEN pq_request_pubkey_if_unknown ELSE RequestPubkeyIfUnknown

(* The request is submitted; the cooldown begins whatever the queue says.  *)
AskEnd(accepted) ==
    /\ asking # None /\ asking' = None
    /\ askJob' = IF accepted /\ askJob[IdOf(asking)] = None
                   THEN [askJob EXCEPT ![IdOf(asking)] = asking] ELSE askJob
    /\ IF asking = 5 THEN bm_pq_pubkey_cache_record_request(asking)
                     ELSE bm_pubkey_cache_record_request(asking)
    /\ UNCHANGED <<demand, obj, pool, inv, known, owner>>

(* The worker's callback and the publisher behind it.                      *)
getpubkey_request_done(i) ==
    /\ askJob[i] # None
    /\ Free(Gets) # {}
    /\ LET s == CHOOSE s \in Free(Gets) : TRUE IN
        /\ bm_object_store_insert(s, bm_build_getpubkey(askJob[i]), "asker")
        /\ Announce("owner", {s})
    /\ askJob' = [askJob EXCEPT ![i] = None]
    /\ UNCHANGED <<demand, known, request, recent, asking, owner>>

-----------------------------------------------------------------------------
(* The owner's keyring and its answers.                                    *)

Unlock ==
    /\ unlocked # Owned /\ unlocked' = Owned
    /\ UNCHANGED <<demand, obj, pool, inv, asker, answering, job, made, cache>>

Lock ==
    /\ unlocked # {} /\ unlocked' = {}
    /\ UNCHANGED <<demand, obj, pool, inv, asker, answering, job, made, cache>>

(* The identity a request is answered with: the one of the ripe and the    *)
(* version, for version 3 also its version 4 sibling, or the one of the    *)
(* tag.  Chans do not answer.                                              *)
Identity(o) ==
    IF o.version \in unlocked THEN o.version
    ELSE IF o.form = "ripe" /\ o.version = 3 /\ 4 \in unlocked THEN 4 ELSE None

bm_pubkey_cache_get_self_response(v) == {cache[v]} \ {None}

reuse_cached_pubkey_response(v) ==
    bm_pubkey_cache_get_self_response(v) \cap pool["owner"]

(* The handlers up to the submission; answered is what is announced again. *)
AnswerBegin(v, answered) ==
    \/ /\ reuse_cached_pubkey_response(v) # {}
       /\ answered \subseteq reuse_cached_pubkey_response(v)
       /\ Cardinality(answered) = 1
       /\ UNCHANGED answering
    \/ /\ reuse_cached_pubkey_response(v) = {} /\ answered = {}
       /\ answering' = v

handle_incoming_getpubkey_v5(o, answered) ==
    IF 5 \in unlocked THEN AnswerBegin(5, answered)
                      ELSE answered = {} /\ UNCHANGED answering

handle_incoming_getpubkey(o, answered) ==
    IF o.version = 5 THEN handle_incoming_getpubkey_v5(o, answered)
    ELSE IF Identity(o) \notin {None} \cup Chans
           THEN AnswerBegin(o.version, answered)
           ELSE answered = {} /\ UNCHANGED answering

StrangerAsks(v) ==
    /\ answering = None
    /\ \E answered \in {{}} \cup {{s} : s \in Pubs} :
        /\ handle_incoming_getpubkey(bm_build_getpubkey(v), answered)
        /\ Announce("asker", answered)
    /\ UNCHANGED <<demand, obj, pool, asker, unlocked, job, made, cache>>

(* The queue refuses a key that is in flight, and everything when full.    *)
submit_pubkey_response(accepted) ==
    /\ answering # None /\ answering' = None
    /\ job' = IF accepted /\ job[answering] = "none"
                THEN [job EXCEPT ![answering] = "pow"] ELSE job
    /\ UNCHANGED <<demand, obj, pool, inv, asker, unlocked, made, cache>>

(* pubkey_response_done, statement by statement, on the one worker.        *)
StoreAnswer(v) ==
    /\ job[v] = "pow" /\ \A w \in Versions : job[w] \in {"none", "pow"}
    /\ Free(Pubs) # {}
    /\ LET s == CHOOSE s \in Free(Pubs) : TRUE IN
        /\ bm_object_store_insert(s, BuildPubkey(v), "owner")
        /\ made' = [made EXCEPT ![v] = s]
    /\ job' = [job EXCEPT ![v] = "stored"]
    /\ UNCHANGED <<demand, inv, asker, unlocked, answering, cache>>

bm_pubkey_cache_set_self_response_Never(v) == UNCHANGED cache

bm_pubkey_cache_set_self_response(v) == cache' = [cache EXCEPT ![v] = made[v]]

CacheAnswer(v) ==
    /\ job[v] = "stored" /\ job' = [job EXCEPT ![v] = "cached"]
    /\ bm_pubkey_cache_set_self_response(v)
    /\ UNCHANGED <<demand, obj, pool, inv, asker, unlocked, answering, made>>

AnnounceAnswer(v) ==
    /\ job[v] = "cached" /\ job' = [job EXCEPT ![v] = "none"]
    /\ Announce("asker", {made[v]})
    /\ UNCHANGED <<demand, obj, pool, asker, unlocked, answering, made, cache>>

-----------------------------------------------------------------------------
(* Objects travel: an inv for what a node holds is ignored, anything else  *)
(* is fetched from the other node and handled.                             *)

bm_parse_pubkey_v2(o) == o = bm_build_pubkey_v2
bm_parse_pubkey_v3(o) == o = bm_build_pubkey_v3

(* A sealed key is opened with the address of a pending request.           *)
bm_pubkey_cache_list_pending_requests == {request["ripe"]} \ {None}
bm_parse_pubkey_v4(o) ==
    o = bm_build_pubkey_v4 /\ 4 \in bm_pubkey_cache_list_pending_requests
bm_pq_parse_pubkey(o) == o = bm_pq_build_pubkey /\ request["tag"] = 5

handle_incoming_pubkey_v5(o) ==
    IF bm_pq_pubkey_cache_find_request /\ bm_pq_parse_pubkey(o)
      THEN bm_pq_pubkey_cache_upsert /\ bm_pq_pubkey_cache_clear_request
      ELSE UNCHANGED <<known, request, recent>>

HandlePubkey(o) ==
    IF o.version = 5 THEN handle_incoming_pubkey_v5(o)
    ELSE IF bm_parse_pubkey_v2(o) \/ bm_parse_pubkey_v3(o) \/ bm_parse_pubkey_v4(o)
           THEN bm_pubkey_cache_upsert /\ bm_pubkey_cache_clear_request
           ELSE UNCHANGED <<known, request, recent>>

handle_object(n, s) ==
    /\ s \in inv[n]
    /\ pool' = [pool EXCEPT ![n] = @ \cup {s}]
    /\ \/ /\ n = "asker" /\ s \in Pubs
          /\ HandlePubkey(obj[s])
          /\ inv' = [inv EXCEPT ![n] = @ \ {s}]
          /\ UNCHANGED answering
       \/ /\ n = "owner" /\ s \in Gets /\ answering = None
          /\ \E answered \in {{}} \cup {{r} : r \in Pubs} :
              /\ handle_incoming_getpubkey(obj[s], answered)
              /\ inv' = [inv EXCEPT ![n] = @ \ {s},
                                    !["asker"] = @ \cup (answered \ pool["asker"])]
          /\ UNCHANGED <<known, request, recent>>
    /\ UNCHANGED <<demand, obj, asking, askJob, unlocked, job, made, cache>>

(* The connection breaks, losing what was on its way, and the next one     *)
(* begins with a list of all that has not expired.                         *)
Reconnect ==
    /\ inv' = [n \in Nodes |-> pool[Other(n)] \ pool[n]]
    /\ inv' # inv
    /\ UNCHANGED <<demand, obj, pool, asker, owner>>

-----------------------------------------------------------------------------
Time ==
    \/ CooldownOver
    \/ \E s \in Slots : Expire(s)

Asker ==
    \/ sendMessage
    \/ \E accepted \in BOOLEAN : AskEnd(accepted)
    \/ \E i \in Ids : getpubkey_request_done(i)

Owner ==
    \/ Unlock \/ Lock
    \/ \E v \in Strangers : StrangerAsks(v)
    \/ \E accepted \in BOOLEAN : submit_pubkey_response(accepted)
    \/ \E v \in Versions : StoreAnswer(v) \/ CacheAnswer(v) \/ AnnounceAnswer(v)

Network ==
    \/ \E n \in Nodes, s \in Slots : handle_object(n, s)
    \/ Reconnect

Next == Time \/ Asker \/ Owner \/ Network

Spec == Init /\ [][Next]_vars

(* Time passes, the threads go on, and the user calls again.              *)
Fairness ==
    /\ WF_vars(CooldownOver) /\ \A s \in Gets : WF_vars(Expire(s))
    /\ WF_vars(sendMessage)
    /\ WF_vars(\E i \in Ids : getpubkey_request_done(i))
    /\ WF_vars(\E accepted \in BOOLEAN : AskEnd(accepted))
    /\ WF_vars(\E accepted \in BOOLEAN : submit_pubkey_response(accepted))
    /\ \A v \in Versions : WF_vars(CacheAnswer(v)) /\ WF_vars(AnnounceAnswer(v))

FairSpec == Spec /\ Fairness

-----------------------------------------------------------------------------
(* The throttle of reuse_cached_pubkey_response: however often an address  *)
(* is asked for, and although the cache is read before the submission and  *)
(* written after the proof of work, never more than two answers of a       *)
(* version are on the network at a time.                                   *)
NoPileUp == \A v \in Versions : Cardinality(Answers(v)) <= 2

(* Why it holds.  An answer is in the pool while it is valid, and in the   *)
(* cache but for the moment between the two writes of the worker, when an  *)
(* older one may be there ...                                              *)
Recorded(v) ==
    /\ {made[v], cache[v]} \ {None} \subseteq Answers(v)
    /\ Answers(v) \subseteq pool["owner"]
    /\ made[v] = None => Answers(v) = {} /\ job[v] \in {"none", "pow"}
    /\ job[v] # "stored" => cache[v] = made[v]
    /\ job[v] = "stored" => Answers(v) \subseteq {made[v], cache[v]}

(* ... and an answer under way counts as one.                              *)
Counted(v) ==
    Cardinality(Answers(v)) + (IF job[v] = "pow" THEN 1 ELSE 0)
      + (IF answering = v THEN 1 ELSE 0) <= 2

Throttled(v) == Recorded(v) /\ Counted(v)

AnswerInv ==
    /\ \A n \in Nodes : \A s \in pool[n] \cup inv[n] : obj[s] # None
    /\ \A v \in Versions : Throttled(v)

(* What object_sync.c says of the throttle: while an answer is valid, no   *)
(* second one is computed.  It does not hold (README, Observations).       *)
OneAnswer == \A v \in Versions : Cardinality(Answers(v)) <= 1

(* What is announced again and again is fetched in the end, and a queue    *)
(* that has room again and again takes a job in the end.                   *)
Delivery ==
    /\ SF_vars(AskEnd(TRUE))
    /\ SF_vars(answering = Wanted /\ submit_pubkey_response(TRUE))
    /\ SF_vars(StoreAnswer(Wanted))
    /\ SF_vars(\E s \in Gets : handle_object("owner", s))
    /\ SF_vars(\E s \in Pubs : s \in Answers(Wanted) /\ handle_object("asker", s))

NoAnswerExpires ==
    <>[][\A s \in Pubs : ~ Expire(s)]_vars

(* The key of an address whose owner is there to answer is known in the    *)
(* end, if the user calls sendMessage often enough: nobody has to wait for *)
(* an older answer to expire.  MCPubkeyExchange.cfg demands addresses of   *)
(* versions 3 and 5, for which it holds.  For version 4 it fails: a sealed *)
(* key that came before the request stays closed (MCPubkeyV4.cfg).         *)
KeyObtained ==
    Delivery /\ NoAnswerExpires /\ <>[](unlocked = Owned)
        => <>(IdOf(Wanted) \in known)
=============================================================================
