------------------------------ MODULE PeerBook ------------------------------
(***************************************************************************)
(* The known peers: the table hosts of peers.db (src/core/peer_manager.c), *)
(* the cycle of the outbound connector that cleans it, seeds it, lists     *)
(* candidates and dials them (src/infra/peer_connector.c), and the other   *)
(* writers of the table: the network thread with the results of            *)
(* connections and with hearsay (src/infra/object_sync.c), addPeer, and    *)
(* main, which marks the node's own address.                               *)
(*                                                                         *)
(* Times are kept as ages: how long ago a host was last seen, in the three *)
(* ranges the code tells apart, and how long ago it was last dialled.      *)
(* Ratings count steps of 0.1.                                             *)
(*                                                                         *)
(* An operator X_Suffix just before X is a wrong form of X that no action  *)
(* uses, named for the slip it makes.                                      *)
(***************************************************************************)
EXTENDS Integers, FiniteSets

CONSTANTS
    Peers,          \* addresses with their port and stream
    Seeds,          \* MAINNET_SEEDS or TESTNET_SEEDS
    Observed,       \* the lines of observed_nodes.txt
    Onion,          \* addresses that end in .onion
    Me,             \* the node's own onion address
    OtherStream,    \* addresses of streams other than 1
    MaxCandidates,  \* MAX_CANDIDATES
    MaxOutbound,    \* max_outbound
    Best, Worst,    \* 1.0 and -1.0
    Forget,         \* BM_PEER_CLEANUP_FORGET_RATING
    MinAge,         \* BM_PEER_CLEANUP_MIN_AGE_SECONDS
    MaxAge,         \* BM_PEER_CLEANUP_MAX_AGE_SECONDS
    Cooldown,       \* BM_PEER_LOW_RATING_COOLDOWN_SECONDS
    Nil             \* no row, nobody being dialled, no fault

ASSUME PeerAssumption ==
    Seeds # {} /\ Seeds \cup Observed \cup Onion \cup OtherStream \subseteq Peers
    /\ Me \in Onion /\ Seeds \cap (OtherStream \cup {Me}) = {}

ASSUME NumberAssumption ==
    /\ IsFiniteSet(Peers) /\ MaxCandidates \in Nat \ {0} /\ MaxOutbound \in Nat
    /\ MaxAge \in Nat /\ Cooldown \in Nat /\ 0 \in Worst .. Best
    /\ Worst \in Int /\ Best \in Int

VARIABLES
    rows,   \* hosts
    conns,  \* the peers with an outbound connection
    pc,     \* where bm_peer_connector_connect_initial is
    want,   \* how many connections it still wants
    cand,   \* its array of candidates: rating and last_attempt
    cur,    \* the candidate it dials
    rest,   \* how long ago a host was dialled, since it is in the table
    judged  \* candidates the network thread has rated since they were listed

bookVars == <<rows, conns, pc, want, cand, cur, rest, judged>>

(* A time of last_seen that lies years ahead does not come closer.         *)
Future == 0 - 1
Ages == 0 .. MaxAge + 1
Older(age) == IF age \in 0 .. MaxAge THEN age + 1 ELSE age
Longer(t) == IF t < Cooldown THEN t + 1 ELSE t

Known == {p \in Peers : rows[p] # Nil}

Row == [age : Ages \cup {Future}, rating : Worst .. Best, self : BOOLEAN,
        tried : 0 .. Cooldown]

ASSUME NilAssumption == Nil \notin Row

PeerTypeOK ==
    /\ rows \in [Peers -> Row \cup {Nil}] /\ rest \in [Peers -> 0 .. Cooldown]
    /\ conns \subseteq Peers /\ want \in 0 .. MaxOutbound /\ DOMAIN cand \subseteq Peers
    /\ cand \in [DOMAIN cand -> [rating : Worst .. Best, tried : 0 .. Cooldown]]
    /\ pc \in {"idle", "cleaned", "seeded", "choose", "dial"}
    /\ pc = "dial" => cur \in DOMAIN cand

-----------------------------------------------------------------------------
(* The statements of peer_manager.c, as functions of the table.            *)

Fresh(rating, age, self) ==
    [age |-> age, rating |-> rating, self |-> self, tried |-> Cooldown]

bm_peer_manager_upsert(t, hosts) ==
    [p \in Peers |->
        IF p \notin hosts THEN t[p]
        ELSE IF t[p] = Nil THEN Fresh(0, 0, FALSE)
        ELSE [t[p] EXCEPT !.age = 0, !.rating = 0]]

bm_peer_manager_upsert_learned(p, age) ==
    [rows EXCEPT ![p] = IF @ = Nil THEN Fresh(0, age, FALSE) ELSE [@ EXCEPT !.age = age]]

bm_peer_manager_mark_self(t) ==
    [t EXCEPT ![Me] = IF @ = Nil THEN Fresh(0, 0, TRUE) ELSE [@ EXCEPT !.self = TRUE]]

bm_peer_manager_cleanup ==
    [p \in Peers |->
        IF p \in Known /\ (\/ rows[p].age > MaxAge
                           \/ rows[p].age > MinAge /\ rows[p].rating <= Forget)
          THEN Nil ELSE rows[p]]

Lower(r) == IF r > Worst THEN r - 1 ELSE r
Raise(r) == IF r < Best THEN r + 1 ELSE r

bm_peer_manager_record_result(p, success) ==
    [rows EXCEPT ![p] =
        IF @ = Nil THEN Nil
        ELSE IF success THEN [@ EXCEPT !.rating = Raise(rows[p].rating), !.age = 0]
        ELSE [@ EXCEPT !.rating = Lower(rows[p].rating)]]

bm_peer_manager_record_attempt(p) ==
    [rows EXCEPT ![p] = IF @ = Nil THEN Nil ELSE [@ EXCEPT !.tried = 0]]

bm_peer_manager_load_observed_nodes(t, file) == bm_peer_manager_upsert(t, file)

Empty_CountsSelf == Known = {}

(* The row of the node itself does not count.                              *)
Empty == \A p \in Known : rows[p].self

bm_peer_manager_seed_bootstrap(file) ==
    IF Empty THEN bm_peer_manager_load_observed_nodes(bm_peer_manager_upsert(rows, Seeds), file)
             ELSE rows

(* The n best rated of the hosts of stream 1; ties in any order.           *)
bm_peer_manager_list_top(n) ==
    LET hosts == {p \in Known \ OtherStream : ~ rows[p].self}
    IN  {s \in SUBSET hosts :
            /\ Cardinality(s) = IF Cardinality(hosts) < n THEN Cardinality(hosts) ELSE n
            /\ \A p \in s, q \in hosts \ s : rows[p].rating >= rows[q].rating}

(* A host that comes into the table, or leaves it, starts afresh.          *)
Write(t) ==
    /\ rows' = t
    /\ rest' = [p \in Peers |-> IF (rows[p] = Nil) # (t[p] = Nil) THEN Cooldown ELSE rest[p]]

-----------------------------------------------------------------------------
(* The cycle of the connector.                                             *)

Clean ==
    /\ pc = "idle" /\ pc' = "cleaned" /\ Write(bm_peer_manager_cleanup)
    /\ UNCHANGED <<conns, want, cand, cur, judged>>

Seed ==
    /\ pc = "cleaned" /\ pc' = "seeded"
    /\ \E file \in SUBSET Observed : Write(bm_peer_manager_seed_bootstrap(file))
    /\ UNCHANGED <<conns, want, cand, cur, judged>>

NoCandidates == [p \in {} |-> Nil]

List ==
    /\ pc = "seeded"
    /\ IF Cardinality(conns) >= MaxOutbound
         THEN pc' = "idle" /\ UNCHANGED <<want, cand>>
         ELSE /\ pc' = "choose" /\ want' = MaxOutbound - Cardinality(conns)
              /\ \E s \in bm_peer_manager_list_top(MaxCandidates) :
                    cand' = [p \in s |-> [rating |-> rows[p].rating,
                                          tried |-> rows[p].tried]]
    /\ UNCHANGED <<rows, conns, cur, rest, judged>>

Eligible(p) ==
    p \notin conns /\ ~ (cand[p].rating < 0 /\ cand[p].tried < Cooldown)

(* From 0.95 on, in steps of 0.1 from 1.0 on, chance has no say.           *)
Sure(p) == Eligible(p) /\ cand[p].rating >= Best

Choose_LocalCopyStale(p) ==
    /\ pc = "choose" /\ want > 0 /\ p \in DOMAIN cand /\ Eligible(p)
    /\ pc' = "dial" /\ cur' = p
    /\ rows' = bm_peer_manager_record_attempt(p) /\ rest' = [rest EXCEPT ![p] = 0]
    /\ UNCHANGED <<conns, want, cand, judged>>

Choose(p) ==
    /\ pc = "choose" /\ want > 0 /\ p \in DOMAIN cand /\ Eligible(p)
    /\ pc' = "dial" /\ cur' = p /\ cand' = [cand EXCEPT ![p].tried = 0]
    /\ rows' = bm_peer_manager_record_attempt(p) /\ rest' = [rest EXCEPT ![p] = 0]
    /\ UNCHANGED <<conns, want, judged>>

EndCycle ==
    pc' = "idle" /\ want' = 0 /\ cand' = NoCandidates /\ cur' = Nil /\ judged' = {}

(* Fifty times the draw was a host that is not eligible, or chance was     *)
(* against it.                                                             *)
ChooseNone ==
    /\ pc = "choose" /\ want > 0
    /\ DOMAIN cand = {} \/ \E p \in DOMAIN cand : ~ Sure(p)
    /\ EndCycle /\ UNCHANGED <<rows, conns, rest>>

Satisfied ==
    /\ pc = "choose" /\ want = 0 /\ EndCycle /\ UNCHANGED <<rows, conns, rest>>

(* What may go wrong in a dial: no address of the host answers in time,    *)
(* the dialogue with the proxy breaks off, or the node has no memory, no   *)
(* place in epoll or cannot send its version.                              *)
Faults == {"unreachable", "proxy", "setup"}

connect_with_timeout(fault) == fault # "unreachable"

socks5_connect(fault) == fault # "proxy"

(* Through the proxy for addresses of its kind, if one is set.             *)
open_peer_connection(proxy, fault) ==
    connect_with_timeout(fault) /\ (proxy => socks5_connect(fault))

DialFails_LocalCopyStale ==
    rows' = bm_peer_manager_record_result(cur, FALSE) /\ UNCHANGED cand

DialFails ==
    /\ rows' = bm_peer_manager_record_result(cur, FALSE)
    /\ cand' = [cand EXCEPT ![cur].rating = Lower(@)]

(* The socket, then the structure, epoll and the version message.          *)
Dial(proxy, fault) ==
    /\ pc = "dial" /\ pc' = "choose" /\ cur' = Nil
    /\ IF open_peer_connection(proxy, fault) /\ fault # "setup"
         THEN /\ conns' = conns \cup {cur} /\ want' = want - 1 /\ UNCHANGED <<rows, cand>>
         ELSE DialFails /\ UNCHANGED <<conns, want>>
    /\ UNCHANGED <<rest, judged>>

-----------------------------------------------------------------------------
(* What other threads do.                                                  *)

connector == <<pc, want, cand, cur>>

(* The network thread writes the row, and the copy of a cycle under way    *)
(* keeps its rating.                                                       *)
Judge(p, success) ==
    /\ Write(bm_peer_manager_record_result(p, success))
    /\ judged' = judged \cup ({p} \cap DOMAIN cand)
    /\ UNCHANGED connector

(* A version or a verack.                                                  *)
record_outbound_success(p) == p \in conns /\ Judge(p, TRUE) /\ UNCHANGED conns

FatalError(p) == p \in conns /\ Judge(p, FALSE) /\ UNCHANGED conns

close_connection(p) == p \in conns /\ conns' = conns \ {p} /\ Judge(p, FALSE)

AddrKinds == {"public", "private", "malformed"}

is_routable_ipv4_peer_address(kind) == kind # "private"

handle_addr_NoTimeCheck(p, age, kind) ==
    /\ p \notin Onion
    /\ kind # "malformed" /\ is_routable_ipv4_peer_address(kind)
    /\ Write(bm_peer_manager_upsert_learned(p, age)) /\ UNCHANGED <<conns, connector, judged>>

(* An entry of an addr message; the time is the sender's.                  *)
handle_addr(p, age, kind) ==
    /\ p \notin Onion /\ age # Future
    /\ kind # "malformed" /\ is_routable_ipv4_peer_address(kind)
    /\ Write(bm_peer_manager_upsert_learned(p, age)) /\ UNCHANGED <<conns, connector, judged>>

(* Anybody may announce any address, the node's own with them.             *)
handle_incoming_onionpeer(p) ==
    /\ p \in Onion
    /\ Write(bm_peer_manager_upsert_learned(p, 0)) /\ UNCHANGED <<conns, connector, judged>>

h_addPeer(p) ==
    /\ Write(bm_peer_manager_upsert_learned(p, 0)) /\ UNCHANGED <<conns, connector, judged>>

Tick ==
    /\ rows' = [p \in Peers |-> IF rows[p] = Nil THEN Nil
                  ELSE [rows[p] EXCEPT !.age = Older(@), !.tried = Longer(@)]]
    /\ cand' = [p \in DOMAIN cand |-> [cand[p] EXCEPT !.tried = Longer(@)]]
    /\ rest' = [p \in Peers |-> Longer(rest[p])]
    /\ UNCHANGED <<conns, pc, want, cur, judged>>

(* The process ends at any time and starts again; main knows its own       *)
(* address or not.                                                         *)
Restart ==
    /\ EndCycle /\ conns' = {}
    /\ Write(rows) \/ Write(bm_peer_manager_mark_self(rows))

BookInit ==
    /\ rows \in {[p \in Peers |-> Nil],
                 bm_peer_manager_mark_self([p \in Peers |-> Nil])}
    /\ conns = {} /\ pc = "idle" /\ want = 0 /\ cand = NoCandidates /\ cur = Nil
    /\ rest = [p \in Peers |-> Cooldown] /\ judged = {}

Connector ==
    \/ Clean \/ Seed \/ List \/ ChooseNone \/ Satisfied
    \/ \E p \in Peers : Choose(p)
    \/ \E proxy \in BOOLEAN, fault \in Faults \cup {Nil} : Dial(proxy, fault)

BookNext ==
    \/ Connector \/ Tick \/ Restart
    \/ \E p \in Peers :
        \/ record_outbound_success(p) \/ FatalError(p) \/ close_connection(p)
        \/ \E age \in Ages \cup {Future}, kind \in AddrKinds : handle_addr(p, age, kind)
        \/ handle_incoming_onionpeer(p) \/ h_addPeer(p)

BookSpec == BookInit /\ [][BookNext]_bookVars

(* The connector's thread goes on, dialling has time limits, time passes,  *)
(* and the draws of RAND_bytes come out against a host now and then.       *)
BookFairSpec ==
    BookSpec /\ WF_bookVars(Connector) /\ WF_bookVars(Tick) /\ SF_bookVars(ChooseNone)

-----------------------------------------------------------------------------
(* Whatever is cleaned away and whatever is learned meanwhile, a cycle has *)
(* somebody to dial: the seeds come back when nobody else is left.  (A row *)
(* of another stream counts as somebody.)                                  *)
SeedsComeBack ==
    pc \in {"choose", "dial"} /\ DOMAIN cand = {} =>
        \E p \in Known \cap OtherStream : ~ rows[p].self

(* A host whose row says that its rating is negative is left in peace for  *)
(* the cooldown, within a cycle, from one to the next and across restarts, *)
(* as long as it is in the table.  The connector decides by the copies it  *)
(* has listed, which follow its own dials but not the network thread: a    *)
(* host that was connected and judged since the list is excepted.          *)
CooldownKept ==
    [][\A p \in Peers \ judged :
        Choose(p) /\ rows[p].rating < 0 => rest[p] >= Cooldown]_bookVars

(* What src/core/peer_manager.h wants the cooldown for, hosts that answer  *)
(* and then cut the connection, without the exception.  It does not hold   *)
(* (README, Observations).                                                 *)
CooldownForAll ==
    [][\A p \in Peers :
        Choose(p) /\ rows[p].rating < 0 => rest[p] >= Cooldown]_bookVars

(* The connector dials for no more connections than max_outbound allows,   *)
(* counting those that were there when it listed its candidates.           *)
OutboundBounded == Cardinality(conns) <= MaxOutbound

(* Why the three hold.  Only the node's own row is marked, and what the    *)
(* cycle has found in the table stays there until the next cleanup; what   *)
(* the copies say of the last attempt is never more than the time passed.  *)
BookInv ==
    /\ SeedsComeBack
    /\ \A p \in Known : rows[p].self => p = Me
    /\ pc = "seeded" => ~ Empty
    /\ \A p \in Known : rows[p].tried <= rest[p]
    /\ \A p \in DOMAIN cand : cand[p].tried <= rest[p]
    /\ pc \notin {"choose", "dial"} => want = 0
    /\ pc = "dial" => want > 0
    /\ Cardinality(conns) + want <= MaxOutbound

(* A candidate stays in the table, and its copy has the rating of the row  *)
(* unless the network thread has written that since.                       *)
CopyInv ==
    /\ judged \subseteq DOMAIN cand /\ DOMAIN cand \subseteq Known
    /\ \A p \in DOMAIN cand \ judged : cand[p].rating = rows[p].rating
    /\ pc \in {"idle", "cleaned", "seeded"} => DOMAIN cand = {}

(* Every cycle ends, though dialling fails again and again.                *)
CycleEnds == pc # "idle" ~> pc = "idle"

News(p) ==
    rows'[p] # Nil /\ (rows[p] = Nil \/ rows'[p].age < rows[p].age)

(* A host that nobody hears of any more is forgotten, however well it is   *)
(* rated and whatever time it was announced with.                          *)
Forgotten ==
    \A p \in Peers :
        <>[][~ News(p)]_bookVars => <>[](rows[p] = Nil)

(* src/core/peer_manager.h: hearsay does not overwrite what connections    *)
(* have earned.  It does not hold (README, Observations): an entry with an *)
(* old time replaces the time of the last success, and the next cleanup    *)
(* deletes the row with its rating.                                        *)
OnlyTimeAges ==
    [][\A p \in Peers :
        rows[p] # Nil /\ rows'[p] # Nil /\ rows'[p].age > rows[p].age => Tick]_bookVars
=============================================================================
