-------------------------- MODULE DirectoryProofs ---------------------------
(***************************************************************************)
(* Proofs about what a node knows of others: the hosts it may dial, for    *)
(* any hosts and limits (module PeerBook), and their public keys, for any  *)
(* number of questions and answers (module PubkeyExchange). Neither        *)
(* section uses the other.                                                 *)
(***************************************************************************)
EXTENDS PeerBook, PubkeyExchange, FiniteSetTheorems, TLAPS

-----------------------------------------------------------------------------
(* PeerBook.  The connector works on copies that other threads' writes     *)
(* overtake; BookInv relates the copies to the table and to the time that  *)
(* passed.  All writes but the cleanup and the mark of the node's own row  *)
(* keep every row with its mark and its last attempt (Grows), and one      *)
(* lemma serves them all, wherever the connector is (GrowStep).            *)

PInv == PeerTypeOK /\ BookInv

(* A row of the same host, with its mark and its last attempt.             *)
Kin(r, q) == q \in Row /\ q # Nil /\ q.self = r.self /\ q.tried = r.tried

LEMMA RowFacts ==
    ASSUME NEW r \in Row
    PROVE  /\ r # Nil /\ r.self \in BOOLEAN /\ r.tried \in 0 .. Cooldown
           /\ r.rating \in Worst .. Best /\ r.age \in Ages \cup {Future}
           /\ Lower(r.rating) \in Worst .. Best /\ Raise(r.rating) \in Worst .. Best
           /\ Longer(r.tried) \in 0 .. Cooldown
<1>1. /\ r # Nil /\ r.self \in BOOLEAN /\ r.tried \in 0 .. Cooldown
      /\ r.rating \in Worst .. Best /\ r.age \in Ages \cup {Future}
    BY NilAssumption DEF Row
<1>2. Lower(r.rating) \in Worst .. Best /\ Raise(r.rating) \in Worst .. Best
    BY <1>1, NumberAssumption DEF Lower, Raise
<1>3. Longer(r.tried) \in 0 .. Cooldown
    BY <1>1, NumberAssumption DEF Longer
<1> QED
    BY <1>1, <1>2, <1>3

LEMMA KinFacts ==
    ASSUME NEW r \in Row, NEW a \in Ages \cup {Future}, NEW x \in Worst .. Best
    PROVE  /\ Kin(r, r)
           /\ Kin(r, [r EXCEPT !.age = a]) /\ Kin(r, [r EXCEPT !.rating = x])
           /\ Kin(r, [r EXCEPT !.age = a, !.rating = x])
           /\ Kin(r, [r EXCEPT !.rating = x, !.age = a])
<1>1. Kin(r, r)
    BY NilAssumption DEF Kin
<1>2. Kin(r, [r EXCEPT !.age = a]) /\ Kin(r, [r EXCEPT !.rating = x])
    BY NilAssumption DEF Row, Kin
<1>3. Kin(r, [r EXCEPT !.age = a, !.rating = x])
    BY NilAssumption, Zenon DEF Row, Kin
<1>4. Kin(r, [r EXCEPT !.rating = x, !.age = a])
    BY NilAssumption, Zenon DEF Row, Kin
<1> QED
    BY <1>1, <1>2, <1>3, <1>4

LEMMA MoreFacts ==
    ASSUME NEW r \in Row, NEW c \in 0 .. Cooldown, NEW a \in Ages \cup {Future}
    PROVE  /\ [r EXCEPT !.tried = c] \in Row /\ [r EXCEPT !.self = TRUE] \in Row
           /\ [r EXCEPT !.age = a, !.tried = c] \in Row
<1>1. [r EXCEPT !.tried = c] \in Row /\ [r EXCEPT !.self = TRUE] \in Row
    BY Zenon DEF Row
<1>2. [r EXCEPT !.age = a, !.tried = c] \in Row
    BY Zenon DEF Row
<1> QED
    BY <1>1, <1>2

LEMMA FreshFacts ==
    ASSUME NEW a \in Ages \cup {Future}, NEW b \in BOOLEAN
    PROVE  /\ Fresh(0, a, b) \in Row /\ Fresh(0, a, b) # Nil
           /\ Fresh(0, a, b).self = b /\ Fresh(0, a, b).tried = Cooldown
<1>1. Fresh(0, a, b) \in Row
    BY NumberAssumption DEF Fresh, Row
<1> QED
    BY <1>1, NilAssumption DEF Fresh

LEMMA AgeFacts == 0 \in Ages /\ \A a \in Ages \cup {Future} : Older(a) \in Ages \cup {Future}
BY NumberAssumption DEF Ages, Older, Future

(* A table with all rows of the old one and new ones of hosts not tried.   *)
Grows(t) ==
    /\ t \in [Peers -> Row \cup {Nil}]
    /\ \A p \in Peers :
        /\ rows[p] # Nil => Kin(rows[p], t[p])
        /\ rows[p] = Nil /\ t[p] # Nil => t[p].self = FALSE /\ t[p].tried = Cooldown

LEMMA GrowsIf ==
    ASSUME NEW t, t = [p \in Peers |-> t[p]],
           \A p \in Peers : \/ rows[p] # Nil /\ Kin(rows[p], t[p])
                            \/ rows[p] = Nil /\ t[p] = Nil
                            \/ rows[p] = Nil /\ t[p] \in Row
                               /\ t[p].self = FALSE /\ t[p].tried = Cooldown
    PROVE  Grows(t)
<1>1. \A p \in Peers : t[p] \in Row \cup {Nil}
    BY DEF Kin
<1>2. t \in [Peers -> Row \cup {Nil}]
    BY <1>1
<1> QED
    BY <1>2, Zenon DEF Grows

LEMMA SameGrows == PeerTypeOK => Grows(rows)
BY GrowsIf, KinFacts, AgeFacts, NumberAssumption, Zenon DEF PeerTypeOK

LEMMA UpsertGrows ==
    ASSUME PeerTypeOK, NEW u, Grows(u), NEW S
    PROVE  /\ Grows(bm_peer_manager_upsert(u, S))
           /\ \A p \in S \cap Peers : bm_peer_manager_upsert(u, S)[p] # Nil
           /\ \A p \in Peers : u[p] # Nil => bm_peer_manager_upsert(u, S)[p] # Nil
<1> DEFINE t == bm_peer_manager_upsert(u, S)
<1>1. t = [p \in Peers |-> t[p]]
    BY DEF bm_peer_manager_upsert
<1>2. ASSUME NEW p \in Peers
      PROVE  /\ \/ rows[p] # Nil /\ Kin(rows[p], t[p])
                \/ rows[p] = Nil /\ t[p] = Nil
                \/ rows[p] = Nil /\ t[p] \in Row
                   /\ t[p].self = FALSE /\ t[p].tried = Cooldown
             /\ p \in S \/ u[p] # Nil => t[p] # Nil
  <2>1. u[p] \in Row \cup {Nil}
      BY DEF Grows
  <2>2. t[p] = IF p \notin S THEN u[p]
               ELSE IF u[p] = Nil THEN Fresh(0, 0, FALSE)
               ELSE [u[p] EXCEPT !.age = 0, !.rating = 0]
      BY DEF bm_peer_manager_upsert
  <2>3. u[p] # Nil => Kin(u[p], u[p])
                       /\ Kin(u[p], [u[p] EXCEPT !.age = 0, !.rating = 0])
      BY <2>1, KinFacts, AgeFacts, NumberAssumption, Zenon
  <2> HIDE DEF t
  <2>4. u[p] # Nil => Kin(u[p], t[p])
      BY <2>2, <2>3
  <2>5. CASE u[p] = Nil
    <3>1. rows[p] = Nil
        BY <2>5, Zenon DEF Grows, Kin
    <3> QED
        BY <3>1, <2>2, <2>5, FreshFacts, AgeFacts, Zenon
  <2>6. CASE u[p] # Nil /\ rows[p] = Nil
      BY <2>6, <2>4 DEF Grows, Kin
  <2>7. CASE u[p] # Nil /\ rows[p] # Nil
      BY <2>7, <2>4 DEF Grows, Kin
  <2> QED
      BY <2>5, <2>6, <2>7, Zenon
<1> HIDE DEF t
<1> QED
    BY <1>1, <1>2, GrowsIf, Zenon DEF t

LEMMA LearnedGrows ==
    ASSUME PeerTypeOK, NEW h \in Peers, NEW a \in Ages \cup {Future}
    PROVE  Grows(bm_peer_manager_upsert_learned(h, a))
<1> DEFINE t == bm_peer_manager_upsert_learned(h, a)
<1>1. t = [p \in Peers |-> t[p]]
    BY Zenon DEF bm_peer_manager_upsert_learned, PeerTypeOK
<1>2. ASSUME NEW p \in Peers
      PROVE  \/ rows[p] # Nil /\ Kin(rows[p], t[p])
             \/ rows[p] = Nil /\ t[p] = Nil
             \/ rows[p] = Nil /\ t[p] \in Row
                /\ t[p].self = FALSE /\ t[p].tried = Cooldown
  <2>1. rows[p] \in Row \cup {Nil}
      BY DEF PeerTypeOK
  <2>2. t[p] = IF p # h THEN rows[p]
               ELSE IF rows[p] = Nil THEN Fresh(0, a, FALSE)
               ELSE [rows[p] EXCEPT !.age = a]
      BY Zenon DEF bm_peer_manager_upsert_learned, PeerTypeOK
  <2> HIDE DEF t
  <2> QED
      BY <2>1, <2>2, KinFacts, FreshFacts, NumberAssumption, Zenon
<1> HIDE DEF t
<1> QED
    BY <1>1, <1>2, GrowsIf, Zenon DEF t

LEMMA ResultGrows ==
    ASSUME PeerTypeOK, NEW h \in Peers, NEW success \in BOOLEAN
    PROVE  /\ Grows(bm_peer_manager_record_result(h, success))
           /\ \A p \in Peers : rows[p] = Nil =>
                bm_peer_manager_record_result(h, success)[p] = Nil
<1> DEFINE t == bm_peer_manager_record_result(h, success)
<1>1. t = [p \in Peers |-> t[p]]
    BY Zenon DEF bm_peer_manager_record_result, PeerTypeOK
<1>2. ASSUME NEW p \in Peers
      PROVE  \/ rows[p] # Nil /\ Kin(rows[p], t[p])
             \/ rows[p] = Nil /\ t[p] = Nil
  <2>1. rows[p] \in Row \cup {Nil}
      BY DEF PeerTypeOK
  <2>2. t[p] = IF p # h \/ rows[p] = Nil THEN rows[p]
               ELSE IF success THEN [rows[p] EXCEPT !.rating = Raise(rows[p].rating), !.age = 0]
               ELSE [rows[p] EXCEPT !.rating = Lower(rows[p].rating)]
    <3>1. CASE p = h
        BY <3>1 DEF bm_peer_manager_record_result, PeerTypeOK
    <3>2. CASE p # h
        BY <3>2 DEF bm_peer_manager_record_result, PeerTypeOK
    <3> QED
        BY <3>1, <3>2
  <2>3. rows[p] # Nil =>
            /\ Kin(rows[p], rows[p])
            /\ Kin(rows[p], [rows[p] EXCEPT !.rating = Raise(rows[p].rating), !.age = 0])
            /\ Kin(rows[p], [rows[p] EXCEPT !.rating = Lower(rows[p].rating)])
      BY <2>1, RowFacts, KinFacts, AgeFacts, Zenon
  <2> HIDE DEF t
  <2> QED
      BY <2>1, <2>2, <2>3
<1> HIDE DEF t
<1> QED
    BY <1>1, <1>2, GrowsIf, Zenon DEF t

LEMMA CardFacts ==
    ASSUME NEW S, S \subseteq Peers
    PROVE  /\ IsFiniteSet(S) /\ Cardinality(S) \in Nat
           /\ \A T \in SUBSET S : Cardinality(T) <= Cardinality(S)
           /\ \A x : Cardinality(S \cup {x}) <= Cardinality(S) + 1
<1>1. IsFiniteSet(S)
    BY NumberAssumption, FS_Subset
<1>2. Cardinality(S) \in Nat
    BY <1>1, FS_CardinalityType
<1>3. \A T \in SUBSET S : Cardinality(T) <= Cardinality(S)
    BY <1>1, FS_Subset
<1>4. ASSUME NEW x PROVE Cardinality(S \cup {x}) <= Cardinality(S) + 1
  <2>1. Cardinality(S \cup {x}) = IF x \in S THEN Cardinality(S) ELSE Cardinality(S) + 1
      BY <1>1, FS_AddElement
  <2> QED
      BY <2>1, <1>2
<1> QED
    BY <1>1, <1>2, <1>3, <1>4, Zenon

(* A write that takes no row away, by whichever thread, whatever the       *)
(* connector is at.                                                        *)
LEMMA GrowStep ==
    ASSUME PInv, NEW t, Grows(t), Write(t), UNCHANGED <<want, cand, cur>>,
           conns' \subseteq conns,
           \/ pc' = pc
           \/ /\ pc = "cleaned" /\ pc' = "seeded"
              /\ \E p \in Peers : t[p] # Nil /\ ~ t[p].self
    PROVE  PInv'
<1> USE DEF PInv
<1>1. rows' = t /\ rows' \in [Peers -> Row \cup {Nil}]
    BY DEF Write, Grows
<1>2. rest' \in [Peers -> 0 .. Cooldown] /\ \A p \in Peers : rest[p] <= rest'[p]
    BY NumberAssumption DEF Write, PeerTypeOK
<1>3. PeerTypeOK'
    BY <1>1, <1>2 DEF PeerTypeOK
<1>4. \A p \in Peers : rows[p] # Nil =>
          rows'[p] # Nil /\ rows'[p].self = rows[p].self /\ rows'[p].tried = rows[p].tried
    BY <1>1 DEF Grows, Kin
<1>5. \A p \in Peers : rows[p] = Nil /\ rows'[p] # Nil =>
          rows'[p].self = FALSE /\ rows'[p].tried = Cooldown /\ rest'[p] = Cooldown
    BY <1>1 DEF Grows, Write
<1>6. SeedsComeBack'
    BY <1>4 DEF BookInv, SeedsComeBack, Known
<1>7. (\A p \in Known : rows[p].self => p = Me)' /\ (pc = "seeded" => ~ Empty)'
  <2>1. (\A p \in Known : rows[p].self => p = Me)'
      BY <1>4, <1>5 DEF BookInv, Known
  <2>2. CASE pc' = pc
      BY <2>1, <2>2, <1>4 DEF BookInv, Known, Empty
  <2>3. CASE pc' # pc
      BY <2>1, <2>3, <1>1 DEF Known, Empty
  <2> QED
      BY <2>2, <2>3
<1>8. (\A p \in Known : rows[p].tried <= rest[p])'
  <2> SUFFICES ASSUME NEW p \in Peers, rows'[p] # Nil PROVE rows'[p].tried <= rest'[p]
      BY DEF Known
  <2>1. CASE rows[p] = Nil
      BY <2>1, <1>5, NumberAssumption
  <2>2. CASE rows[p] # Nil
    <3>1. rows[p] \in Row /\ rows[p].tried <= rest[p]
        BY <2>2 DEF PeerTypeOK, BookInv, Known
    <3>2. rows[p].tried \in Int /\ rest[p] \in Int /\ rest'[p] \in Int
        BY <3>1, <1>2, RowFacts DEF PeerTypeOK
    <3> QED
        BY <3>1, <3>2, <2>2, <1>2, <1>4
  <2> QED
      BY <2>1, <2>2
<1>9. (\A p \in DOMAIN cand : cand[p].tried <= rest[p])'
  <2> SUFFICES ASSUME NEW p \in DOMAIN cand PROVE cand[p].tried <= rest'[p]
      OBVIOUS
  <2>1. p \in Peers /\ cand[p].tried \in Int /\ cand[p].tried <= rest[p]
      BY DEF PeerTypeOK, BookInv
  <2> QED
      BY <2>1, <1>2 DEF PeerTypeOK
<1>10. /\ (pc \notin {"choose", "dial"} => want = 0)' /\ (pc = "dial" => want > 0)'
       /\ (Cardinality(conns) + want <= MaxOutbound)'
  <2>1. Cardinality(conns') <= Cardinality(conns) /\ Cardinality(conns') \in Nat
        /\ Cardinality(conns) \in Nat
      BY CardFacts DEF PeerTypeOK
  <2> QED
      BY <2>1, NumberAssumption DEF BookInv, PeerTypeOK
<1> QED
    BY <1>3, <1>6, <1>7, <1>8, <1>9, <1>10 DEF BookInv

LEMMA OtherStep ==
    ASSUME PInv, NEW p \in Peers,
           \/ record_outbound_success(p) \/ FatalError(p) \/ close_connection(p)
           \/ \E age \in Ages \cup {Future}, kind \in AddrKinds : handle_addr(p, age, kind)
           \/ handle_incoming_onionpeer(p) \/ h_addPeer(p)
    PROVE  PInv'
<1>1. ASSUME NEW t, Grows(t), Write(t), UNCHANGED connector, conns' \subseteq conns
      PROVE  PInv'
    BY <1>1, GrowStep DEF connector
<1>2. PeerTypeOK
    BY DEF PInv
<1>3. CASE record_outbound_success(p) \/ FatalError(p) \/ close_connection(p)
    BY <1>1, <1>2, <1>3, ResultGrows, Zenon DEF record_outbound_success, FatalError,
       close_connection, Judge
<1>4. CASE \E age \in Ages \cup {Future}, kind \in AddrKinds : handle_addr(p, age, kind)
    BY <1>1, <1>2, <1>4, LearnedGrows DEF handle_addr
<1>5. CASE handle_incoming_onionpeer(p) \/ h_addPeer(p)
    BY <1>1, <1>2, <1>5, LearnedGrows, AgeFacts DEF handle_incoming_onionpeer, h_addPeer
<1> QED
    BY <1>3, <1>4, <1>5

(* In an empty table only the node itself has a row, and it is no seed.    *)
LEMMA SeedStep == ASSUME PInv, Seed PROVE PInv'
<1>1. PICK file \in SUBSET Observed : Write(bm_peer_manager_seed_bootstrap(file))
    BY DEF Seed
<1> DEFINE u == bm_peer_manager_upsert(rows, Seeds)
           t == bm_peer_manager_upsert(u, file)
<1>2. CASE ~ Empty
  <2>1. Write(rows) /\ Grows(rows) /\ \E p \in Peers : rows[p] # Nil /\ ~ rows[p].self
      BY <1>1, <1>2, SameGrows DEF bm_peer_manager_seed_bootstrap, Empty, Known, PInv
  <2> QED
      BY <2>1, GrowStep DEF Seed
<1>3. CASE Empty
  <2>1. Grows(u) /\ \A p \in Seeds \cap Peers : u[p] # Nil
      BY SameGrows, UpsertGrows DEF PInv
  <2>2. Grows(t) /\ \A p \in Peers : u[p] # Nil => t[p] # Nil
      BY <2>1, UpsertGrows DEF PInv
  <2>3. Write(t)
      BY <1>1, <1>3 DEF bm_peer_manager_seed_bootstrap, bm_peer_manager_load_observed_nodes
  <2> HIDE DEF t, u
  <2>4. PICK p \in Seeds : p \in Peers /\ p # Me
      BY PeerAssumption
  <2>5. rows[p] = Nil
      BY <1>3, <2>4 DEF PInv, BookInv, Empty, Known
  <2>6. t[p] # Nil /\ t[p].self = FALSE
      BY <2>1, <2>2, <2>4, <2>5, Zenon DEF Grows
  <2> QED
      BY <2>2, <2>3, <2>4, <2>6, GrowStep DEF Seed
<1> QED
    BY <1>2, <1>3

LEMMA CleanStep == ASSUME PInv, Clean PROVE PInv'
<1> USE DEF PInv, Clean
<1>1. rows' \in [Peers -> Row \cup {Nil}]
      /\ \A p \in Peers : rows'[p] # Nil => rows[p] # Nil /\ rows'[p] = rows[p]
    BY DEF Write, bm_peer_manager_cleanup, PeerTypeOK, Known
<1>2. rest' \in [Peers -> 0 .. Cooldown] /\ \A p \in Peers : rest[p] <= rest'[p]
    BY NumberAssumption DEF Write, PeerTypeOK
<1>3. \A p \in Peers : rows'[p] # Nil => rest'[p] = rest[p]
    BY <1>1 DEF Write, PeerTypeOK
<1>4. PeerTypeOK'
    BY <1>1, <1>2 DEF PeerTypeOK
<1>5. SeedsComeBack' /\ (\A p \in Known : rows[p].self => p = Me)'
      /\ (pc = "seeded" => ~ Empty)' /\ (\A p \in Known : rows[p].tried <= rest[p])'
    BY <1>1, <1>3, Zenon DEF BookInv, SeedsComeBack, Known
<1>6. (\A p \in DOMAIN cand : cand[p].tried <= rest[p])'
  <2> SUFFICES ASSUME NEW p \in DOMAIN cand PROVE cand[p].tried <= rest'[p]
      BY Zenon
  <2>1. p \in Peers /\ cand[p].tried \in Int /\ cand[p].tried <= rest[p]
      BY DEF PeerTypeOK, BookInv
  <2> QED
      BY <2>1, <1>2 DEF PeerTypeOK
<1> QED
    BY <1>4, <1>5, <1>6 DEF BookInv

LEMMA EmptyFacts ==
    /\ DOMAIN NoCandidates = {}
    /\ NoCandidates \in [{} -> [rating : Worst .. Best, tried : 0 .. Cooldown]]
<1>1. DOMAIN NoCandidates = {}
    BY DEF NoCandidates
<1>2. NoCandidates = [p \in {} |-> NoCandidates[p]]
    BY DEF NoCandidates
<1> QED
    BY <1>1, <1>2

LEMMA EndStep == ASSUME PInv, ChooseNone \/ Satisfied PROVE PInv'
<1> USE DEF PInv, ChooseNone, Satisfied, EndCycle
<1>1. PeerTypeOK'
  <2>1. DOMAIN cand' = {}
        /\ cand' \in [DOMAIN cand' -> [rating : Worst .. Best, tried : 0 .. Cooldown]]
      BY EmptyFacts, Zenon
  <2> QED
      BY <2>1, NumberAssumption DEF PeerTypeOK
<1>2. SeedsComeBack' /\ (\A p \in Known : rows[p].self => p = Me)'
      /\ (pc = "seeded" => ~ Empty)' /\ (\A p \in Known : rows[p].tried <= rest[p])'
    BY Zenon DEF BookInv, SeedsComeBack, Known
<1>3. (\A p \in DOMAIN cand : cand[p].tried <= rest[p])'
    BY EmptyFacts
<1>4. (Cardinality(conns) + want <= MaxOutbound)'
    BY CardFacts, NumberAssumption DEF BookInv, PeerTypeOK
<1> QED
    BY <1>1, <1>2, <1>3, <1>4, Zenon DEF BookInv

(* What is listed is listed with what the table says; nobody only if every *)
(* row that is not the node's own is of another stream.                    *)
LEMMA ListStep == ASSUME PInv, List PROVE PInv'
<1> USE DEF PInv
<1>1. Cardinality(conns) \in Nat
    BY CardFacts DEF PeerTypeOK
<1>2. CASE Cardinality(conns) >= MaxOutbound
  <2>1. pc' = "idle" /\ UNCHANGED <<want, cand, rows, conns, cur, rest>> /\ pc = "seeded"
      BY <1>2, Zenon DEF List
  <2>2. PeerTypeOK'
      BY <2>1 DEF PeerTypeOK
  <2> QED
      BY <2>1, <2>2, Zenon DEF BookInv, SeedsComeBack, Known
<1>3. CASE ~ (Cardinality(conns) >= MaxOutbound)
  <2> DEFINE hosts == {p \in Known \ OtherStream : ~ rows[p].self}
  <2>1. pc = "seeded" /\ pc' = "choose" /\ want' = MaxOutbound - Cardinality(conns)
        /\ UNCHANGED <<rows, conns, cur, rest>>
      BY <1>3 DEF List
  <2>2. PICK s \in bm_peer_manager_list_top(MaxCandidates) :
            cand' = [p \in s |-> [rating |-> rows[p].rating, tried |-> rows[p].tried]]
      BY <1>3, Zenon DEF List
  <2>3. s \subseteq hosts /\ hosts \subseteq Peers
        /\ Cardinality(s) = IF Cardinality(hosts) < MaxCandidates
                              THEN Cardinality(hosts) ELSE MaxCandidates
      BY Zenon DEF bm_peer_manager_list_top, Known
  <2>4. \A p \in s : p \in Known /\ p \in Peers /\ rows[p] \in Row
      BY <2>3, Zenon DEF Known, PeerTypeOK
  <2>5. s = {} => hosts = {}
    <3>1. IsFiniteSet(hosts) /\ Cardinality({}) = 0
        BY <2>3, CardFacts, FS_EmptySet
    <3> QED
        BY <3>1, <2>3, FS_EmptySet, NumberAssumption
  <2>6. DOMAIN cand' = s /\ cand' \in [s -> [rating : Worst .. Best, tried : 0 .. Cooldown]]
      BY <2>2, <2>4, RowFacts
  <2>7. PeerTypeOK'
      BY <2>1, <2>4, <2>6, <1>1, <1>3, NumberAssumption DEF PeerTypeOK
  <2>8. SeedsComeBack'
    <3>1. PICK p \in Known : ~ rows[p].self
        BY <2>1 DEF BookInv, Empty
    <3> QED
        BY <3>1, <2>1, <2>5, <2>6 DEF SeedsComeBack, Known
  <2>9. (\A p \in DOMAIN cand : cand[p].tried <= rest[p])'
      BY <2>1, <2>2, <2>4, <2>6, Zenon DEF BookInv
  <2>10. (Cardinality(conns) + want <= MaxOutbound)'
      BY <2>1, <1>1, NumberAssumption
  <2> QED
      BY <2>1, <2>7, <2>8, <2>9, <2>10, Zenon DEF BookInv, Known
<1> QED
    BY <1>2, <1>3

LEMMA ChooseStep == ASSUME PInv, NEW p \in Peers, Choose(p) PROVE PInv'
<1> USE DEF PInv
<1>1. /\ pc = "choose" /\ want > 0 /\ p \in DOMAIN cand /\ pc' = "dial" /\ cur' = p
      /\ cand' = [cand EXCEPT ![p].tried = 0] /\ UNCHANGED <<conns, want>>
      /\ rest' = [rest EXCEPT ![p] = 0] /\ rows' = bm_peer_manager_record_attempt(p)
    BY DEF Choose
<1>2. rest' \in [Peers -> 0 .. Cooldown] /\ rest'[p] = 0
      /\ \A q \in Peers : q # p => rest'[q] = rest[q]
    BY <1>1, NumberAssumption DEF PeerTypeOK
<1>3. /\ DOMAIN cand' = DOMAIN cand
      /\ cand' \in [DOMAIN cand' -> [rating : Worst .. Best, tried : 0 .. Cooldown]]
      /\ cand'[p].tried = 0 /\ \A q \in DOMAIN cand : q # p => cand'[q] = cand[q]
    BY <1>1, NumberAssumption DEF PeerTypeOK
<1>4. \A q \in Peers : rows'[q] = IF q # p \/ rows[q] = Nil THEN rows[q]
                                  ELSE [rows[q] EXCEPT !.tried = 0]
    BY <1>1 DEF bm_peer_manager_record_attempt, PeerTypeOK
<1>5. \A q \in Peers :
          /\ rows'[q] \in Row \cup {Nil} /\ (rows'[q] = Nil <=> rows[q] = Nil)
          /\ rows[q] # Nil => rows'[q].self = rows[q].self
          /\ rows[q] # Nil /\ q = p => rows'[q].tried = 0
          /\ q # p => rows'[q] = rows[q]
  <2> SUFFICES ASSUME NEW q \in Peers
               PROVE  /\ rows'[q] \in Row \cup {Nil} /\ (rows'[q] = Nil <=> rows[q] = Nil)
                      /\ rows[q] # Nil => rows'[q].self = rows[q].self
                      /\ rows[q] # Nil /\ q = p => rows'[q].tried = 0
                      /\ q # p => rows'[q] = rows[q]
      OBVIOUS
  <2>1. rows[q] \in Row \cup {Nil}
      BY DEF PeerTypeOK
  <2>2. CASE q # p \/ rows[q] = Nil
      BY <2>1, <2>2, <1>4, Zenon
  <2>3. CASE q = p /\ rows[q] # Nil
    <3>1. [rows[q] EXCEPT !.tried = 0] \in Row
      <4>1. 0 \in 0 .. Cooldown /\ 0 \in Ages \cup {Future} /\ rows[q] \in Row
          BY <2>1, <2>3, AgeFacts, NumberAssumption
      <4> QED
          BY <4>1, MoreFacts, Zenon
    <3>2. [rows[q] EXCEPT !.tried = 0].self = rows[q].self
          /\ [rows[q] EXCEPT !.tried = 0].tried = 0
        BY <2>1, <2>3 DEF Row
    <3> QED
        BY <3>1, <3>2, <2>3, <1>4, NilAssumption, Zenon
  <2> QED
      BY <2>2, <2>3, Zenon
<1>6. rows' \in [Peers -> Row \cup {Nil}]
  <2>1. rows' = [q \in Peers |-> rows'[q]]
      BY <1>1, Zenon DEF bm_peer_manager_record_attempt, PeerTypeOK
  <2> QED
      BY <2>1, <1>5
<1>7. PeerTypeOK'
    BY <1>1, <1>2, <1>3, <1>6 DEF PeerTypeOK
<1>8. SeedsComeBack' /\ (\A q \in Known : rows[q].self => q = Me)'
    BY <1>1, <1>3, <1>5 DEF BookInv, SeedsComeBack, Known
<1>9. (\A q \in Known : rows[q].tried <= rest[q])'
    BY <1>2, <1>5 DEF BookInv, Known
<1>10. (\A q \in DOMAIN cand : cand[q].tried <= rest[q])'
    BY <1>2, <1>3 DEF BookInv, PeerTypeOK
<1> QED
    BY <1>1, <1>7, <1>8, <1>9, <1>10 DEF BookInv

LEMMA DialStep ==
    ASSUME PInv, NEW proxy \in BOOLEAN, NEW fault, Dial(proxy, fault) PROVE PInv'
<1> USE DEF PInv
<1>1. pc = "dial" /\ pc' = "choose" /\ rest' = rest /\ cur \in DOMAIN cand /\ cur \in Peers
    BY Zenon DEF Dial, PeerTypeOK
<1>2. CASE open_peer_connection(proxy, fault) /\ fault # "setup"
  <2>1. conns' = conns \cup {cur} /\ want' = want - 1 /\ UNCHANGED <<rows, cand>>
      BY <1>2 DEF Dial
  <2>2. Cardinality(conns) \in Nat /\ Cardinality(conns') \in Nat
        /\ Cardinality(conns') <= Cardinality(conns) + 1
      BY <2>1, <1>1, CardFacts, Zenon DEF PeerTypeOK
  <2>3. PeerTypeOK'
      BY <1>1, <2>1, NumberAssumption DEF PeerTypeOK, BookInv
  <2>4. (Cardinality(conns) + want <= MaxOutbound)'
      BY <1>1, <2>1, <2>2, NumberAssumption DEF PeerTypeOK, BookInv
  <2> QED
      BY <1>1, <2>1, <2>3, <2>4, Zenon DEF BookInv, SeedsComeBack, Known
<1>3. CASE ~ (open_peer_connection(proxy, fault) /\ fault # "setup")
  <2>1. /\ rows' = bm_peer_manager_record_result(cur, FALSE) /\ UNCHANGED <<conns, want>>
        /\ cand' = [cand EXCEPT ![cur].rating = Lower(@)]
      BY <1>3, Zenon DEF Dial, DialFails
  <2>2. Grows(rows') /\ \A p \in Peers : rows[p] = Nil => rows'[p] = Nil
      BY <1>1, <2>1, ResultGrows, Zenon
  <2>3. \A p \in Peers : rows[p] # Nil =>
            rows'[p] # Nil /\ rows'[p].self = rows[p].self /\ rows'[p].tried = rows[p].tried
      BY <2>2 DEF Grows, Kin
  <2>4. Lower(cand[cur].rating) \in Worst .. Best
      BY <1>1, NumberAssumption DEF Lower, PeerTypeOK
  <2>5. /\ DOMAIN cand' = DOMAIN cand
        /\ cand' \in [DOMAIN cand' -> [rating : Worst .. Best, tried : 0 .. Cooldown]]
        /\ \A p \in DOMAIN cand : cand'[p].tried = cand[p].tried
      BY <1>1, <2>1, <2>4 DEF PeerTypeOK
  <2>6. PeerTypeOK'
      BY <1>1, <2>1, <2>2, <2>5, Zenon DEF PeerTypeOK, Grows
  <2>7. SeedsComeBack' /\ (\A p \in Known : rows[p].self => p = Me)'
        /\ (\A p \in Known : rows[p].tried <= rest[p])'
        /\ (\A p \in DOMAIN cand : cand[p].tried <= rest[p])'
      BY <1>1, <2>2, <2>3, <2>5 DEF BookInv, SeedsComeBack, Known
  <2> QED
      BY <1>1, <2>1, <2>6, <2>7, Zenon DEF BookInv
<1> QED
    BY <1>2, <1>3

LEMMA TickStep == ASSUME PInv, Tick PROVE PInv'
<1> USE DEF PInv
<1>1. \A a, b \in 0 .. Cooldown :
          Longer(a) \in 0 .. Cooldown /\ (a <= b => Longer(a) <= Longer(b))
    BY NumberAssumption DEF Longer
<1>2. UNCHANGED <<conns, pc, want, cur>>
    BY Zenon DEF Tick
<1>3. rest' \in [Peers -> 0 .. Cooldown] /\ \A p \in Peers : rest'[p] = Longer(rest[p])
    BY <1>1, Zenon DEF Tick, PeerTypeOK
<1>4. /\ DOMAIN cand' = DOMAIN cand
      /\ \A p \in DOMAIN cand : cand'[p] = [cand[p] EXCEPT !.tried = Longer(cand[p].tried)]
    BY Zenon DEF Tick
<1>5. \A p \in DOMAIN cand :
          /\ cand'[p] \in [rating : Worst .. Best, tried : 0 .. Cooldown]
          /\ cand'[p].tried = Longer(cand[p].tried)
    BY <1>1, <1>4 DEF PeerTypeOK
<1>6. cand' \in [DOMAIN cand' -> [rating : Worst .. Best, tried : 0 .. Cooldown]]
  <2>1. cand' = [p \in DOMAIN cand |-> cand'[p]]
      BY Zenon DEF Tick
  <2> QED
      BY <2>1, <1>4, <1>5
<1>7. ASSUME NEW p \in Peers
      PROVE  /\ rows'[p] \in Row \cup {Nil} /\ (rows'[p] = Nil <=> rows[p] = Nil)
             /\ rows[p] # Nil => /\ rows'[p].self = rows[p].self
                                 /\ rows'[p].tried = Longer(rows[p].tried)
  <2>1. rows[p] \in Row \cup {Nil}
      BY DEF PeerTypeOK
  <2>2. rows'[p] = IF rows[p] = Nil THEN Nil
                   ELSE [rows[p] EXCEPT !.age = Older(rows[p].age),
                                        !.tried = Longer(rows[p].tried)]
      BY Zenon DEF Tick
  <2>3. CASE rows[p] = Nil
      BY <2>2, <2>3
  <2>4. CASE rows[p] # Nil
    <3> DEFINE a == Older(rows[p].age)
               c == Longer(rows[p].tried)
               r == [rows[p] EXCEPT !.age = a, !.tried = c]
    <3>1. rows[p] \in Row /\ a \in Ages \cup {Future} /\ c \in 0 .. Cooldown
        BY <2>1, <2>4, RowFacts, AgeFacts, Zenon
    <3> HIDE DEF a, c
    <3>2. r \in Row
        BY <3>1, MoreFacts, Zenon
    <3>3. r.self = rows[p].self /\ r.tried = c
        BY <3>1 DEF Row
    <3>4. rows'[p] = r
        BY <2>2, <2>4, Zenon DEF a, c
    <3> QED
        BY <3>2, <3>3, <3>4, <2>4, NilAssumption DEF c
  <2> QED
      BY <2>3, <2>4, Zenon
<1>8. rows' \in [Peers -> Row \cup {Nil}]
  <2>1. rows' = [p \in Peers |-> rows'[p]]
      BY Zenon DEF Tick
  <2> QED
      BY <2>1, <1>7, Zenon
<1>9. PeerTypeOK'
    BY <1>2, <1>3, <1>4, <1>6, <1>8 DEF PeerTypeOK
<1>10. SeedsComeBack' /\ (\A p \in Known : rows[p].self => p = Me)'
       /\ (pc = "seeded" => ~ Empty)'
    BY <1>2, <1>4, <1>7 DEF BookInv, SeedsComeBack, Known, Empty
<1>11. (\A p \in Known : rows[p].tried <= rest[p])'
  <2> SUFFICES ASSUME NEW p \in Peers, rows'[p] # Nil PROVE rows'[p].tried <= rest'[p]
      BY DEF Known
  <2>1. rows[p] # Nil /\ rows[p] \in Row /\ rows'[p].tried = Longer(rows[p].tried)
      BY <1>7 DEF PeerTypeOK
  <2>2. rows[p].tried \in 0 .. Cooldown /\ rest[p] \in 0 .. Cooldown
        /\ rows[p].tried <= rest[p]
      BY <2>1, RowFacts, Zenon DEF PeerTypeOK, BookInv, Known
  <2> QED
      BY <2>1, <2>2, <1>1, <1>3, Zenon
<1>12. (\A p \in DOMAIN cand : cand[p].tried <= rest[p])'
  <2> SUFFICES ASSUME NEW p \in DOMAIN cand PROVE cand'[p].tried <= rest'[p]
      BY <1>4
  <2>1. p \in Peers /\ cand[p].tried \in 0 .. Cooldown /\ rest[p] \in 0 .. Cooldown
        /\ cand[p].tried <= rest[p]
      BY Zenon DEF PeerTypeOK, BookInv
  <2> QED
      BY <2>1, <1>1, <1>3, <1>5, Zenon
<1> QED
    BY <1>2, <1>9, <1>10, <1>11, <1>12, Zenon DEF BookInv

(* The node's own row, marked; all others stay.                            *)
LEMMA MarkFacts ==
    ASSUME NEW t \in [Peers -> Row \cup {Nil}]
    PROVE  LET u == bm_peer_manager_mark_self(t)
           IN  /\ u \in [Peers -> Row \cup {Nil}] /\ u[Me] # Nil /\ Me \in Peers
               /\ u[Me].tried = IF t[Me] = Nil THEN Cooldown ELSE t[Me].tried
               /\ \A p \in Peers \ {Me} : u[p] = t[p]
<1> DEFINE u == bm_peer_manager_mark_self(t)
<1>1. Me \in Peers
    BY PeerAssumption
<1>2. u = [t EXCEPT ![Me] = IF t[Me] = Nil THEN Fresh(0, 0, TRUE)
                            ELSE [t[Me] EXCEPT !.self = TRUE]]
    BY DEF bm_peer_manager_mark_self
<1>3. CASE t[Me] = Nil
  <2>1. u = [t EXCEPT ![Me] = Fresh(0, 0, TRUE)] /\ Fresh(0, 0, TRUE) \in Row
        /\ Fresh(0, 0, TRUE) # Nil /\ Fresh(0, 0, TRUE).tried = Cooldown
      BY <1>2, <1>3, FreshFacts, AgeFacts, Zenon
  <2> QED
      BY <2>1, <1>1, <1>3, Zenon
<1>4. CASE t[Me] # Nil
  <2> DEFINE r == [t[Me] EXCEPT !.self = TRUE]
  <2>1. t[Me] \in Row
      BY <1>1, <1>4
  <2>2. r \in Row /\ r.tried = t[Me].tried /\ u = [t EXCEPT ![Me] = r]
      BY <2>1, <1>2, <1>4, Zenon DEF Row
  <2> QED
      BY <2>2, <1>1, <1>4, NilAssumption, Zenon
<1> QED
    BY <1>3, <1>4, Zenon

LEMMA RestartStep == ASSUME PInv, Restart PROVE PInv'
<1> USE DEF PInv
<1>1. /\ pc' = "idle" /\ want' = 0 /\ cand' = NoCandidates /\ conns' = {}
    BY DEF Restart, EndCycle
<1>2. DOMAIN cand' = {}
      /\ cand' \in [DOMAIN cand' -> [rating : Worst .. Best, tried : 0 .. Cooldown]]
    BY <1>1, EmptyFacts, Zenon
<1>3. Cardinality(conns') = 0
    BY <1>1, FS_EmptySet, Zenon
<1>4. rest' \in [Peers -> 0 .. Cooldown]
      /\ \A p \in Peers : (rows'[p] = Nil <=> rows[p] = Nil) => rest'[p] = rest[p]
    BY NumberAssumption DEF Restart, Write, PeerTypeOK
<1>5. \A p \in Peers : rows[p] = Nil /\ rows'[p] # Nil => rest'[p] = Cooldown
    BY DEF Restart, Write
<1>6. /\ rows' \in [Peers -> Row \cup {Nil}] /\ \A p \in Peers \ {Me} : rows'[p] = rows[p]
      /\ rows[Me] # Nil => rows'[Me] # Nil /\ rows'[Me].tried = rows[Me].tried
      /\ rows[Me] = Nil /\ rows'[Me] # Nil => rows'[Me].tried = Cooldown
  <2>1. rows \in [Peers -> Row \cup {Nil}]
      BY DEF PeerTypeOK
  <2>2. CASE Write(rows)
      BY <2>1, <2>2, Zenon DEF Write
  <2>3. CASE Write(bm_peer_manager_mark_self(rows))
      BY <2>1, <2>3, MarkFacts, Zenon DEF Write
  <2> QED
      BY <2>2, <2>3, Zenon DEF Restart
<1>7. PeerTypeOK'
    BY <1>1, <1>2, <1>4, <1>6, NumberAssumption DEF PeerTypeOK
<1>8. (\A p \in Known : rows[p].self => p = Me)'
    BY <1>6, Zenon DEF BookInv, Known
<1>9. (\A p \in Known : rows[p].tried <= rest[p])'
  <2> SUFFICES ASSUME NEW p \in Peers, rows'[p] # Nil PROVE rows'[p].tried <= rest'[p]
      BY DEF Known
  <2>1. CASE rows[p] # Nil
      BY <2>1, <1>4, <1>6, Zenon DEF BookInv, Known
  <2>2. CASE rows[p] = Nil
      BY <2>2, <1>5, <1>6, NumberAssumption
  <2> QED
      BY <2>1, <2>2, Zenon
<1> QED
    BY <1>1, <1>2, <1>3, <1>7, <1>8, <1>9, NumberAssumption DEF BookInv, SeedsComeBack

LEMMA PInit == BookInit => PInv
<1> SUFFICES ASSUME BookInit PROVE PInv
    OBVIOUS
<1>1. pc = "idle" /\ want = 0 /\ conns = {} /\ rest = [p \in Peers |-> Cooldown]
    BY DEF BookInit
<1>2. DOMAIN cand = {}
      /\ cand \in [DOMAIN cand -> [rating : Worst .. Best, tried : 0 .. Cooldown]]
    BY EmptyFacts, Zenon DEF BookInit
<1>3. Cardinality(conns) = 0
    BY <1>1, FS_EmptySet
<1>4. /\ rows \in [Peers -> Row \cup {Nil}] /\ \A p \in Peers \ {Me} : rows[p] = Nil
      /\ Me \in Peers /\ rows[Me] # Nil => rows[Me].tried = Cooldown
  <2> DEFINE t == [p \in Peers |-> Nil]
  <2>1. t \in [Peers -> Row \cup {Nil}] /\ \A p \in Peers : t[p] = Nil
      OBVIOUS
  <2> HIDE DEF t
  <2>2. rows = t \/ rows = bm_peer_manager_mark_self(t)
      BY DEF BookInit, t
  <2> QED
      BY <2>1, <2>2, MarkFacts
<1>5. PeerTypeOK
    BY <1>1, <1>2, <1>4, NumberAssumption DEF PeerTypeOK
<1>6. \A p \in Known : p = Me /\ rows[p].tried <= rest[p]
    BY <1>1, <1>4, NumberAssumption DEF Known
<1> QED
    BY <1>1, <1>2, <1>3, <1>5, <1>6, NumberAssumption DEF PInv, BookInv, SeedsComeBack

LEMMA PStep == PInv /\ [BookNext]_bookVars => PInv'
<1> SUFFICES ASSUME PInv, [BookNext]_bookVars PROVE PInv'
    OBVIOUS
<1>1. CASE UNCHANGED bookVars
    BY <1>1, Zenon DEF PInv, PeerTypeOK, BookInv, SeedsComeBack, Known, Empty, bookVars
<1>2. CASE Connector
    BY <1>2, CleanStep, SeedStep, ListStep, EndStep, ChooseStep, DialStep, Zenon DEF Connector
<1>3. CASE Tick \/ Restart
    BY <1>3, TickStep, RestartStep
<1>4. CASE \E p \in Peers :
             \/ record_outbound_success(p) \/ FatalError(p) \/ close_connection(p)
             \/ \E age \in Ages \cup {Future}, kind \in AddrKinds : handle_addr(p, age, kind)
             \/ handle_incoming_onionpeer(p) \/ h_addPeer(p)
    BY <1>4, OtherStep
<1> QED
    BY <1>1, <1>2, <1>3, <1>4 DEF BookNext

LEMMA AlwaysP == BookSpec => []PInv
BY PInit, PStep, PTL DEF BookSpec

(* Types: whatever the writers of the table do, a rating stays within its  *)
(* bounds, and the host the cycle dials is on its list.                    *)
THEOREM BookTypes == BookSpec => []PeerTypeOK
BY AlwaysP, PTL DEF PInv

(* A cycle of bm_peer_connector_connect_initial that lists nobody leaves a *)
(* row of another stream in the table: when there was no row but the       *)
(* node's own, bm_peer_manager_seed_bootstrap has put the seeds there.     *)
THEOREM SomebodyToDial == BookSpec => []SeedsComeBack
<1>1. PInv => SeedsComeBack
    BY Zenon DEF PInv, BookInv
<1> QED
    BY <1>1, AlwaysP, PTL

(* bm_peer_connector_connect_initial never has more than max_outbound      *)
(* connections, although connections close while it dials.                 *)
THEOREM OutboundLimit == BookSpec => []OutboundBounded
<1>1. PInv => OutboundBounded
  <2> SUFFICES ASSUME PInv PROVE OutboundBounded
      OBVIOUS
  <2>1. Cardinality(conns) \in Nat
      BY CardFacts DEF PInv, PeerTypeOK
  <2> QED
      BY <2>1, NumberAssumption DEF PInv, BookInv, PeerTypeOK, OutboundBounded
<1> QED
    BY <1>1, AlwaysP, PTL

(* The copies: what a step of the connector does to a row it does to the   *)
(* copy, and what the network thread does to it judges the host.           *)
LEMMA CopyWritten ==
    ASSUME PInv, CopyInv, NEW p \in Peers, NEW success \in BOOLEAN
    PROVE  LET t == bm_peer_manager_record_result(p, success)
           IN  /\ \A q \in Known : t[q] # Nil
               /\ \A q \in Peers : q # p => t[q] = rows[q]
               /\ p \in Known => t[p].rating = IF success THEN Raise(rows[p].rating)
                                               ELSE Lower(rows[p].rating)
<1> DEFINE t == bm_peer_manager_record_result(p, success)
<1>1. rows \in [Peers -> Row \cup {Nil}]
    BY DEF PInv, PeerTypeOK
<1>2. \A q \in Peers : q # p => t[q] = rows[q]
    BY <1>1, Zenon DEF bm_peer_manager_record_result
<1>3. \A q \in Known : t[q] # Nil
  <2>1. Grows(t)
      BY ResultGrows, Zenon DEF PInv
  <2> QED
      BY <2>1, Zenon DEF Grows, Kin, Known
<1>4. ASSUME p \in Known
      PROVE  t[p].rating = IF success THEN Raise(rows[p].rating) ELSE Lower(rows[p].rating)
  <2>1. rows[p] \in Row /\ rows[p] # Nil
      BY <1>1, <1>4, Zenon DEF Known
  <2>2. t[p] = IF success THEN [rows[p] EXCEPT !.rating = Raise(rows[p].rating), !.age = 0]
               ELSE [rows[p] EXCEPT !.rating = Lower(rows[p].rating)]
      BY <1>1, <2>1, Zenon DEF bm_peer_manager_record_result
  <2> QED
      BY <2>1, <2>2 DEF Row
<1> QED
    BY <1>2, <1>3, <1>4, Zenon

LEMMA CopyOther ==
    ASSUME PInv, CopyInv, NEW p \in Peers,
           \/ record_outbound_success(p) \/ FatalError(p) \/ close_connection(p)
           \/ \E age \in Ages \cup {Future}, kind \in AddrKinds : handle_addr(p, age, kind)
           \/ handle_incoming_onionpeer(p) \/ h_addPeer(p)
    PROVE  CopyInv'
<1>1. rows \in [Peers -> Row \cup {Nil}]
    BY DEF PInv, PeerTypeOK
<1>2. ASSUME NEW success \in BOOLEAN, Judge(p, success) PROVE CopyInv'
  <2>1. /\ rows' = bm_peer_manager_record_result(p, success) /\ UNCHANGED <<pc, cand>>
        /\ judged' = judged \cup ({p} \cap DOMAIN cand)
      BY <1>2, Zenon DEF Judge, Write, connector
  <2>2. (\A q \in Known : rows'[q] # Nil) /\ \A q \in Peers : q # p => rows'[q] = rows[q]
      BY <2>1, CopyWritten, Zenon
  <2> QED
      BY <2>1, <2>2, Zenon DEF CopyInv, Known
<1>3. ASSUME NEW age \in Ages \cup {Future}, Write(bm_peer_manager_upsert_learned(p, age)),
             UNCHANGED <<conns, connector, judged>>
      PROVE  CopyInv'
  <2>1. /\ UNCHANGED <<pc, cand, judged>>
        /\ rows' = [rows EXCEPT ![p] = IF rows[p] = Nil THEN Fresh(0, age, FALSE)
                                       ELSE [rows[p] EXCEPT !.age = age]]
      BY <1>3, Zenon DEF Write, connector, bm_peer_manager_upsert_learned
  <2>2. \A q \in Known : rows'[q].rating = rows[q].rating /\ rows[q] \in Row
      BY <1>1, <2>1 DEF Known, Row
  <2>3. \A q \in Known : q \in Known'
    <3>1. CASE p \in Known
      <4>1. rows[p] \in Row /\ rows'[p] = [rows[p] EXCEPT !.age = age]
          BY <1>1, <2>1, <3>1, Zenon DEF Known
      <4>2. 0 \in Worst .. Best
          BY NumberAssumption
      <4>3. Kin(rows[p], rows'[p])
          BY <1>3, <4>1, <4>2, KinFacts, Zenon
      <4> QED
          BY <1>1, <2>1, <4>3, Zenon DEF Known, Kin
    <3>2. CASE p \notin Known
        BY <1>1, <2>1, <3>2, Zenon DEF Known
    <3> QED
        BY <3>1, <3>2
  <2> QED
      BY <2>1, <2>2, <2>3, Zenon DEF CopyInv
<1>4. 0 \in Ages \cup {Future}
    BY AgeFacts
<1> QED
    BY <1>2, <1>3, <1>4, Zenon DEF record_outbound_success, FatalError, close_connection,
       handle_addr, handle_incoming_onionpeer, h_addPeer

LEMMA CopyConnector == ASSUME PInv, CopyInv, Connector PROVE CopyInv'
<1>1. rows \in [Peers -> Row \cup {Nil}] /\ DOMAIN cand \subseteq Peers
    BY DEF PInv, PeerTypeOK
<1>2. CASE Clean \/ Seed
  <2>1. UNCHANGED <<cand, judged>> /\ DOMAIN cand = {}
      BY <1>2, Zenon DEF Clean, Seed, CopyInv
  <2> QED
      BY <2>1, Zenon DEF CopyInv
<1>3. CASE List
  <2>1. CASE Cardinality(conns) >= MaxOutbound
      BY <1>3, <2>1, Zenon DEF List, CopyInv, Known
  <2>2. CASE ~ (Cardinality(conns) >= MaxOutbound)
    <3>1. judged = {} /\ judged' = {} /\ rows' = rows /\ pc' = "choose"
        BY <1>3, <2>2, Zenon DEF List, CopyInv
    <3>2. PICK s \in bm_peer_manager_list_top(MaxCandidates) :
              cand' = [p \in s |-> [rating |-> rows[p].rating, tried |-> rows[p].tried]]
        BY <1>3, <2>2, Zenon DEF List
    <3>3. s \subseteq Known
        BY Zenon DEF bm_peer_manager_list_top
    <3>4. DOMAIN cand' = s /\ \A p \in s : cand'[p].rating = rows[p].rating
        BY <3>2
    <3> QED
        BY <3>1, <3>3, <3>4, Zenon DEF CopyInv, Known
  <2> QED
      BY <2>1, <2>2
<1>4. CASE ChooseNone \/ Satisfied
  <2>1. DOMAIN cand' = {} /\ judged' = {}
      BY <1>4, EmptyFacts, Zenon DEF ChooseNone, Satisfied, EndCycle
  <2> QED
      BY <2>1, Zenon DEF CopyInv
<1>5. ASSUME NEW p \in Peers, Choose(p) PROVE CopyInv'
  <2>1. /\ UNCHANGED judged /\ pc' = "dial" /\ cand' = [cand EXCEPT ![p].tried = 0]
        /\ rows' = [rows EXCEPT ![p] = IF rows[p] = Nil THEN Nil
                                       ELSE [rows[p] EXCEPT !.tried = 0]]
      BY <1>5, Zenon DEF Choose, bm_peer_manager_record_attempt
  <2>2. \A q \in Known : rows'[q].rating = rows[q].rating /\ rows'[q] # Nil
    <3>1. \A q \in Known : q # p => rows'[q] = rows[q]
        BY <1>1, <2>1, Zenon DEF Known
    <3>2. ASSUME p \in Known PROVE rows'[p].rating = rows[p].rating /\ rows'[p] # Nil
      <4>1. rows[p] \in Row /\ rows'[p] = [rows[p] EXCEPT !.tried = 0]
          BY <1>1, <2>1, <3>2, Zenon DEF Known
      <4>2. 0 \in 0 .. Cooldown /\ 0 \in Ages \cup {Future}
          BY AgeFacts, NumberAssumption
      <4>3. rows'[p] \in Row
          BY <4>1, <4>2, MoreFacts, Zenon
      <4> QED
          BY <4>1, <4>3, NilAssumption DEF Row
    <3> QED
        BY <3>1, <3>2, Zenon DEF Known
  <2>3. DOMAIN cand' = DOMAIN cand /\ \A q \in DOMAIN cand : cand'[q].rating = cand[q].rating
      BY <2>1 DEF PInv, PeerTypeOK
  <2>4. \A q \in Known : q \in Known'
      BY <2>2, Zenon DEF Known
  <2>5. \A q \in DOMAIN cand \ judged : cand'[q].rating = rows'[q].rating
      BY <2>2, <2>3, Zenon DEF CopyInv
  <2> QED
      BY <2>1, <2>3, <2>4, <2>5 DEF CopyInv
<1>6. ASSUME NEW proxy, NEW fault, Dial(proxy, fault) PROVE CopyInv'
  <2>1. pc' = "choose" /\ UNCHANGED judged /\ cur \in DOMAIN cand /\ cur \in Peers
      BY <1>1, <1>6, Zenon DEF Dial, PInv, PeerTypeOK
  <2>2. CASE UNCHANGED <<rows, cand>>
      BY <2>1, <2>2, Zenon DEF CopyInv, Known
  <2>3. CASE DialFails
    <3>1. rows' = bm_peer_manager_record_result(cur, FALSE)
          /\ cand' = [cand EXCEPT ![cur].rating = Lower(cand[cur].rating)]
        BY <2>3, Zenon DEF DialFails
    <3>2. /\ \A q \in Known : rows'[q] # Nil
          /\ \A q \in Peers : q # cur => rows'[q] = rows[q]
          /\ cur \in Known => rows'[cur].rating = Lower(rows[cur].rating)
        BY <2>1, <3>1, CopyWritten, Zenon
    <3>3. /\ DOMAIN cand' = DOMAIN cand /\ cand'[cur].rating = Lower(cand[cur].rating)
          /\ \A q \in DOMAIN cand : q # cur => cand'[q] = cand[q]
        BY <2>1, <3>1 DEF PInv, PeerTypeOK
    <3> QED
        BY <1>1, <2>1, <3>2, <3>3, Zenon DEF CopyInv, Known
  <2> QED
      BY <1>6, <2>2, <2>3, Zenon DEF Dial
<1> QED
    BY <1>2, <1>3, <1>4, <1>5, <1>6, Zenon DEF Connector

LEMMA CopyStep == PInv /\ CopyInv /\ [BookNext]_bookVars => CopyInv'
<1> SUFFICES ASSUME PInv, CopyInv, [BookNext]_bookVars PROVE CopyInv'
    OBVIOUS
<1>1. rows \in [Peers -> Row \cup {Nil}] /\ DOMAIN cand \subseteq Peers
    BY DEF PInv, PeerTypeOK
<1>2. CASE Tick
  <2>1. UNCHANGED <<pc, judged>> /\ DOMAIN cand' = DOMAIN cand
      BY <1>2, Zenon DEF Tick
  <2>2. ASSUME NEW p \in Known
        PROVE  rows'[p] # Nil /\ rows'[p].rating = rows[p].rating
    <3> DEFINE a == Older(rows[p].age)
               c == Longer(rows[p].tried)
               q == [rows[p] EXCEPT !.age = a, !.tried = c]
    <3>1. rows[p] \in Row /\ rows'[p] = q
        BY <1>1, <1>2, Zenon DEF Tick, Known
    <3>2. a \in Ages \cup {Future} /\ c \in 0 .. Cooldown
        BY <3>1, RowFacts, AgeFacts, Zenon
    <3> HIDE DEF a, c
    <3>3. q \in Row
        BY <3>1, <3>2, MoreFacts, Zenon
    <3>4. q.rating = rows[p].rating
        BY <3>1 DEF Row
    <3> QED
        BY <3>1, <3>3, <3>4, NilAssumption, Zenon
  <2>3. \A p \in DOMAIN cand : cand'[p].rating = cand[p].rating
      BY <1>2 DEF Tick, PInv, PeerTypeOK
  <2> QED
      BY <2>1, <2>2, <2>3, Zenon DEF CopyInv, Known
<1>3. CASE Restart
  <2>1. DOMAIN cand' = {} /\ judged' = {}
      BY <1>3, EmptyFacts, Zenon DEF Restart, EndCycle
  <2> QED
      BY <2>1, Zenon DEF CopyInv
<1>4. CASE UNCHANGED bookVars
    BY <1>4, Zenon DEF CopyInv, Known, bookVars
<1> QED
    BY <1>2, <1>3, <1>4, CopyConnector, CopyOther, Zenon DEF BookNext

LEMMA AlwaysCopy == BookSpec => []CopyInv
<1>1. BookInit => CopyInv
    BY EmptyFacts, Zenon DEF BookInit, CopyInv
<1> QED
    BY <1>1, AlwaysP, CopyStep, PTL DEF BookSpec

(* bm_peer_connector_choose_candidate_index picks no host whose row has a  *)
(* negative rating and that was dialled less than the cooldown ago, unless *)
(* the network thread has rated it since the cycle listed it.  It looks at *)
(* copies: their rating is the row's, and what they say of the last        *)
(* attempt is never longer ago than the attempt was.                       *)
THEOREM LeftInPeace == BookSpec => CooldownKept
<1>1. ASSUME PInv, CopyInv, [BookNext]_bookVars
      PROVE  [\A p \in Peers \ judged :
                 Choose(p) /\ rows[p].rating < 0 => rest[p] >= Cooldown]_bookVars
  <2> SUFFICES ASSUME NEW p \in Peers, p \notin judged, Choose(p), rows[p].rating < 0
               PROVE  rest[p] >= Cooldown
      OBVIOUS
  <2>1. p \in DOMAIN cand /\ Eligible(p)
      BY Zenon DEF Choose
  <2>2. cand[p].rating = rows[p].rating
      BY <1>1, <2>1, Zenon DEF CopyInv
  <2>3. ~ (cand[p].tried < Cooldown)
      BY <2>1, <2>2 DEF Eligible
  <2>4. cand[p].tried <= rest[p]
      BY <1>1, <2>1, Zenon DEF PInv, BookInv
  <2>5. cand[p] \in [rating : Worst .. Best, tried : 0 .. Cooldown]
        /\ rest[p] \in 0 .. Cooldown
      BY <1>1, <2>1 DEF PInv, PeerTypeOK
  <2>6. cand[p].tried \in 0 .. Cooldown
      BY <2>5, Zenon
  <2> QED
      BY <2>3, <2>4, <2>5, <2>6, NumberAssumption
<1> QED
    BY <1>1, AlwaysP, AlwaysCopy, PTL DEF BookSpec, CooldownKept

-----------------------------------------------------------------------------
(* PubkeyExchange.  NoPileUp is not inductive: an answer in the worker, or *)
(* about to be submitted, will be one more.  AnswerInv counts it, and says *)
(* what the cache and the pool hold while pubkey_response_done is between  *)
(* two of its writes, so that a question that finds no answer to repeat    *)
(* finds at most one on the network (BeginThrottled).                      *)

KInv == PubkeyTypeOK /\ AnswerInv

LEMMA AnswersFinite ==
    ASSUME NEW v
    PROVE  Answers(v) \subseteq Pubs /\ IsFiniteSet(Answers(v)) /\ Cardinality(Answers(v)) \in Nat
<1>1. Answers(v) \subseteq Pubs /\ Answers(v) \subseteq Slots
    BY DEF Answers, Slots
<1>2. IsFiniteSet(Answers(v))
    BY <1>1, SlotAssumption, FS_Subset
<1> QED
    BY <1>1, <1>2, FS_CardinalityType

LEMMA AtMostOne ==
    ASSUME NEW S, IsFiniteSet(S), NEW x
    PROVE  /\ S \subseteq {x} => Cardinality(S) <= 1
           /\ x \in S /\ Cardinality(S) <= 1 => S = {x}
<1>1. IsFiniteSet({x}) /\ Cardinality({x}) = 1
    BY FS_Singleton, Zenon
<1>2. Cardinality(S) \in Nat
    BY FS_CardinalityType
<1>3. S \subseteq {x} => Cardinality(S) <= 1
    BY <1>1, FS_Subset
<1>4. ASSUME x \in S, Cardinality(S) <= 1 PROVE S = {x}
  <2>1. {x} \subseteq S /\ Cardinality({x}) <= Cardinality(S)
      BY <1>4, FS_Subset
  <2> QED
      BY <2>1, <1>1, <1>2, <1>4, FS_Subset
<1> QED
    BY <1>3, <1>4

LEMMA SameThrottled ==
    ASSUME NEW v, Throttled(v), Answers(v)' = Answers(v),
           pool["owner"] \subseteq pool'["owner"],
           made'[v] = made[v], cache'[v] = cache[v], job'[v] = job[v],
           answering' = v => answering = v
    PROVE  Throttled(v)'
<1>1. Cardinality(Answers(v)) \in Nat
    BY AnswersFinite, Zenon
<1>2. Recorded(v)'
    BY Zenon DEF Throttled, Recorded
<1>3. Counted(v)'
    BY <1>1 DEF Throttled, Counted
<1> QED
    BY <1>2, <1>3, Zenon DEF Throttled

LEMMA BeginThrottled ==
    ASSUME PubkeyTypeOK, \A v \in Versions : Throttled(v), answering = None,
           NEW w \in Versions, NEW answered, AnswerBegin(w, answered), obj' = obj,
           pool["owner"] \subseteq pool'["owner"], UNCHANGED <<made, cache, job>>
    PROVE  /\ \A v \in Versions : Throttled(v)'
           /\ answering' \in Versions \cup {None}
           /\ \A s \in answered : s \in Pubs /\ obj[s] # None
<1>1. \A v : Answers(v)' = Answers(v)
    BY Zenon DEF Answers
<1>2. \A s \in answered : s \in Pubs /\ obj[s] # None
  <2>1. answered \subseteq {cache[w]} \ {None}
      BY Zenon DEF AnswerBegin, reuse_cached_pubkey_response,
         bm_pubkey_cache_get_self_response
  <2>2. {cache[w]} \ {None} \subseteq Answers(w)
      BY Zenon DEF Throttled, Recorded
  <2> QED
      BY <2>1, <2>2, Zenon DEF Answers
<1>3. answering' = None \/ (answering' = w /\ reuse_cached_pubkey_response(w) = {})
    BY Zenon DEF AnswerBegin
<1>4. ASSUME NEW v \in Versions, answering' # v PROVE Throttled(v)'
    BY <1>1, <1>4, SameThrottled, Zenon
<1>5. ASSUME answering' = w, w # None PROVE Throttled(w)'
  <2>1. Throttled(w)
      BY Zenon
  <2>6. Recorded(w)'
      BY <2>1, <1>1, Zenon DEF Throttled, Recorded
  <2>2. cache[w] = None
      BY <1>3, <1>5, <2>1, Zenon DEF Throttled, Recorded, reuse_cached_pubkey_response,
         bm_pubkey_cache_get_self_response
  <2>3. None \notin Answers(w) /\ IsFiniteSet(Answers(w)) /\ Cardinality(Answers(w)) \in Nat
      BY AnswersFinite, SlotAssumption, Zenon DEF Slots
  <2>4. CASE job[w] = "stored"
    <3>1. Answers(w) \subseteq {made[w]}
        BY <2>1, <2>2, <2>3, <2>4, Zenon DEF Throttled, Recorded
    <3>2. Cardinality(Answers(w)) <= 1
        BY <3>1, <2>3, AtMostOne, Zenon
    <3>3. Counted(w)'
        BY <2>3, <2>4, <3>2, <1>1, <1>5 DEF Counted
    <3> QED
        BY <2>6, <3>3, Zenon DEF Throttled
  <2>5. CASE job[w] # "stored"
    <3>1. Answers(w) = {} /\ Cardinality(Answers(w)) = 0
        BY <2>1, <2>2, <2>5, FS_EmptySet, Zenon DEF Throttled, Recorded
    <3>2. Counted(w)'
        BY <3>1, <1>1, <1>5 DEF Counted
    <3> QED
        BY <2>6, <3>2 DEF Throttled
  <2> QED
      BY <2>4, <2>5, Zenon
<1>6. None \notin Versions
    BY SlotAssumption
<1> QED
    BY <1>2, <1>3, <1>4, <1>5, <1>6, Zenon

(* The objects and what becomes of them.                                   *)
LEMMA ObjectFacts ==
    ASSUME NEW v \in Versions
    PROVE  /\ bm_build_getpubkey(v) \in Objects /\ bm_build_getpubkey(v) # None
           /\ BuildPubkey(v) \in Objects /\ BuildPubkey(v) # None /\ BuildPubkey(v).version = v
<1>1. bm_build_getpubkey(v) \in Objects
    BY DEF bm_build_getpubkey, Objects, Forms
<1>2. BuildPubkey(v) \in Objects /\ BuildPubkey(v).version = v
  <2>1. v = 2 \/ v = 3 \/ v = 4 \/ v = 5
      BY DEF Versions
  <2> QED
      BY <2>1 DEF BuildPubkey, Objects, Forms, bm_build_pubkey_v2, bm_build_pubkey_v3,
         bm_build_pubkey_v4, bm_pq_build_pubkey
<1> QED
    BY <1>1, <1>2, ObjectAssumption, Zenon

(* The asker's thread and what else is no business of the answers.         *)
LEMMA QuietStep ==
    ASSUME KInv, UNCHANGED <<demand, obj, pool, owner>>, inv' \in [Nodes -> SUBSET Slots],
           \A n \in Nodes : \A s \in inv'[n] : obj[s] # None,
           known' \subseteq Ids, recent' \subseteq Ids,
           request' \in [Ids -> Versions \cup {None}], asking' \in Versions \cup {None},
           askJob' \in [Ids -> Versions \cup {None}]
    PROVE  KInv'
<1>1. PubkeyTypeOK'
    BY Zenon DEF KInv, PubkeyTypeOK, owner
<1>2. \A v : Answers(v)' = Answers(v)
    BY DEF Answers
<1>3. (\A v \in Versions : Throttled(v))'
    BY <1>2, Zenon DEF KInv, AnswerInv, Throttled, Recorded, Counted, owner
<1>4. (\A n \in Nodes : \A s \in pool[n] \cup inv[n] : obj[s] # None)'
    BY Zenon DEF KInv, AnswerInv
<1> QED
    BY <1>1, <1>3, <1>4, Zenon DEF KInv, AnswerInv

LEMMA IdFacts == "ripe" \in Ids /\ "tag" \in Ids /\ 5 \in Versions /\ \A v : IdOf(v) \in Ids
BY DEF Ids, IdOf, Versions

LEMMA AskStep ==
    ASSUME KInv, CooldownOver \/ sendMessage \/ \E accepted \in BOOLEAN : AskEnd(accepted)
    PROVE  KInv'
<1>1. /\ known \subseteq Ids /\ recent \subseteq Ids /\ asking \in Versions \cup {None}
      /\ request \in [Ids -> Versions \cup {None}] /\ askJob \in [Ids -> Versions \cup {None}]
      /\ inv \in [Nodes -> SUBSET Slots] /\ \A n \in Nodes : \A s \in inv[n] : obj[s] # None
    BY DEF KInv, PubkeyTypeOK, AnswerInv
<1>2. Wanted \in Versions
    BY VersionAssumption, Zenon DEF KInv, PubkeyTypeOK, Wanted
<1>3. CASE CooldownOver
    BY <1>1, <1>3, QuietStep, Zenon DEF CooldownOver
<1>4. ASSUME NEW v \in Versions, AskBegin(v) PROVE KInv'
    BY <1>1, <1>4, QuietStep DEF AskBegin
<1>5. CASE bm_object_sync_resolve_pq_pubkey_from_pool
    BY <1>1, <1>5, QuietStep, IdFacts DEF bm_object_sync_resolve_pq_pubkey_from_pool,
       bm_pq_pubkey_cache_upsert, bm_pq_pubkey_cache_clear_request
<1>6. CASE sendMessage
    BY <1>2, <1>4, <1>5, <1>6, IdFacts DEF sendMessage, RequestPubkeyIfUnknown,
       pq_request_pubkey_if_unknown
<1>7. ASSUME NEW accepted \in BOOLEAN, AskEnd(accepted) PROVE KInv'
  <2>1. asking' = None /\ UNCHANGED <<demand, obj, pool, inv, known, owner>>
        /\ asking \in Versions
      BY <1>1, <1>7, Zenon DEF AskEnd
  <2>2. askJob' \in [Ids -> Versions \cup {None}]
      BY <1>1, <1>7, <2>1, IdFacts, Zenon DEF AskEnd
  <2>3. request' \in [Ids -> Versions \cup {None}] /\ recent' \subseteq Ids
    <3>1. CASE bm_pq_pubkey_cache_record_request(asking)
        BY <3>1, <1>1, <2>1, IdFacts DEF bm_pq_pubkey_cache_record_request
    <3>2. CASE bm_pubkey_cache_record_request(asking)
        BY <3>2, <1>1, <2>1, IdFacts DEF bm_pubkey_cache_record_request
    <3> QED
        BY <3>1, <3>2, <1>7, Zenon DEF AskEnd
  <2> QED
      BY <1>1, <2>1, <2>2, <2>3, QuietStep
<1> QED
    BY <1>3, <1>6, <1>7

LEMMA ReconnectStep == ASSUME KInv, Reconnect PROVE KInv'
<1>1. \A n \in Nodes : Other(n) \in Nodes
    BY DEF Nodes, Other
<1>2. inv' \in [Nodes -> SUBSET Slots] /\ \A n \in Nodes : \A s \in inv'[n] : obj[s] # None
    BY <1>1, Zenon DEF Reconnect, KInv, PubkeyTypeOK, AnswerInv
<1> QED
    BY <1>2, QuietStep, Zenon DEF Reconnect, asker, KInv, PubkeyTypeOK

LEMMA RequestStep == ASSUME KInv, NEW i \in Ids, getpubkey_request_done(i) PROVE KInv'
<1> DEFINE s == CHOOSE s \in Free(Gets) : TRUE
           o == bm_build_getpubkey(askJob[i])
<1>1. s \in Gets /\ s \in Slots /\ s \notin Pubs /\ obj[s] = None
    BY SlotAssumption, Zenon DEF getpubkey_request_done, Free, Slots
<1>2. o \in Objects /\ o # None
    BY ObjectFacts, Zenon DEF getpubkey_request_done, KInv, PubkeyTypeOK
<1>3. /\ obj' = [obj EXCEPT ![s] = o] /\ pool' = [pool EXCEPT !["asker"] = @ \cup {s}]
      /\ inv' = [inv EXCEPT !["owner"] = @ \cup ({s} \ pool["owner"])]
      /\ askJob' = [askJob EXCEPT ![i] = None]
      /\ UNCHANGED <<demand, known, request, recent, asking, owner>>
    BY Zenon DEF getpubkey_request_done, bm_object_store_insert, Announce
<1> HIDE DEF s, o
<1>4. PubkeyTypeOK'
    BY <1>1, <1>2, <1>3, Zenon DEF KInv, PubkeyTypeOK, Nodes, owner
<1>5. \A r \in Slots : obj[r] # None => obj'[r] # None
    BY <1>2, <1>3, Zenon DEF KInv, PubkeyTypeOK
<1>6. obj'[s] # None /\ \A r \in Slots : r # s => obj'[r] = obj[r]
    BY <1>1, <1>2, <1>3, Zenon DEF KInv, PubkeyTypeOK
<1>7. pool'["owner"] = pool["owner"]
    BY <1>3, Zenon DEF KInv, PubkeyTypeOK, Nodes
<1>8. \A n \in Nodes : pool'[n] \cup inv'[n] \subseteq pool[n] \cup inv[n] \cup {s}
    BY <1>3, Zenon DEF KInv, PubkeyTypeOK, Nodes
<1>9. (\A n \in Nodes : \A r \in pool[n] \cup inv[n] : obj[r] # None)'
    BY <1>5, <1>6, <1>8, Zenon DEF KInv, PubkeyTypeOK, AnswerInv
<1>10. \A v : Answers(v)' = Answers(v)
    BY <1>1, <1>6 DEF Answers, Slots
<1>11. (\A v \in Versions : Throttled(v))'
    BY <1>3, <1>7, <1>10, SameThrottled, Zenon DEF KInv, AnswerInv, owner
<1> QED
    BY <1>4, <1>9, <1>11, Zenon DEF KInv, AnswerInv

LEMMA LockStep == ASSUME KInv, Unlock \/ Lock PROVE KInv'
<1>1. unlocked' \subseteq Owned /\ UNCHANGED <<demand, obj, pool, inv, asker>>
      /\ UNCHANGED <<answering, job, made, cache>>
    BY Zenon DEF Unlock, Lock
<1>2. PubkeyTypeOK'
    BY <1>1, Zenon DEF KInv, PubkeyTypeOK, asker
<1>3. \A v : Answers(v)' = Answers(v)
    BY <1>1 DEF Answers
<1> QED
    BY <1>1, <1>2, <1>3, Zenon DEF KInv, AnswerInv, Throttled, Recorded, Counted

(* A question of a stranger or of the asker: an answer is announced again, *)
(* or one is to be made, or neither.                                       *)
LEMMA QuestionFacts ==
    ASSUME KInv, answering = None, NEW o \in Objects, NEW answered,
           handle_incoming_getpubkey(o, answered), obj' = obj,
           pool["owner"] \subseteq pool'["owner"], UNCHANGED <<made, cache, job>>
    PROVE  /\ \A v \in Versions : Throttled(v)'
           /\ answering' \in Versions \cup {None}
           /\ \A s \in answered : s \in Pubs /\ obj[s] # None
<1>1. o.version \in Versions /\ 5 \in Versions
    BY IdFacts, Zenon DEF Objects
<1>2. (\E w \in Versions : AnswerBegin(w, answered)) \/ (answered = {} /\ UNCHANGED answering)
    BY <1>1, Zenon DEF handle_incoming_getpubkey, handle_incoming_getpubkey_v5
<1>3. CASE \E w \in Versions : AnswerBegin(w, answered)
    BY <1>3, BeginThrottled, Zenon DEF KInv, AnswerInv
<1>4. CASE answered = {} /\ UNCHANGED answering
  <2>1. \A v : Answers(v)' = Answers(v)
      BY Zenon DEF Answers
  <2> QED
      BY <1>4, <2>1, SameThrottled, Zenon DEF KInv, AnswerInv, PubkeyTypeOK
<1> QED
    BY <1>2, <1>3, <1>4, Zenon

LEMMA StrangerStep == ASSUME KInv, NEW w \in Strangers, StrangerAsks(w) PROVE KInv'
<1>1. w \in Versions
    BY VersionAssumption, Zenon DEF KInv, PubkeyTypeOK, Strangers
<1>2. PICK answered : handle_incoming_getpubkey(bm_build_getpubkey(w), answered)
                      /\ Announce("asker", answered)
    BY Zenon DEF StrangerAsks
<1>3. answering = None /\ UNCHANGED <<demand, obj, pool, asker, unlocked, job, made, cache>>
    BY Zenon DEF StrangerAsks
<1>4. /\ \A v \in Versions : Throttled(v)'
      /\ answering' \in Versions \cup {None}
      /\ \A s \in answered : s \in Pubs /\ obj[s] # None
    BY <1>1, <1>2, <1>3, ObjectFacts, QuestionFacts, Zenon
<1>5. inv' \in [Nodes -> SUBSET Slots]
      /\ \A n \in Nodes : inv'[n] \subseteq inv[n] \cup answered
    BY <1>2, <1>4, Zenon DEF Announce, KInv, PubkeyTypeOK, Slots
<1>6. PubkeyTypeOK'
    BY <1>3, <1>4, <1>5, Zenon DEF KInv, PubkeyTypeOK, asker
<1>7. (\A n \in Nodes : \A r \in pool[n] \cup inv[n] : obj[r] # None)'
    BY <1>3, <1>4, <1>5, Zenon DEF KInv, AnswerInv
<1> QED
    BY <1>4, <1>6, <1>7, Zenon DEF KInv, AnswerInv

LEMMA SubmitStep ==
    ASSUME KInv, NEW accepted \in BOOLEAN, submit_pubkey_response(accepted) PROVE KInv'
<1>1. /\ answering \in Versions /\ answering' = None
      /\ UNCHANGED <<demand, obj, pool, inv, asker, unlocked, made, cache>>
      /\ job' = IF accepted /\ job[answering] = "none"
                  THEN [job EXCEPT ![answering] = "pow"] ELSE job
    BY Zenon DEF submit_pubkey_response, KInv, PubkeyTypeOK
<1>2. PubkeyTypeOK'
    BY <1>1, Zenon DEF KInv, PubkeyTypeOK, asker
<1>3. ASSUME NEW v \in Versions PROVE Throttled(v)'
  <2>1. Throttled(v) /\ Cardinality(Answers(v)) \in Nat /\ Answers(v)' = Answers(v)
      BY <1>1, AnswersFinite, Zenon DEF KInv, AnswerInv, Answers
  <2>2. None \notin Versions
      BY SlotAssumption
  <2>3. CASE job'[v] = job[v]
      BY <1>1, <2>1, <2>2, <2>3, SameThrottled, Zenon
  <2>4. CASE job'[v] # job[v]
    <3>1. job[v] = "none" /\ job'[v] = "pow" /\ answering = v
        BY <1>1, <2>4, Zenon DEF KInv, PubkeyTypeOK
    <3>2. Cardinality(Answers(v)) + 0 + 1 <= 2
        BY <2>1, <3>1, Zenon DEF Throttled, Counted
    <3>3. Recorded(v)'
        BY <1>1, <2>1, <3>1, Zenon DEF Throttled, Recorded
    <3>4. Counted(v)'
        BY <1>1, <2>1, <2>2, <3>1, <3>2 DEF Counted
    <3> QED
        BY <3>3, <3>4 DEF Throttled
  <2> QED
      BY <2>3, <2>4, Zenon
<1>4. (\A n \in Nodes : \A r \in pool[n] \cup inv[n] : obj[r] # None)'
    BY <1>1, Zenon DEF KInv, AnswerInv
<1> QED
    BY <1>2, <1>3, <1>4, Zenon DEF KInv, AnswerInv

LEMMA StoreStep == ASSUME KInv, NEW w \in Versions, StoreAnswer(w) PROVE KInv'
<1> DEFINE s == CHOOSE s \in Free(Pubs) : TRUE
           o == BuildPubkey(w)
<1>1. s \in Pubs /\ s \in Slots /\ obj[s] = None /\ s # None
    BY SlotAssumption, Zenon DEF StoreAnswer, Free, Slots
<1>2. o \in Objects /\ o # None /\ o.version = w
    BY ObjectFacts
<1>3. /\ obj' = [obj EXCEPT ![s] = o] /\ pool' = [pool EXCEPT !["owner"] = @ \cup {s}]
      /\ made' = [made EXCEPT ![w] = s] /\ job' = [job EXCEPT ![w] = "stored"]
      /\ UNCHANGED <<demand, inv, asker, unlocked, answering, cache>> /\ job[w] = "pow"
    BY Zenon DEF StoreAnswer, bm_object_store_insert
<1> HIDE DEF s, o
<1>4. PubkeyTypeOK'
    BY <1>1, <1>2, <1>3, Zenon DEF KInv, PubkeyTypeOK, Nodes, asker
<1>5. obj'[s] = o /\ \A r \in Slots : r # s => obj'[r] = obj[r]
    BY <1>1, <1>3, Zenon DEF KInv, PubkeyTypeOK
<1>6. pool'["owner"] = pool["owner"] \cup {s}
      /\ \A n \in Nodes : pool'[n] \subseteq pool[n] \cup {s}
    BY <1>3, Zenon DEF KInv, PubkeyTypeOK, Nodes
<1>7. (\A n \in Nodes : \A r \in pool[n] \cup inv[n] : obj[r] # None)'
  <2>1. \A n \in Nodes : \A r \in pool[n] \cup inv[n] : r \in Slots /\ obj[r] # None
      BY DEF KInv, PubkeyTypeOK, AnswerInv
  <2>2. (\A r \in Slots : obj[r] # None => obj'[r] # None) /\ obj'[s] # None
      BY <1>2, <1>5, Zenon
  <2>3. \A n \in Nodes : pool'[n] \cup inv'[n] \subseteq pool[n] \cup inv[n] \cup {s}
      BY <1>3, <1>6, Zenon
  <2> QED
      BY <2>1, <2>2, <2>3
<1>8. ASSUME NEW v \in Versions, v # w PROVE Throttled(v)'
  <2>1. Answers(v)' = Answers(v)
      BY <1>1, <1>2, <1>5, <1>8, Zenon DEF Answers, Slots
  <2>2. made'[v] = made[v] /\ job'[v] = job[v]
      BY <1>3, <1>8, Zenon DEF KInv, PubkeyTypeOK
  <2> QED
      BY <1>3, <1>6, <2>1, <2>2, SameThrottled, Zenon DEF KInv, AnswerInv
<1>9. Throttled(w)'
  <2>1. Throttled(w) /\ cache[w] = made[w]
      BY <1>3, Zenon DEF KInv, AnswerInv, Throttled, Recorded
  <2>2. Answers(w)' = Answers(w) \cup {s} /\ s \notin Answers(w)
      BY <1>1, <1>2, <1>5 DEF Answers, Slots
  <2>3. IsFiniteSet(Answers(w)) /\ Cardinality(Answers(w)) \in Nat
      BY AnswersFinite
  <2>4. Cardinality(Answers(w)') = Cardinality(Answers(w)) + 1
      BY <2>2, <2>3, FS_AddElement
  <2>5. Cardinality(Answers(w)) + 1 + (IF answering = w THEN 1 ELSE 0) <= 2
      BY <1>3, <2>1 DEF Throttled, Counted
  <2>6. Answers(w) \subseteq {cache[w]}
    <3>1. CASE made[w] = None
        BY <2>1, <3>1, Zenon DEF Throttled, Recorded
    <3>2. CASE made[w] # None
      <4>1. made[w] \in Answers(w) /\ Cardinality(Answers(w)) <= 1
          BY <2>1, <2>3, <2>5, <3>2 DEF Throttled, Recorded
      <4> QED
          BY <4>1, <2>1, <2>3, AtMostOne, Zenon
    <3> QED
        BY <3>1, <3>2
  <2>7. made'[w] = s /\ job'[w] = "stored"
      BY <1>3 DEF KInv, PubkeyTypeOK
  <2>8. {made[w], cache[w]}' \ {None} \subseteq Answers(w)' /\ Answers(w)' \subseteq pool'["owner"]
      BY <1>3, <1>6, <2>1, <2>2, <2>7, Zenon DEF Throttled, Recorded
  <2>9. Recorded(w)'
      BY <1>1, <1>3, <2>2, <2>6, <2>7, <2>8, Zenon DEF Recorded
  <2>10. Counted(w)'
      BY <1>3, <2>3, <2>4, <2>5, <2>7 DEF Counted
  <2> QED
      BY <2>9, <2>10 DEF Throttled
<1> QED
    BY <1>4, <1>7, <1>8, <1>9, Zenon DEF KInv, AnswerInv

LEMMA CacheStep ==
    ASSUME KInv, NEW w \in Versions, CacheAnswer(w) \/ AnnounceAnswer(w) PROVE KInv'
<1>1. made[w] \in Pubs /\ obj[made[w]] # None
    BY Zenon DEF CacheAnswer, AnnounceAnswer, KInv, PubkeyTypeOK, AnswerInv, Throttled,
       Recorded,
           Answers
<1>2. /\ UNCHANGED <<demand, obj, pool, asker, unlocked, answering, made>>
      /\ job'= [job EXCEPT ![w] = IF job[w] = "stored" THEN "cached" ELSE "none"]
      /\ job[w] \in {"stored", "cached"}
      /\ cache' = IF job[w] = "stored" THEN [cache EXCEPT ![w] = made[w]] ELSE cache
      /\ inv' = inv \/ inv' = [inv EXCEPT !["asker"] = @ \cup ({made[w]} \ pool["asker"])]
    BY Zenon DEF CacheAnswer, AnnounceAnswer, bm_pubkey_cache_set_self_response, Announce
<1>3. inv' \in [Nodes -> SUBSET Slots]
      /\ \A n \in Nodes : inv'[n] \subseteq inv[n] \cup {made[w]}
    BY <1>1, <1>2 DEF KInv, PubkeyTypeOK, Slots, Nodes
<1>4. PubkeyTypeOK'
    BY <1>1, <1>2, <1>3, Zenon DEF KInv, PubkeyTypeOK, asker
<1>5. (\A n \in Nodes : \A r \in pool[n] \cup inv[n] : obj[r] # None)'
    BY <1>1, <1>2, <1>3, Zenon DEF KInv, AnswerInv
<1>6. \A v : Answers(v)' = Answers(v)
    BY <1>2, Zenon DEF Answers
<1>7. ASSUME NEW v \in Versions, v # w PROVE Throttled(v)'
    BY <1>2, <1>6, <1>7, SameThrottled, Zenon DEF KInv, PubkeyTypeOK, AnswerInv
<1>8. Throttled(w)'
  <2>1. Throttled(w) /\ made[w] # None
      BY <1>1, <1>2, Zenon DEF KInv, AnswerInv, Throttled, Recorded
  <2>2. cache'[w] = made[w] /\ job'[w] \in {"none", "cached"}
      BY <1>2, <2>1, Zenon DEF KInv, PubkeyTypeOK, Throttled, Recorded
  <2>3. Cardinality(Answers(w)) + 0 + (IF answering = w THEN 1 ELSE 0) <= 2
      BY <1>2, <2>1, Zenon DEF Throttled, Counted
  <2>4. Recorded(w)'
      BY <1>2, <1>6, <2>1, <2>2, Zenon DEF Throttled, Recorded
  <2>5. Counted(w)'
      BY <1>2, <1>6, <2>2, <2>3, Zenon DEF Counted
  <2> QED
      BY <2>4, <2>5 DEF Throttled
<1> QED
    BY <1>4, <1>5, <1>7, <1>8, Zenon DEF KInv, AnswerInv

LEMMA HandlePubkeyFacts ==
    ASSUME KInv, NEW o, HandlePubkey(o)
    PROVE  known' \subseteq Ids /\ recent' \subseteq Ids
           /\ request' \in [Ids -> Versions \cup {None}]
<1>1. /\ known \subseteq Ids /\ recent \subseteq Ids
      /\ request \in [Ids -> Versions \cup {None}] /\ "ripe" \in Ids /\ "tag" \in Ids
    BY IdFacts, Zenon DEF KInv, PubkeyTypeOK
<1> QED
    BY <1>1 DEF HandlePubkey, handle_incoming_pubkey_v5, bm_pq_pubkey_cache_upsert,
       bm_pq_pubkey_cache_clear_request, bm_pubkey_cache_upsert, bm_pubkey_cache_clear_request

LEMMA HandleStep ==
    ASSUME KInv, NEW n \in Nodes, NEW s \in Slots, handle_object(n, s) PROVE KInv'
<1>1. /\ s \in inv[n] /\ pool' = [pool EXCEPT ![n] = @ \cup {s}]
      /\ UNCHANGED <<demand, obj, asking, askJob, unlocked, job, made, cache>>
    BY Zenon DEF handle_object
<1>2. obj[s] # None /\ obj[s] \in Objects
    BY <1>1, Zenon DEF KInv, AnswerInv, PubkeyTypeOK
<1>3. /\ pool' \in [Nodes -> SUBSET Slots]
      /\ \A m \in Nodes : pool[m] \subseteq pool'[m]
      /\ \A m \in Nodes : pool'[m] \subseteq pool[m] \cup {s}
    BY <1>1, Zenon DEF KInv, PubkeyTypeOK
<1>4. pool["owner"] \subseteq pool'["owner"]
    BY <1>3, Zenon DEF Nodes
<1>5. \A v : Answers(v)' = Answers(v)
    BY <1>1, Zenon DEF Answers
<1>6. CASE n = "asker" /\ HandlePubkey(obj[s]) /\ inv' = [inv EXCEPT ![n] = @ \ {s}]
           /\ UNCHANGED answering
  <2>1. inv' \in [Nodes -> SUBSET Slots] /\ \A m \in Nodes : inv'[m] \subseteq inv[m]
      BY <1>6, Zenon DEF KInv, PubkeyTypeOK
  <2>2. PubkeyTypeOK'
      BY <1>1, <1>3, <1>6, <2>1, HandlePubkeyFacts, Zenon DEF KInv, PubkeyTypeOK
  <2>3. (\A m \in Nodes : \A r \in pool[m] \cup inv[m] : obj[r] # None)'
      BY <1>1, <1>2, <1>3, <2>1, Zenon DEF KInv, AnswerInv
  <2>4. (\A v \in Versions : Throttled(v))'
      BY <1>1, <1>4, <1>5, <1>6, SameThrottled, Zenon DEF KInv, AnswerInv
  <2> QED
      BY <2>2, <2>3, <2>4, Zenon DEF KInv, AnswerInv
<1>7. CASE /\ answering = None /\ UNCHANGED <<known, request, recent>>
           /\ \E answered \in {{}} \cup {{r} : r \in Pubs} :
                /\ handle_incoming_getpubkey(obj[s], answered)
                /\ inv' = [inv EXCEPT ![n] = @ \ {s},
                                      !["asker"] = @ \cup (answered \ pool["asker"])]
  <2>1. PICK answered :
            /\ handle_incoming_getpubkey(obj[s], answered)
            /\ inv' = [inv EXCEPT ![n] = @ \ {s},
                                  !["asker"] = @ \cup (answered \ pool["asker"])]
      BY <1>7, Zenon
  <2>2. /\ \A v \in Versions : Throttled(v)'
        /\ answering' \in Versions \cup {None}
        /\ \A r \in answered : r \in Pubs /\ obj[r] # None
      BY <1>1, <1>2, <1>4, <1>7, <2>1, QuestionFacts, Zenon
  <2>3. inv' \in [Nodes -> SUBSET Slots] /\ \A m \in Nodes : inv'[m] \subseteq inv[m] \cup answered
      BY <2>1, <2>2, Zenon DEF KInv, PubkeyTypeOK, Slots
  <2>4. PubkeyTypeOK'
      BY <1>1, <1>3, <1>7, <2>2, <2>3, Zenon DEF KInv, PubkeyTypeOK
  <2>5. (\A m \in Nodes : \A r \in pool[m] \cup inv[m] : obj[r] # None)'
      BY <1>1, <1>2, <1>3, <2>2, <2>3, Zenon DEF KInv, AnswerInv
  <2> QED
      BY <2>2, <2>4, <2>5, Zenon DEF KInv, AnswerInv
<1> QED
    BY <1>6, <1>7, Zenon DEF handle_object

LEMMA ExpireStep == ASSUME KInv, NEW s \in Slots, Expire(s) PROVE KInv'
<1>1. /\ obj' = [obj EXCEPT ![s] = None] /\ pool' = [n \in Nodes |-> pool[n] \ {s}]
      /\ inv' = [n \in Nodes |-> inv[n] \ {s}]
      /\ made' = [v \in Versions |-> IF made[v] = s THEN None ELSE made[v]]
      /\ cache' = [v \in Versions |-> IF cache[v] = s THEN None ELSE cache[v]]
      /\ UNCHANGED <<demand, asker, unlocked, answering, job>>
      /\ \A v \in Versions : s = made[v] => Answers(v) = {s} /\ job[v] \in {"none", "pow"}
    BY Zenon DEF Expire
<1>2. PubkeyTypeOK'
    BY <1>1, Zenon DEF KInv, PubkeyTypeOK, asker
<1>3. obj'[s] = None /\ \A r \in Slots : r # s => obj'[r] = obj[r]
    BY <1>1, Zenon DEF KInv, PubkeyTypeOK
<1>4. (\A n \in Nodes : \A r \in pool[n] \cup inv[n] : obj[r] # None)'
    BY <1>1, <1>3 DEF KInv, PubkeyTypeOK, AnswerInv
<1>5. ASSUME NEW v \in Versions PROVE Throttled(v)'
  <2>1. Throttled(v) /\ IsFiniteSet(Answers(v)) /\ Cardinality(Answers(v)) \in Nat
      BY AnswersFinite, Zenon DEF KInv, AnswerInv
  <2>2. Answers(v)' = Answers(v) \ {s}
      BY <1>3, Zenon DEF Answers, Slots
  <2>3. Cardinality(Answers(v)') <= Cardinality(Answers(v)) /\ Cardinality(Answers(v)') \in Nat
      BY <2>1, <2>2, FS_Subset, FS_CardinalityType, Zenon
  <2>4. made'[v] = (IF made[v] = s THEN None ELSE made[v])
        /\ cache'[v] = (IF cache[v] = s THEN None ELSE cache[v])
      BY <1>1, Zenon
  <2>5. pool'["owner"] = pool["owner"] \ {s}
      BY <1>1, Zenon DEF Nodes
  <2>6. Recorded(v)'
    <3>1. ({made[v], cache[v]} \ {None} \subseteq Answers(v))'
          /\ (Answers(v) \subseteq pool["owner"])'
        BY <2>1, <2>2, <2>4, <2>5, Zenon DEF Throttled, Recorded
    <3>2. (made[v] = None => Answers(v) = {} /\ job[v] \in {"none", "pow"})'
        BY <1>1, <2>1, <2>2, <2>4, Zenon DEF Throttled, Recorded
    <3>3. (job[v] # "stored" => cache[v] = made[v])'
        BY <1>1, <2>1, <2>4, Zenon DEF Throttled, Recorded
    <3>4. (job[v] = "stored" => Answers(v) \subseteq {made[v], cache[v]})'
        BY <1>1, <2>1, <2>2, <2>4, Zenon DEF Throttled, Recorded
    <3> QED
        BY <3>1, <3>2, <3>3, <3>4, Zenon DEF Recorded
  <2>7. Counted(v)'
    <3>1. Counted(v)
        BY <2>1 DEF Throttled
    <3>2. UNCHANGED <<answering, job>>
        BY <1>1, Zenon
    <3> QED
        BY <2>1, <2>3, <3>1, <3>2 DEF Counted
  <2> QED
      BY <2>6, <2>7 DEF Throttled
<1> QED
    BY <1>2, <1>4, <1>5, Zenon DEF KInv, AnswerInv

LEMMA KInit == Init => KInv
<1> SUFFICES ASSUME Init PROVE KInv
    OBVIOUS
<1>1. PubkeyTypeOK
    BY Zenon DEF Init, PubkeyTypeOK
<1>2. ASSUME NEW v \in Versions PROVE Throttled(v)
  <2>1. Answers(v) = {} /\ Cardinality(Answers(v)) = 0
      BY FS_EmptySet, Zenon DEF Init, Answers, Slots
  <2>2. None \notin Versions
      BY SlotAssumption
  <2> QED
      BY <2>1, <2>2 DEF Init, Throttled, Recorded, Counted
<1> QED
    BY <1>1, <1>2, Zenon DEF Init, KInv, AnswerInv

LEMMA KStep == KInv /\ [Next]_vars => KInv'
<1> SUFFICES ASSUME KInv, [Next]_vars PROVE KInv'
    OBVIOUS
<1>1. CASE UNCHANGED vars
  <2>1. PubkeyTypeOK' /\ (\A v : Answers(v)' = Answers(v))
      BY <1>1, Zenon DEF KInv, PubkeyTypeOK, Answers, vars, asker, owner
  <2> QED
      BY <1>1, <2>1, Zenon DEF KInv, AnswerInv, Throttled, Recorded, Counted, vars, asker,
         owner
<1>2. CASE Time
    BY <1>2, AskStep, ExpireStep DEF Time
<1>3. CASE Asker
    BY <1>3, AskStep, RequestStep DEF Asker
<1>4. CASE Owner
    BY <1>4, LockStep, StrangerStep, SubmitStep, StoreStep, CacheStep, Zenon DEF Owner
<1>5. CASE Network
    BY <1>5, HandleStep, ReconnectStep, Zenon DEF Network
<1> QED
    BY <1>1, <1>2, <1>3, <1>4, <1>5, Zenon DEF Next

LEMMA AlwaysK == Spec => []KInv
BY KInit, KStep, PTL DEF Spec

(* Types of the two nodes' pools, caches, requests and jobs.               *)
THEOREM PubkeyTypes == Spec => []PubkeyTypeOK
BY AlwaysK, PTL DEF KInv

(* reuse_cached_pubkey_response and the queue between them keep the        *)
(* answers of one version at two, however submissions, the three writes of *)
(* pubkey_response_done, questions and expiries interleave.                *)
THEOREM ThrottleHolds == Spec => []NoPileUp
<1>1. KInv => NoPileUp
  <2> SUFFICES ASSUME KInv, NEW v \in Versions PROVE Cardinality(Answers(v)) <= 2
      BY DEF NoPileUp
  <2> QED
      BY AnswersFinite DEF KInv, AnswerInv, Throttled, Counted
<1> QED
    BY <1>1, AlwaysK, PTL
=============================================================================
