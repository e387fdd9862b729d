------------------------ MODULE ConnLifecycleProofs ------------------------
(***************************************************************************)
(* Proofs about ConnLifecycle, whatever the peers do and however early.    *)
(*                                                                         *)
(* PointerInv says which thread may have which pointer.  Since only the    *)
(* network thread closes what is registered, and takes reg->lock to do so, *)
(* a pointer in its own batch or snapshot, or in a walk, stays good.  What *)
(* was never registered is what the connector has in hand: it may be freed *)
(* under the connector's hands, or under those of the network thread.      *)
(***************************************************************************)
EXTENDS ConnLifecycle, FiniteSetTheorems, TLAPS

Chosen == cpc \in {"open", "register", "version", "add"}

(* The network thread's place, and what it then has in hand.               *)
PlaceInv ==
    /\ npc \in {"read", "closeEvent"} =>
           cur \in conns \cup (Conns \ listed) /\ cur \notin batch \cup outs
    /\ npc = "closeSweep" => cur \in conns /\ cur \notin todo
    /\ npc \in {"wait", "sweep", "closeSweep"} => batch = {} /\ outs = {}
    /\ npc \notin {"sweep", "closeSweep"} => todo = {}

(* Where pointers may be.                                                  *)
PointerInv ==
    /\ \A c \in Conns : c \in batch \cup outs => c \in conns \/ c \notin listed
    /\ todo \subseteq conns /\ walk \subseteq conns
    /\ ~walking => walk = {}
    /\ \A c \in conns : life[c] = "made" /\ c \in polled /\ c \in listed
    /\ \A c \in polled : c \in conns \/ (InHand /\ c = cconn /\ life[c] = "made")
    /\ \A c \in listed : life[c] # "none"
    /\ \A c \in backlog : life[c] = "none"

(* What the connector has in hand was never registered.                    *)
HandInv ==
    /\ Chosen => cpeer \in Peers
    /\ InHand => /\ cconn \in Outbound /\ life[cconn] # "none"
                 /\ cconn \notin listed /\ PeerOf[cconn] = cpeer
    /\ cpc \in {"version", "add"} /\ life[cconn] = "made" => cconn \in polled

(* What it has chosen has no connection, and it makes no more than wanted. *)
PeerInv ==
    /\ Chosen => \A c \in conns \cap Outbound : PeerOf[c] # cpeer
    /\ \A c, d \in conns \cap Outbound : PeerOf[c] = PeerOf[d] => c = d

CountInv ==
    /\ CountByType(Inbound) <= MaxInbound
    /\ CountByType(Outbound) <= MaxOutbound
    /\ cpc # "idle" => want > 0 /\ CountByType(Outbound) + want <= MaxOutbound

IInv == ConnTypeOK /\ PlaceInv /\ PointerInv /\ HandInv /\ NoneIsLost
-----------------------------------------------------------------------------
USE ConnAssumption, CommandAssumption, NumberAssumption

(* The clocks stay in their range.                                         *)
LEMMA AgeFacts ==
    /\ MaxAge \in Nat
    /\ \A limit \in Nat : \A a \in 0 .. limit : Older(a, limit) \in 0 .. limit
    /\ \A n \in Nat : \A t \in 0 .. n \cup {None} : Sooner(t) \in 0 .. n \cup {None}
    /\ \A n \in Nat : \A t \in 0 .. n : Sooner(t) \in 0 .. n
  BY DEF MaxAge, Older, Sooner

LEMMA ClockFacts ==
    /\ \A f \in [Conns -> 0 .. MaxAge], c \in Conns :
           [f EXCEPT ![c] = 0] \in [Conns -> 0 .. MaxAge]
    /\ \A f \in [Conns -> 0 .. ReplyDelay \cup {None}], c \in Conns :
           /\ [f EXCEPT ![c] = ReplyDelay] \in [Conns -> 0 .. ReplyDelay \cup {None}]
           /\ [f EXCEPT ![c] = None] \in [Conns -> 0 .. ReplyDelay \cup {None}]
<1>1. 0 \in 0 .. MaxAge /\ ReplyDelay \in 0 .. ReplyDelay
    BY AgeFacts
<1>2. ASSUME NEW S, NEW f \in [Conns -> S], NEW c \in Conns, NEW v \in S
      PROVE  [f EXCEPT ![c] = v] \in [Conns -> S]
    OBVIOUS
<1>3. ASSUME NEW f \in [Conns -> 0 .. MaxAge], NEW c \in Conns
      PROVE  [f EXCEPT ![c] = 0] \in [Conns -> 0 .. MaxAge]
    BY <1>1, <1>2, ZenonT(60)
<1>4. ASSUME NEW f \in [Conns -> 0 .. ReplyDelay \cup {None}], NEW c \in Conns
      PROVE  /\ [f EXCEPT ![c] = ReplyDelay] \in [Conns -> 0 .. ReplyDelay \cup {None}]
             /\ [f EXCEPT ![c] = None] \in [Conns -> 0 .. ReplyDelay \cup {None}]
    BY <1>1, <1>2, ZenonT(60)
<1> QED BY <1>3, <1>4, ZenonT(60)

LEMMA RatingFacts ==
    \A f \in [Peers -> -Scale .. Scale], p \in Peers :
        /\ [f EXCEPT ![p] = Up(@)] \in [Peers -> -Scale .. Scale]
        /\ [f EXCEPT ![p] = Down(@)] \in [Peers -> -Scale .. Scale]
  BY DEF Up, Down

LEMMA RecordFacts ==
  ASSUME RatingsOK
  PROVE  \A c : record_result(c, TRUE) \/ record_result(c, FALSE)
                    => rating' \in [Peers -> -Scale .. Scale]
  BY RatingFacts DEF RatingsOK, record_result

LEMMA InitInv == Init => IInv /\ PeerInv /\ CountInv
<1> SUFFICES ASSUME Init PROVE IInv /\ PeerInv /\ CountInv
    OBVIOUS
<1>1. TableOK /\ LimiterOK
    BY DEF Init, TableOK, LimiterOK
<1>0. walking \in BOOLEAN
    BY Zenon DEF Init
<1>7. NetworkOK /\ WalkerOK
    BY <1>0 DEF Init, NetworkOK, WalkerOK
<1>2. SocketOK
    BY DEF Init, SocketOK
<1>3. FlagsOK
    BY DEF Init, FlagsOK
<1>8. ClocksOK
    BY AgeFacts DEF Init, ClocksOK
<1>4. ConnectorOK /\ RatingsOK
    BY DEF Init, ConnectorOK, RatingsOK, InHand
<1>5. PlaceInv /\ PointerInv /\ HandInv /\ NoneIsLost /\ PeerInv
    BY DEF Init, PlaceInv, PointerInv, HandInv, NoneIsLost, PeerInv, InHand,
           Chosen, Conns
<1>6. CountInv
    BY FS_EmptySet DEF Init, CountInv, CountByType
<1> QED BY <1>1, <1>2, <1>3, <1>4, <1>5, <1>6, <1>7, <1>8
      DEF IInv, ConnTypeOK
-----------------------------------------------------------------------------
(* Which steps touch which part of the state.                              *)
LEMMA StepCases ==
  ASSUME [Next]_vars
  PROVE  \/ \E c \in Inbound : ClientConnects(c)
         \/ \E c \in Conns, m \in Commands : Arrive(c, m)
         \/ \E c \in Conns : Leave(c) \/ Accept(c) \/ FlushSocket(c) \/ ReadSocket(c)
                             \/ idle_sweep_one(c) \/ WalkOne(c)
         \/ \E p \in Peers : Choose(p)
         \/ \E c \in Outbound : Open(c)
         \/ Tick \/ EpollWait \/ AcceptDone \/ Dispatch \/ ReadDone
         \/ close_connection \/ SweepBegin \/ SweepDone \/ WalkBegin \/ WalkEnd
         \/ ConnectBegin \/ ChooseNone \/ OpenFails \/ Register \/ GiveUp
         \/ PostVersion \/ Add
         \/ UNCHANGED vars
  BY DEF Next, PeerStep, NetworkStep, WalkerStep, ConnectorStep

(* What a thread has in hand is a connection, and the connector's choice a *)
(* peer.                                                                   *)
LEMMA HandFacts ==
  ASSUME ConnTypeOK
  PROVE  /\ npc \in {"read", "closeEvent", "closeSweep"} => cur \in Conns
         /\ InHand => cconn \in Outbound /\ cconn \in Conns
         /\ cpc \notin {"idle", "choose"} => cpeer \in Peers
  BY DEF ConnTypeOK, NetworkOK, ConnectorOK, Conns, InHand

(* What is listed is finite, so that it can be counted.                    *)
LEMMA CountFacts ==
  ASSUME ConnTypeOK
  PROVE  \A type : IsFiniteSet(conns \cap type) /\ CountByType(type) \in Nat
<1> SUFFICES ASSUME NEW type
             PROVE  IsFiniteSet(conns \cap type) /\ CountByType(type) \in Nat
    OBVIOUS
<1>1. conns \cap type \subseteq Conns /\ IsFiniteSet(Conns)
    BY DEF ConnTypeOK, TableOK
<1>2. IsFiniteSet(conns \cap type)
    BY <1>1, FS_Subset
<1> QED BY <1>2, FS_CardinalityType DEF CountByType

LEMMA TableType ==
  ASSUME ConnTypeOK, [Next]_vars
  PROVE  TableOK'
<1> USE DEF ConnTypeOK, TableOK, socket, state, table, limiter, network, walker,
            connector
<1>1. ASSUME NEW c \in Conns, Accept(c) PROVE TableOK'
    BY <1>1 DEF Accept, bm_inbound_rate_limiter_allow
<1>2. CASE close_connection
    BY <1>2, HandFacts, Zenon DEF close_connection, Forget, Unlist, record_result
<1>3. ASSUME NEW c \in Outbound, Open(c) PROVE TableOK'
    BY <1>3 DEF Open, Conns
<1>4. CASE Register
    BY <1>4, HandFacts DEF Register, InHand
<1>5. CASE GiveUp
    BY <1>5, HandFacts DEF GiveUp, Failed, Forget, InHand
<1>6. CASE Add
    BY <1>6, HandFacts, Zenon DEF Add, bm_peer_registry_add, InHand
<1>7. CASE UNCHANGED <<table>>
    BY <1>7
<1> QED
    BY StepCases, <1>1, <1>2, <1>3, <1>4, <1>5, <1>6, <1>7, Zenon
    DEF ClientConnects, Arrive, Leave, Tick, EpollWait, AcceptDone, FlushSocket,
        ReadSocket, Dispatch, ReadDone, SweepBegin, idle_sweep_one,
        SweepDone, WalkBegin, WalkOne, WalkEnd, ConnectBegin, Choose,
        ChooseNone, OpenFails, Failed, PostVersion, vars

LEMMA SocketType ==
  ASSUME ConnTypeOK, [Next]_vars
  PROVE  SocketOK'
<1> USE DEF ConnTypeOK, SocketOK, socket, state, table, limiter, network, walker,
            connector
<1>1. ASSUME NEW c \in Conns, NEW m \in Commands, Arrive(c, m) PROVE SocketOK'
    BY <1>1 DEF Arrive
<1>2. CASE Dispatch
    BY <1>2, HandFacts DEF Dispatch, OnVersion, OnOldVersion, OnTooLarge, OnVerack,
        OnError, OnOther, record_result, SendTo
<1>3. CASE close_connection
    BY <1>3, HandFacts DEF close_connection, Forget, Unlist, record_result
<1>4. CASE GiveUp
    BY <1>4, HandFacts DEF GiveUp, Failed, Forget, InHand
<1>5. ASSUME NEW c \in Conns, ReadSocket(c) PROVE SocketOK'
  <2>1. \/ UNCHANGED <<inbuf, recv>>
        \/ recv' = inbuf[c] /\ inbuf' = [inbuf EXCEPT ![c] = <<>>]
    BY <1>5, Zenon DEF ReadSocket
  <2>2. recv \in Seq(Commands) /\ inbuf[c] \in Seq(Commands)
    BY Zenon
  <2>3. [inbuf EXCEPT ![c] = <<>>] \in [Conns -> Seq(Commands)]
    OBVIOUS
  <2> QED BY <2>1, <2>2, <2>3, Zenon
<1>6. CASE UNCHANGED <<inbuf, recv>>
    BY <1>6
<1> QED
    BY StepCases, <1>1, <1>2, <1>3, <1>4, <1>5, <1>6, Zenon
    DEF ClientConnects, Leave, Tick, EpollWait, Accept, AcceptDone,
        FlushSocket, ReadDone, SweepBegin, idle_sweep_one, SweepDone,
        WalkBegin, WalkOne, WalkEnd, ConnectBegin, Choose, ChooseNone,
        OpenFails, Failed, Open, Register, PostVersion, Add,
        bm_peer_registry_add, vars

LEMMA FlagsType ==
  ASSUME ConnTypeOK, [Next]_vars
  PROVE  FlagsOK'
<1> USE DEF ConnTypeOK, FlagsOK, socket, state, table, limiter, network, walker,
            connector
<1>1. ASSUME NEW c \in Conns, Leave(c) PROVE FlagsOK'
    BY <1>1 DEF Leave
<1>2. CASE Dispatch
    BY <1>2, HandFacts, ZenonT(60) DEF Dispatch, OnVersion, OnOldVersion, OnTooLarge,
       OnVerack,
        OnError, OnOther, record_result, SendTo
<1>3. CASE close_connection
    BY <1>3, HandFacts, Zenon DEF close_connection, Forget, Unlist, record_result
<1>4. ASSUME NEW c \in Conns, idle_sweep_one(c) PROVE FlagsOK'
    BY <1>4, Zenon DEF idle_sweep_one, Ping, SendTo
<1>5. CASE SweepDone
    BY <1>5, Zenon DEF SweepDone, Due
<1>6. ASSUME NEW c \in Conns, WalkOne(c) PROVE FlagsOK'
    BY <1>6, ZenonT(60) DEF WalkOne, SendTo
<1>7. CASE GiveUp
    BY <1>7, HandFacts, Zenon DEF GiveUp, Failed, Forget, InHand
<1>8. ASSUME NEW c \in Conns, FlushSocket(c) PROVE FlagsOK'
    BY <1>8, ZenonT(60) DEF FlushSocket, SendTo
<1>9. CASE UNCHANGED <<gone, evict, ver, hs>>
    BY <1>9, Zenon
<1> QED
    BY StepCases, <1>1, <1>2, <1>3, <1>4, <1>5, <1>6, <1>7, <1>8, <1>9, Zenon
    DEF ClientConnects, Arrive, Tick, EpollWait, Accept, AcceptDone,
        ReadSocket, ReadDone, SweepBegin, WalkBegin, WalkEnd, ConnectBegin,
        Choose, ChooseNone, OpenFails, Failed, Open, Register, PostVersion,
        Add, bm_peer_registry_add, vars

LEMMA ClocksType ==
  ASSUME ConnTypeOK, [Next]_vars
  PROVE  ClocksOK'
<1> USE DEF ConnTypeOK, ClocksOK, socket, state, table, limiter, network, walker,
            connector
<1>1. CASE Tick
  <2>1. idle' \in [Conns -> 0 .. MaxAge]
    BY <1>1, AgeFacts, Zenon DEF Tick
  <2>2. reply' \in [Conns -> 0 .. ReplyDelay \cup {None}]
    BY <1>1, AgeFacts, ZenonT(60) DEF Tick
  <2> QED BY <2>1, <2>2
<1>2. ASSUME NEW c \in Conns, Accept(c) PROVE ClocksOK'
    BY <1>2, ClockFacts DEF Accept, bm_inbound_rate_limiter_allow
<1>3. ASSUME NEW c \in Conns, ReadSocket(c) PROVE ClocksOK'
  <2>1. UNCHANGED reply /\ (UNCHANGED idle \/ idle' = [idle EXCEPT ![c] = 0])
    BY <1>3, Zenon DEF ReadSocket
  <2>2. [idle EXCEPT ![c] = 0] \in [Conns -> 0 .. MaxAge]
    BY ClockFacts, Zenon
  <2> QED BY <2>1, <2>2, Zenon
<1>4. CASE Dispatch
  <2>1. cur \in Conns
    BY <1>4, HandFacts, Zenon DEF Dispatch
  <2>2. UNCHANGED reply \/ reply' = [reply EXCEPT ![cur] = ReplyDelay]
    BY <1>4, ZenonT(60) DEF Dispatch, OnVersion, OnOldVersion, OnTooLarge, OnVerack,
       OnError, OnOther
  <2>3. UNCHANGED idle
    BY <1>4, Zenon DEF Dispatch
  <2>4. [reply EXCEPT ![cur] = ReplyDelay] \in [Conns -> 0 .. ReplyDelay \cup {None}]
    BY <2>1, ClockFacts, Zenon
  <2> QED BY <2>2, <2>3, <2>4, Zenon
<1>5. CASE close_connection
    BY <1>5, HandFacts, ClockFacts, Zenon DEF close_connection, Forget
<1>6. ASSUME NEW c \in Conns, idle_sweep_one(c) PROVE ClocksOK'
    BY <1>6, ClockFacts DEF idle_sweep_one, Ping, SendTo
<1>7. CASE SweepDone
    BY <1>7, ClockFacts, Zenon DEF SweepDone, Due
<1>8. ASSUME NEW c \in Outbound, Open(c) PROVE ClocksOK'
    BY <1>8, ClockFacts, ZenonT(60) DEF Open, Conns
<1>9. CASE GiveUp
    BY <1>9, HandFacts, ClockFacts, Zenon DEF GiveUp, Failed, Forget, InHand
<1>10. CASE UNCHANGED <<idle, reply>>
    BY <1>10
<1> QED
    BY Zenon, StepCases, <1>1, <1>2, <1>3, <1>4, <1>5, <1>6, <1>7, <1>8, <1>9,
       <1>10
    DEF ClientConnects, Arrive, Leave, EpollWait, AcceptDone, FlushSocket, ReadDone,
        SweepBegin, WalkBegin, WalkOne, WalkEnd, ConnectBegin, Choose,
        ChooseNone, OpenFails, Failed, Register, PostVersion, Add,
        bm_peer_registry_add, vars

LEMMA LimiterType ==
  ASSUME ConnTypeOK, [Next]_vars
  PROVE  LimiterOK'
<1> USE DEF ConnTypeOK, LimiterOK, socket, state, table, limiter, network, walker,
            connector
<1>1. ASSUME NEW c \in Inbound, ClientConnects(c) PROVE LimiterOK'
    BY <1>1 DEF ClientConnects
<1>2. CASE Tick
    BY <1>2, AgeFacts, Zenon DEF Tick
<1>3. ASSUME NEW c \in Conns, Accept(c) PROVE LimiterOK'
    BY <1>3 DEF Accept, bm_inbound_rate_limiter_allow
<1>4. CASE UNCHANGED <<limiter>>
    BY <1>4
<1> QED
    BY StepCases, <1>1, <1>2, <1>3, <1>4, Zenon
    DEF Arrive, Leave, EpollWait, AcceptDone, FlushSocket, ReadSocket, Dispatch,
        ReadDone, close_connection, SweepBegin, idle_sweep_one, SweepDone,
        WalkBegin, WalkOne, WalkEnd, ConnectBegin, Choose, ChooseNone,
        OpenFails, Failed, Open, Register, GiveUp, PostVersion, Add,
        bm_peer_registry_add, vars

LEMMA NetworkType ==
  ASSUME ConnTypeOK, [Next]_vars
  PROVE  NetworkOK'
<1> USE DEF ConnTypeOK, NetworkOK, socket, state, table, limiter, network, walker,
            connector
<1>1. CASE EpollWait
    BY <1>1, Zenon DEF EpollWait, TableOK
<1>2. CASE AcceptDone
    BY <1>2, Zenon DEF AcceptDone
<1>3. ASSUME NEW c \in Conns, ReadSocket(c) PROVE NetworkOK'
    BY <1>3, Zenon DEF ReadSocket
<1>4. CASE Dispatch
    BY <1>4, HandFacts, ZenonT(60) DEF Dispatch, OnVersion, OnOldVersion, OnTooLarge,
       OnVerack,
        OnError, OnOther
<1>5. CASE ReadDone
    BY <1>5, Zenon DEF ReadDone
<1>6. CASE close_connection
    BY <1>6, HandFacts, Zenon DEF close_connection
<1>7. CASE SweepBegin
    BY <1>7, Zenon DEF SweepBegin, TableOK
<1>8. ASSUME NEW c \in Conns, idle_sweep_one(c) PROVE NetworkOK'
    BY <1>8, Zenon DEF idle_sweep_one, Ping, SendTo
<1>9. CASE SweepDone
    BY <1>9, Zenon DEF SweepDone, Due
<1>10. ASSUME NEW c \in Conns, FlushSocket(c) PROVE NetworkOK'
    BY <1>10, Zenon DEF FlushSocket
<1>11. CASE UNCHANGED <<network>>
    BY <1>11, Zenon
<1> QED
    BY Zenon, StepCases, <1>1, <1>2, <1>3, <1>4, <1>5, <1>6, <1>7, <1>8, <1>9,
       <1>10, <1>11
    DEF ClientConnects, Arrive, Leave, Tick, Accept, WalkBegin, WalkOne,
        WalkEnd, ConnectBegin, Choose, ChooseNone, OpenFails, Failed, Open,
        Register, GiveUp, PostVersion, Add, bm_peer_registry_add, vars

LEMMA WalkerType ==
  ASSUME ConnTypeOK, [Next]_vars
  PROVE  WalkerOK'
<1> USE DEF ConnTypeOK, WalkerOK, socket, state, table, limiter, network, walker,
            connector
<1>1. CASE WalkBegin
    BY <1>1, Zenon DEF WalkBegin, TableOK
<1>2. ASSUME NEW c \in Conns, WalkOne(c) PROVE WalkerOK'
    BY <1>2, Zenon DEF WalkOne, SendTo
<1>3. CASE WalkEnd
    BY <1>3, Zenon DEF WalkEnd
<1>4. CASE UNCHANGED <<walker>>
    BY <1>4
<1> QED
    BY StepCases, <1>1, <1>2, <1>3, <1>4, Zenon
    DEF ClientConnects, Arrive, Leave, Tick, EpollWait, Accept, AcceptDone, FlushSocket,
        ReadSocket, Dispatch, ReadDone, close_connection, SweepBegin,
        idle_sweep_one, SweepDone, ConnectBegin, Choose, ChooseNone,
        OpenFails, Failed, Open, Register, GiveUp, PostVersion, Add,
        bm_peer_registry_add, vars

LEMMA ConnectorType ==
  ASSUME ConnTypeOK, [Next]_vars
  PROVE  ConnectorOK'
<1> USE DEF ConnTypeOK, ConnectorOK, socket, state, table, limiter, network, walker,
            connector
<1>1. CASE Tick
  <2>1. cool' \in [Peers -> 0 .. Cooldown]
    BY <1>1, AgeFacts, Zenon DEF Tick
  <2> QED BY <1>1, <2>1, Zenon DEF Tick, InHand
<1>2. CASE ConnectBegin
  <2>1. CountOutbound \in Nat
    BY CountFacts, ZenonT(60) DEF CountOutbound
  <2>2. want' \in 1 .. MaxOutbound
    BY <1>2, <2>1 DEF ConnectBegin
  <2> QED BY <1>2, <2>2, Zenon DEF ConnectBegin, InHand, RatingsOK
<1>3. ASSUME NEW p \in Peers, Choose(p) PROVE ConnectorOK'
    BY <1>3 DEF Choose, InHand
<1>4. CASE ChooseNone
    BY <1>4, Zenon DEF ChooseNone, InHand
<1>5. CASE OpenFails
    BY <1>5, HandFacts, RatingFacts, Zenon DEF OpenFails, Failed, InHand
<1>6. ASSUME NEW c \in Outbound, Open(c) PROVE ConnectorOK'
    BY <1>6, Zenon DEF Open, InHand, Conns
<1>7. CASE Register
    BY <1>7, HandFacts, Zenon DEF Register, InHand
<1>8. CASE GiveUp
    BY <1>8, HandFacts, RatingFacts, ZenonT(60) DEF GiveUp, Failed, Forget, InHand
<1>9. CASE PostVersion
    BY <1>9, Zenon DEF PostVersion, InHand
<1>10. CASE Add
    BY <1>10, HandFacts DEF Add, bm_peer_registry_add, InHand
<1>11. CASE UNCHANGED <<connector>>
    BY <1>11, Zenon DEF InHand
<1> QED
    BY Zenon, StepCases, <1>1, <1>2, <1>3, <1>4, <1>5, <1>6, <1>7, <1>8, <1>9,
       <1>10, <1>11
    DEF ClientConnects, Arrive, Leave, EpollWait, Accept, AcceptDone, FlushSocket,
        ReadSocket, Dispatch, ReadDone, close_connection, SweepBegin,
        idle_sweep_one, SweepDone, WalkBegin, WalkOne, WalkEnd, vars

LEMMA RatingsType ==
  ASSUME ConnTypeOK, [Next]_vars
  PROVE  RatingsOK'
<1> USE DEF ConnTypeOK, RatingsOK, socket, state, table, limiter, network, walker,
            connector
<1>1. CASE Dispatch
    BY <1>1, RecordFacts, ZenonT(60) DEF Dispatch, OnVersion, OnOldVersion, OnTooLarge,
        OnVerack, OnError, OnOther, SendTo
<1>2. CASE close_connection
    BY <1>2, RecordFacts, ZenonT(60) DEF close_connection
<1>3. CASE OpenFails
    BY <1>3, HandFacts, RatingFacts, Zenon DEF OpenFails, Failed
<1>4. CASE GiveUp
    BY <1>4, HandFacts, RatingFacts, Zenon DEF GiveUp, Failed
<1>5. CASE UNCHANGED rating
    BY <1>5, Zenon
<1> QED
    BY StepCases, <1>1, <1>2, <1>3, <1>4, <1>5, Zenon
    DEF ClientConnects, Arrive, Leave, Tick, EpollWait, Accept, AcceptDone, FlushSocket,
        ReadSocket, ReadDone, SweepBegin, idle_sweep_one, SweepDone,
        WalkBegin, WalkOne, WalkEnd, ConnectBegin, Choose, ChooseNone, Open,
        Register, PostVersion, Add, bm_peer_registry_add, vars

LEMMA TypeStep == ASSUME ConnTypeOK, [Next]_vars PROVE ConnTypeOK'
  BY Zenon, TableType, SocketType, FlagsType, ClocksType, LimiterType, NetworkType,
     WalkerType, ConnectorType, RatingsType DEF ConnTypeOK
-----------------------------------------------------------------------------
(* The steps of the peers and of the clock.                                *)
LEMMA PeerSteps ==
  ASSUME IInv, PeerStep \/ Tick
  PROVE  PlaceInv' /\ PointerInv' /\ HandInv' /\ NoneIsLost'
<1> USE DEF IInv, PlaceInv, PointerInv, HandInv, NoneIsLost, Chosen, InHand,
            socket, state, table, network, walker, connector
<1>1. ASSUME NEW c \in Inbound, ClientConnects(c)
      PROVE  PlaceInv' /\ PointerInv' /\ HandInv' /\ NoneIsLost'
    BY <1>1, Zenon DEF ClientConnects
<1>2. ASSUME NEW c \in Conns, NEW m \in Commands, Arrive(c, m)
      PROVE  PlaceInv' /\ PointerInv' /\ HandInv' /\ NoneIsLost'
    BY <1>2, Zenon DEF Arrive, limiter
<1>3. ASSUME NEW c \in Conns, Leave(c)
      PROVE  PlaceInv' /\ PointerInv' /\ HandInv' /\ NoneIsLost'
    BY <1>3, Zenon DEF Leave, limiter
<1>4. CASE Tick
    BY <1>4, Zenon DEF Tick, limiter
<1> QED BY <1>1, <1>2, <1>3, <1>4, Zenon DEF PeerStep

(* The steps of the network thread.                                        *)
LEMMA NetworkSteps ==
  ASSUME IInv, NetworkStep
  PROVE  PlaceInv' /\ PointerInv' /\ HandInv' /\ NoneIsLost'
<1> USE DEF IInv, PlaceInv, PointerInv, HandInv, NoneIsLost, Chosen, InHand,
            socket, state, table, limiter, network, walker, connector
<1>1. CASE EpollWait
    BY <1>1 DEF EpollWait, Ready, ConnTypeOK, TableOK
<1>2. ASSUME NEW c \in Conns, Accept(c)
      PROVE  PlaceInv' /\ PointerInv' /\ HandInv' /\ NoneIsLost'
  <2>1. life[c] = "none" /\ c \notin conns /\ (InHand => c # cconn)
    BY <1>2, Zenon DEF Accept
  <2>2. /\ \A d \in Conns : d # c => life'[d] = life[d]
        /\ \/ life'[c] = "refused" /\ UNCHANGED <<polled, conns, listed>>
           \/ /\ life'[c] = "made" /\ polled' = polled \cup {c}
              /\ conns' = conns \cup {c} /\ listed' = listed \cup {c}
    BY <1>2 DEF Accept, ConnTypeOK, TableOK
  <2>3. backlog' = backlog \ {c} /\ UNCHANGED <<socket, network, walker, connector>>
    BY <1>2, Zenon DEF Accept
  <2>4. PlaceInv'
    BY <2>2, <2>3, Zenon
  <2>5. PointerInv'
    BY <2>1, <2>2, <2>3, Zenon DEF ConnTypeOK, TableOK, LimiterOK, Conns
  <2>6. HandInv' /\ NoneIsLost'
    BY <2>1, <2>2, <2>3, Zenon DEF Conns
  <2> QED BY <2>4, <2>5, <2>6, Zenon
<1>3. CASE AcceptDone
    BY <1>3, Zenon DEF AcceptDone
<1>4. ASSUME NEW c \in Conns, ReadSocket(c)
      PROVE  PlaceInv' /\ PointerInv' /\ HandInv' /\ NoneIsLost'
    BY <1>4, Zenon DEF ReadSocket
<1>11. ASSUME NEW c \in Conns, FlushSocket(c)
      PROVE  PlaceInv' /\ PointerInv' /\ HandInv' /\ NoneIsLost'
    BY <1>11, Zenon DEF FlushSocket
<1>5. CASE Dispatch
    BY <1>5, Zenon DEF Dispatch, OnVersion, OnOldVersion, OnTooLarge, OnVerack, OnError,
       OnOther,
                ConnTypeOK, SocketOK
<1>6. CASE ReadDone
    BY <1>6, Zenon DEF ReadDone
<1>7. CASE close_connection
  <2>1. /\ cur \in Conns /\ cur \in conns \cup (Conns \ listed)
        /\ cur \notin batch \cup outs /\ cur \notin todo /\ walk = {}
    BY <1>7, HandFacts, Zenon DEF close_connection
  <2>2. conns' = conns \ {cur} /\ polled' = polled \ {cur}
    BY <1>7, Zenon DEF close_connection, Unlist
  <2>3. /\ life'[cur] = "freed"
        /\ \A d \in Conns : d # cur => life'[d] = life[d]
    BY <1>7, <2>1 DEF close_connection, Forget, ConnTypeOK, TableOK
  <2>4. /\ npc' = IF npc = "closeEvent" THEN "events" ELSE "sweep"
        /\ UNCHANGED <<listed, limiter, batch, outs, todo, walker, connector>>
        /\ npc \in {"closeEvent", "closeSweep"} /\ ~walking /\ life[cur] = "made"
    BY <1>7, Zenon DEF close_connection
  <2>5. PlaceInv'
    BY <2>4, Zenon
  <2>6. PointerInv'
    BY <2>1, <2>2, <2>3, <2>4, ZenonT(60) DEF ConnTypeOK, TableOK, LimiterOK, Conns
  <2>7. HandInv' /\ NoneIsLost'
    BY <2>1, <2>2, <2>3, <2>4, Zenon DEF Conns
  <2> QED BY <2>5, <2>6, <2>7, Zenon
<1>8. CASE SweepBegin
    BY <1>8, Zenon DEF SweepBegin
<1>9. ASSUME NEW c \in Conns, idle_sweep_one(c)
      PROVE  PlaceInv' /\ PointerInv' /\ HandInv' /\ NoneIsLost'
    BY <1>9, Zenon DEF idle_sweep_one
<1>10. CASE SweepDone
    BY <1>10, Zenon DEF SweepDone
<1> QED
    BY <1>1, <1>2, <1>3, <1>4, <1>5, <1>6, <1>7, <1>8, <1>9, <1>10, <1>11, Zenon
    DEF NetworkStep

(* The steps of a walk through the registry.                               *)
LEMMA WalkerSteps ==
  ASSUME IInv, WalkerStep
  PROVE  PlaceInv' /\ PointerInv' /\ HandInv' /\ NoneIsLost'
  BY ZenonT(60) DEF IInv, PlaceInv, PointerInv, HandInv, NoneIsLost, Chosen, InHand,
         socket, state, table, limiter, network, connector,
         WalkerStep, WalkBegin, WalkOne, WalkEnd

(* The steps of the connector.                                             *)
LEMMA ConnectorSteps ==
  ASSUME IInv, ConnectorStep
  PROVE  PlaceInv' /\ PointerInv' /\ HandInv' /\ NoneIsLost'
<1> USE DEF IInv, PlaceInv, PointerInv, HandInv, NoneIsLost, Chosen, InHand,
            socket, state, table, limiter, network, walker, connector
<1>1. CASE ConnectBegin \/ ChooseNone
    BY <1>1, Zenon DEF ConnectBegin, ChooseNone
<1>2. ASSUME NEW p \in Peers, Choose(p)
      PROVE  PlaceInv' /\ PointerInv' /\ HandInv' /\ NoneIsLost'
    BY <1>2, Zenon DEF Choose
<1>3. CASE OpenFails
    BY <1>3, Zenon DEF OpenFails, Failed
<1>4. ASSUME NEW c \in Outbound, Open(c)
      PROVE  PlaceInv' /\ PointerInv' /\ HandInv' /\ NoneIsLost'
    BY <1>4, Zenon DEF Open, Conns, ConnTypeOK, TableOK, LimiterOK
<1>5. CASE Register \/ PostVersion
    BY <1>5, Zenon DEF Register, PostVersion
<1>6. CASE GiveUp
  <2>1. cconn \in Conns /\ cconn \notin conns /\ InHand /\ life[cconn] = "made"
    BY <1>6, HandFacts, Zenon DEF GiveUp
  <2>2. /\ life'[cconn] = "freed"
        /\ \A d \in Conns : d # cconn => life'[d] = life[d]
    BY <1>6, <2>1, ZenonT(60) DEF GiveUp, Forget, ConnTypeOK, TableOK
  <2>3. /\ polled' = polled \ {cconn} /\ cpc' = "choose"
        /\ UNCHANGED <<conns, listed, limiter, network, walker>>
    BY <1>6, Zenon DEF GiveUp, Failed
  <2>4. PlaceInv' /\ HandInv' /\ NoneIsLost'
    BY <2>1, <2>2, <2>3, Zenon
  <2>5. PointerInv'
    BY <2>1, <2>2, <2>3, Zenon DEF ConnTypeOK, TableOK, LimiterOK, Conns
  <2> QED BY <2>4, <2>5, Zenon
<1>7. CASE Add
    BY <1>7, Zenon DEF Add, bm_peer_registry_add
<1> QED BY <1>1, <1>2, <1>3, <1>4, <1>5, <1>6, <1>7, Zenon DEF ConnectorStep

LEMMA InvStep == ASSUME IInv, [Next]_vars PROVE IInv'
<1>1. CASE UNCHANGED vars
    BY <1>1, TypeStep, Zenon
    DEF IInv, PlaceInv, PointerInv, HandInv, NoneIsLost, Chosen, InHand, vars,
        socket, table, limiter, network, walker, connector
<1> QED
    BY <1>1, TypeStep, PeerSteps, NetworkSteps, WalkerSteps, ConnectorSteps, Zenon
    DEF Next, IInv
-----------------------------------------------------------------------------
(* The connector chooses a peer that has no connection.                    *)
LEMMA PeerInvStep ==
  ASSUME IInv, PeerInv, [Next]_vars
  PROVE  PeerInv'
<1> USE DEF PeerInv, Chosen, table, connector
<1>1. ASSUME NEW c \in Conns, Accept(c) PROVE PeerInv'
    BY <1>1 DEF Accept, IInv, ConnTypeOK, LimiterOK
<1>2. CASE close_connection
    BY <1>2, Zenon DEF close_connection, Unlist
<1>3. ASSUME NEW p \in Peers, Choose(p) PROVE PeerInv'
    BY <1>3, Zenon DEF Choose, bm_peer_registry_has_peer
<1>4. CASE Add
    BY <1>4, Zenon DEF Add, bm_peer_registry_add, IInv, HandInv, InHand
<1>5. ASSUME UNCHANGED conns, UNCHANGED cpeer, Chosen' => Chosen PROVE PeerInv'
    BY <1>5, Zenon
<1> QED
    BY StepCases, <1>1, <1>2, <1>3, <1>4, <1>5, Zenon
    DEF ClientConnects, Arrive, Leave, Tick, EpollWait, AcceptDone, FlushSocket, ReadSocket,
        Dispatch, ReadDone, SweepBegin, idle_sweep_one, SweepDone, WalkBegin,
        WalkOne, WalkEnd, ConnectBegin, ChooseNone, OpenFails, Failed, Open,
        Register, GiveUp, PostVersion, vars

LEMMA CountOneMore ==
  ASSUME NEW S, NEW T, NEW x, IsFiniteSet(S)
  PROVE  /\ Cardinality(S \cap T) \in Nat
         /\ Cardinality((S \cup {x}) \cap T) \in Nat
         /\ Cardinality((S \cup {x}) \cap T) <= Cardinality(S \cap T) + 1
         /\ x \notin T => (S \cup {x}) \cap T = S \cap T
<1>1. IsFiniteSet(S \cap T)
    BY FS_Subset
<1>2. Cardinality(S \cap T) \in Nat
    BY <1>1, FS_CardinalityType, Zenon
<1>3. x \notin T => (S \cup {x}) \cap T = S \cap T
    BY Zenon
<1>4. x \in T => (S \cup {x}) \cap T = (S \cap T) \cup {x}
    OBVIOUS
<1>5. \/ Cardinality((S \cap T) \cup {x}) = Cardinality(S \cap T)
      \/ Cardinality((S \cap T) \cup {x}) = Cardinality(S \cap T) + 1
    BY <1>1, FS_AddElement, ZenonT(30)
<1>6. \/ Cardinality((S \cup {x}) \cap T) = Cardinality(S \cap T)
      \/ Cardinality((S \cup {x}) \cap T) = Cardinality(S \cap T) + 1
    BY <1>3, <1>4, <1>5, Zenon
<1> QED BY <1>2, <1>3, <1>6

LEMMA CountOneLess ==
  ASSUME NEW S, NEW T, NEW x, IsFiniteSet(S)
  PROVE  /\ Cardinality(S \cap T) \in Nat
         /\ Cardinality((S \ {x}) \cap T) \in Nat
         /\ Cardinality((S \ {x}) \cap T) <= Cardinality(S \cap T)
<1>1. IsFiniteSet(S \cap T) /\ (S \ {x}) \cap T \subseteq S \cap T
    BY FS_Subset
<1> QED BY <1>1, FS_Subset, FS_CardinalityType, Zenon

(* No more are accepted or made than there is room for.                    *)
LEMMA CountInvStep ==
  ASSUME IInv, CountInv, [Next]_vars
  PROVE  CountInv'
<1> USE DEF CountInv, table, connector
<1>0. /\ IsFiniteSet(conns) /\ want \in Nat
      /\ CountByType(Inbound) \in Nat /\ CountByType(Outbound) \in Nat
  <2>1. IsFiniteSet(conns)
    BY FS_Subset, Zenon DEF IInv, ConnTypeOK, TableOK
  <2>2. want \in Nat
    BY DEF IInv, ConnTypeOK, ConnectorOK
  <2> QED BY <2>1, <2>2, CountFacts, ZenonT(60) DEF IInv
<1>1. ASSUME NEW c \in Conns, Accept(c) PROVE CountInv'
  <2>1. c \in Inbound /\ c \notin Outbound
    BY <1>1, Zenon DEF Accept, IInv, ConnTypeOK, LimiterOK
  <2>2. \/ conns' = conns
        \/ conns' = conns \cup {c} /\ ~(CountByType(Inbound) >= MaxInbound)
    BY <1>1, Zenon DEF Accept, InboundFull
  <2>3. CASE conns' = conns
    BY <1>1, <2>3, Zenon DEF Accept, CountByType
  <2>4. CASE conns' = conns \cup {c} /\ ~(CountByType(Inbound) >= MaxInbound)
    <3>1. conns' \cap Outbound = conns \cap Outbound
      BY <2>1, <2>4
    <3>2. /\ CountByType(Inbound)' \in Nat
          /\ CountByType(Inbound)' <= CountByType(Inbound) + 1
      BY <1>0, <2>4, CountOneMore, ZenonT(60) DEF CountByType
    <3>3. CountByType(Inbound)' <= MaxInbound
      BY <1>0, <2>4, <3>2
    <3> QED BY <1>1, <3>1, <3>3, Zenon DEF Accept, CountByType
  <2> QED BY <2>2, <2>3, <2>4, Zenon
<1>2. CASE close_connection
  <2>1. /\ conns' = conns \ {cur} /\ UNCHANGED <<cpc, want>>
    BY <1>2, Zenon DEF close_connection, Unlist
  <2>2. /\ CountByType(Inbound)' \in Nat /\ CountByType(Outbound)' \in Nat
        /\ CountByType(Inbound)' <= CountByType(Inbound)
        /\ CountByType(Outbound)' <= CountByType(Outbound)
    BY <1>0, <2>1, CountOneLess, ZenonT(60) DEF CountByType
  <2> QED BY <1>0, <2>1, <2>2
<1>3. CASE ConnectBegin
    BY <1>0, <1>3 DEF ConnectBegin, CountOutbound, CountByType
<1>4. CASE Add
  <2>1. /\ conns' = conns \cup {cconn} /\ cpc = "add" /\ want' = want - 1
        /\ cpc' = IF want = 1 THEN "idle" ELSE "choose"
    BY <1>4, Zenon DEF Add, bm_peer_registry_add
  <2>2. cconn \in Outbound /\ cconn \notin Inbound
    BY <2>1, Zenon DEF IInv, HandInv, InHand
  <2>3. CountByType(Inbound)' = CountByType(Inbound)
    BY <2>1, <2>2, ZenonT(60) DEF CountByType
  <2>4. /\ CountByType(Outbound)' \in Nat
        /\ CountByType(Outbound)' <= CountByType(Outbound) + 1
    BY <1>0, <2>1, CountOneMore, ZenonT(60) DEF CountByType
  <2> QED BY <1>0, <2>1, <2>3, <2>4
<1>5. ASSUME UNCHANGED conns, cpc' = "idle" \/ (cpc # "idle" /\ UNCHANGED want)
      PROVE  CountInv'
    BY <1>5, Zenon DEF CountByType
<1> QED
    BY StepCases, <1>1, <1>2, <1>3, <1>4, <1>5, Zenon
    DEF ClientConnects, Arrive, Leave, Tick, EpollWait, AcceptDone, FlushSocket, ReadSocket,
        Dispatch, ReadDone, SweepBegin, idle_sweep_one, SweepDone, WalkBegin,
        WalkOne, WalkEnd, Choose, ChooseNone, OpenFails, Failed, Open,
        Register, GiveUp, PostVersion, vars
-----------------------------------------------------------------------------
(* Every field has its type in every reachable state, whatever the peers   *)
(* send and however early they act: ratings stay in their range, and the   *)
(* threads have something in hand where their code uses it.                *)
THEOREM ConnTypes == Spec => []ConnTypeOK
<1>1. Init => ConnTypeOK
    BY InitInv DEF IInv
<1> QED BY <1>1, TypeStep, PTL DEF Spec

(* The inductive invariant, for any peers.                                 *)
LEMMA Invariant == Spec => [](IInv /\ PeerInv /\ CountInv)
<1>1. IInv /\ PeerInv /\ CountInv /\ [Next]_vars => (IInv /\ PeerInv /\ CountInv)'
    BY InvStep, PeerInvStep, CountInvStep, Zenon
<1> QED BY <1>1, InitInv, PTL DEF Spec

(* Nothing that was registered is pointed to once it is freed: for any     *)
(* number of connections and peers, no thread, no batch of events, no      *)
(* snapshot of the sweep and no walk through the registry holds it.  So    *)
(* the window before bm_peer_registry_add is the only way to a dangling    *)
(* pointer.                                                                *)
THEOREM ConnSafeOnceListed == Spec => []SafeOnceListed
<1>1. IInv => SafeOnceListed
  <2> SUFFICES ASSUME IInv, NEW c \in Pointers, c \in listed PROVE life[c] = "made"
    BY Zenon DEF SafeOnceListed
  <2>1. c \in Conns /\ (InHand => c # cconn)
    BY Zenon DEF IInv, ConnTypeOK, TableOK, HandInv
  <2>2. \/ c \in conns \cup polled \cup todo \cup walk
        \/ c \in batch \cup outs
        \/ npc \in {"read", "closeEvent", "closeSweep"} /\ c = cur
    BY <2>1 DEF Pointers
  <2>3. c \in conns
    BY <2>1, <2>2, Zenon DEF IInv, PlaceInv, PointerInv
  <2> QED BY <2>3, Zenon DEF IInv, PointerInv
<1> QED BY <1>1, Invariant, PTL

(* A connection that exists is polled and registered, or in the hands of   *)
(* the connector: none is forgotten by both.                               *)
THEOREM ConnNoneIsLost == Spec => []NoneIsLost
<1>1. IInv => NoneIsLost
    BY Zenon DEF IInv
<1> QED BY <1>1, Invariant, PTL

(* The limit on inbound connections holds for what exists, though it is    *)
(* the registry that is counted.                                           *)
THEOREM ConnInboundBounded == Spec => []InboundBounded
<1>1. IInv /\ CountInv => InboundBounded
  <2> SUFFICES ASSUME IInv, CountInv PROVE InboundBounded
    BY Zenon
  <2>1. Live(Inbound) = conns \cap Inbound
    BY Zenon DEF Live, IInv, NoneIsLost, PointerInv, HandInv, InHand, Conns
  <2> QED BY <2>1, Zenon DEF CountInv, CountByType, InboundBounded
<1> QED BY <1>1, Invariant, PTL

(* The limit on outbound connections holds, the one being made included,   *)
(* though the connector counts once and then makes several.                *)
THEOREM ConnOutboundBounded == Spec => []OutboundBounded
<1>1. IInv /\ CountInv => OutboundBounded
  <2> SUFFICES ASSUME IInv, CountInv PROVE OutboundBounded
    OBVIOUS
  <2>0. IsFiniteSet(conns) /\ want \in Nat
    BY FS_Subset DEF IInv, ConnTypeOK, TableOK, ConnectorOK
  <2>1. CASE InHand
    <3>1. Live(Outbound) \subseteq (conns \cup {cconn}) \cap Outbound
      BY <2>1, Zenon DEF Live, IInv, NoneIsLost, Conns
    <3>2. want > 0 /\ CountByType(Outbound) + want <= MaxOutbound
      BY <2>1, Zenon DEF InHand, CountInv
    <3>3. /\ Cardinality(conns \cap Outbound) \in Nat
          /\ Cardinality((conns \cup {cconn}) \cap Outbound) \in Nat
          /\ Cardinality((conns \cup {cconn}) \cap Outbound)
                <= Cardinality(conns \cap Outbound) + 1
      BY <2>0, CountOneMore, ZenonT(60)
    <3>4. Cardinality((conns \cup {cconn}) \cap Outbound) <= MaxOutbound
      BY <2>0, <3>2, <3>3 DEF CountByType
    <3>5. IsFiniteSet((conns \cup {cconn}) \cap Outbound)
      BY <2>0, FS_AddElement, FS_Subset, Zenon
    <3>6. /\ Cardinality(Live(Outbound)) \in Nat
          /\ Cardinality(Live(Outbound)) <= Cardinality((conns \cup {cconn}) \cap Outbound)
      BY <3>1, <3>5, FS_Subset, FS_CardinalityType, Zenon
    <3> QED BY <3>3, <3>4, <3>6 DEF OutboundBounded
  <2>2. CASE ~InHand
    <3>1. Live(Outbound) = conns \cap Outbound
      BY <2>2, Zenon DEF Live, IInv, NoneIsLost, PointerInv, Conns
    <3> QED BY <3>1, Zenon DEF CountInv, CountByType, OutboundBounded
  <2> QED BY <2>1, <2>2, Zenon
<1> QED BY <1>1, Invariant, PTL

(* No two outbound connections lead to the same peer, though the registry  *)
(* is asked long before the new connection enters it.                      *)
THEOREM ConnOnePerPeer == Spec => []OnePerPeer
<1>1. IInv /\ PeerInv => OnePerPeer
    BY SMTT(40) DEF IInv, PeerInv, OnePerPeer, Live, NoneIsLost, HandInv, InHand,
           Chosen, Conns
<1> QED BY <1>1, Invariant, PTL
=============================================================================
