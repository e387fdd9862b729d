---------------------------- MODULE ThreadProofs ----------------------------
(***************************************************************************)
(* Proofs about the threads of the process: how senders share the socket   *)
(* of a connection, for any number of senders, any message lengths, limits *)
(* and timeouts (module SendQueue), and how main starts and stops them,    *)
(* for any messages, keys and settings (module Daemon). Neither section    *)
(* uses the other.                                                         *)
(***************************************************************************)
EXTENDS SendQueue, Daemon, TLAPS

-----------------------------------------------------------------------------
(* SendQueue.                                                              *)

(* The chunks are consecutive stretches of the accepted stream: the first  *)
(* goes on where the wire ends, only the first is partly written, none is  *)
(* written out, and the last ends where the accepted stream ends.          *)
ChunkInv ==
    /\ queue # <<>> => queue[1].first + queue[1].off = Len(wire)
    /\ queue = <<>> => accepted = Len(wire)
    /\ \A i \in 1 .. Len(queue) :
           /\ queue[i].off < queue[i].len
           /\ queue[i].first + queue[i].len <= accepted
           /\ i = Len(queue) => queue[i].first + queue[i].len = accepted
           /\ i > 1 => queue[i].off = 0
    /\ \A i, k \in 1 .. Len(queue) :
           k = i + 1 => queue[k].first = queue[i].first + queue[i].len
    /\ queued = accepted - Len(wire)
    /\ queued <= HardLimit

(* The recorded age of the last progress is at most Lag too old.           *)
AgeInv == age <= quiet + Lag

IInv == TypeOK /\ ChunkInv /\ AgeInv /\ StreamIntact

USE DEF Threads, EpollPCs

LEMMA InitIInv == Init => IInv
<1> SUFFICES ASSUME Init PROVE IInv
    OBVIOUS
<1> USE NumberAssumption, ThreadAssumption
<1>1. TypeOK
  <2>1. armed \in BOOLEAN /\ registered \in BOOLEAN /\ evict \in BOOLEAN
      BY ZenonT(60) DEF Init
  <2>2. age \in 0 .. MaxAge /\ quiet \in 0 .. MaxAge
      BY DEF Init, MaxAge
  <2> QED
      BY <2>1, <2>2 DEF Init, TypeOK
<1>2. queue = <<>> /\ Len(queue) = 0 /\ Len(wire) = 0 /\ queued = 0 /\ accepted = 0
    BY DEF Init
<1>3. ChunkInv
    BY <1>2 DEF ChunkInv
<1>4. AgeInv
    BY DEF Init, AgeInv
<1>5. StreamIntact
    BY <1>2 DEF StreamIntact
<1> QED
    BY <1>1, <1>3, <1>4, <1>5 DEF IInv

-----------------------------------------------------------------------------
(* A new chunk begins where the accepted stream ended.                     *)
LEMMA SendStep ==
    ASSUME IInv, NEW t \in Threads, NEW len \in Lens, SendAccepted(t, len)
    PROVE  IInv'
<1> USE NumberAssumption DEF IInv, SendAccepted, AppendChunk, world, clocks
<1> DEFINE c == [first |-> accepted, len |-> len, off |-> 0]
<1>1. len \in Nat \ {0} /\ c \in Chunks /\ queue \in Seq(Chunks)
    BY DEF TypeOK, Chunks
<1>2. /\ queue' = Append(queue, c) /\ queue' \in Seq(Chunks)
      /\ Len(queue) \in Nat /\ Len(queue') = Len(queue) + 1
      /\ queue'[Len(queue) + 1] = c /\ queue' # <<>>
      /\ \A i \in 1 .. Len(queue) : queue'[i] = queue[i]
    BY <1>1
<1>3. /\ \A i \in 1 .. Len(queue) : queue[i] \in Chunks
      /\ Len(wire) \in Nat /\ accepted \in Nat /\ queued \in Nat
    BY <1>1 DEF TypeOK
<1>4. \A n \in Nat : \A m \in 1 .. n + 1 : m = n + 1 \/ m \in 1 .. n
    OBVIOUS
<1>5. age' \in 0 .. MaxAge /\ quiet' \in 0 .. MaxAge /\ AgeInv'
    BY DEF TypeOK, AgeInv, Progress, MaxAge
<1>6. TypeOK'
  <2>1. armed' \in BOOLEAN /\ registered' \in BOOLEAN /\ evict' \in BOOLEAN
      BY DEF TypeOK
  <2>2. lock' \in Threads \cup {Free} /\ caller' \in {"send", "flush"}
      OBVIOUS
  <2>3. accepted' \in Nat /\ queued' \in Nat
      BY <1>1, <1>3
  <2> QED
      BY <1>2, <1>5, <2>1, <2>2, <2>3 DEF TypeOK
<1>7. ChunkInv'
  <2>1. queue'[1].first + queue'[1].off = Len(wire)
    <3>1. CASE queue = <<>>
        BY <1>1, <1>2, <1>3, <3>1 DEF ChunkInv
    <3>2. CASE queue # <<>>
      <4>1. 1 \in 1 .. Len(queue)
          BY <1>1, <3>2
      <4> QED
          BY <1>2, <3>2, <4>1 DEF ChunkInv
    <3> QED
        BY <3>1, <3>2
  <2>2. ASSUME NEW i \in 1 .. Len(queue')
        PROVE  /\ queue'[i].off < queue'[i].len
               /\ queue'[i].first + queue'[i].len <= accepted'
               /\ i = Len(queue') => queue'[i].first + queue'[i].len = accepted'
               /\ i > 1 => queue'[i].off = 0
    <3>1. CASE i = Len(queue) + 1
        BY <1>1, <1>2, <1>3, <3>1
    <3>2. CASE i \in 1 .. Len(queue)
      <4>1. /\ queue[i].off < queue[i].len
            /\ queue[i].first + queue[i].len <= accepted
            /\ i > 1 => queue[i].off = 0
          BY <3>2 DEF ChunkInv
      <4>2. queue[i].first \in Nat /\ queue[i].len \in Nat
          BY <1>3, <3>2, Zenon DEF Chunks
      <4> QED
          BY <1>1, <1>2, <1>3, <3>2, <4>1, <4>2
    <3> QED
        BY <1>2, <1>4, <3>1, <3>2
  <2>3. ASSUME NEW i \in 1 .. Len(queue'), NEW k \in 1 .. Len(queue'), k = i + 1
        PROVE  queue'[k].first = queue'[i].first + queue'[i].len
    <3>1. i \in 1 .. Len(queue)
        BY <1>2, <2>3
    <3>2. CASE k = Len(queue) + 1
      <4>1. i = Len(queue)
          BY <1>2, <2>3, <3>2
      <4>2. queue[i].first + queue[i].len = accepted
          BY <3>1, <4>1, Zenon DEF ChunkInv
      <4> QED
          BY <1>2, <3>1, <3>2, <4>2
    <3>3. CASE k \in 1 .. Len(queue)
        BY <1>2, <2>3, <3>1, <3>3 DEF ChunkInv
    <3> QED
        BY <1>2, <1>4, <3>2, <3>3
  <2>4. queued' = accepted' - Len(wire') /\ queued' <= HardLimit
      BY <1>1, <1>3 DEF ChunkInv
  <2>5. wire' = wire
      OBVIOUS
  <2> QED
      BY <1>2, <2>1, <2>2, <2>3, <2>4, <2>5, ZenonT(60) DEF ChunkInv
<1>8. StreamIntact'
    BY DEF StreamIntact
<1> QED
    BY <1>5, <1>6, <1>7, <1>8

(* The next n positions, appended to a stream that ends at position b.     *)
LEMMA ConcatFacts ==
    ASSUME NEW s \in Seq(Nat), NEW t \in Seq(Nat)
    PROVE  /\ s \o t \in Seq(Nat) /\ Len(s \o t) = Len(s) + Len(t)
           /\ \A i \in 1 .. Len(s) : (s \o t)[i] = s[i]
           /\ \A i \in Len(s) + 1 .. Len(s) + Len(t) : (s \o t)[i] = t[i - Len(s)]
OBVIOUS

LEMMA RunFacts ==
    ASSUME NEW b \in Nat, NEW n \in Nat
    PROVE  LET r == [i \in 1 .. n |-> b + i]
           IN  r \in Seq(Nat) /\ Len(r) = n /\ \A i \in 1 .. n : r[i] = b + i
OBVIOUS

LEMMA ExtendFacts ==
    ASSUME NEW s \in Seq(Nat), NEW b \in Nat, NEW n \in Nat, b = Len(s),
           \A i \in 1 .. Len(s) : s[i] = i
    PROVE  LET w == s \o [i \in 1 .. n |-> b + i]
           IN  w \in Seq(Nat) /\ Len(w) = b + n /\ \A i \in 1 .. b + n : w[i] = i
<1> DEFINE r == [i \in 1 .. n |-> b + i]
<1>1. r \in Seq(Nat) /\ Len(r) = n /\ \A i \in 1 .. n : r[i] = b + i
    BY RunFacts
<1> HIDE DEF r
<1>2. /\ s \o r \in Seq(Nat) /\ Len(s \o r) = b + n
      /\ \A i \in 1 .. b : (s \o r)[i] = s[i]
      /\ \A i \in b + 1 .. b + n : (s \o r)[i] = r[i - b]
    BY <1>1, ConcatFacts, ZenonT(60)
<1>3. ASSUME NEW i \in 1 .. b + n PROVE (s \o r)[i] = i
  <2>1. CASE i <= b
    <3>1. i \in 1 .. b /\ s[i] = i
        BY <2>1
    <3> QED
        BY <1>2, <3>1
  <2>2. CASE i > b
    <3>1. i \in b + 1 .. b + n /\ i - b \in 1 .. n /\ b + (i - b) = i
        BY <2>2
    <3> QED
        BY <1>1, <1>2, <3>1
  <2>3. i <= b \/ i > b
      OBVIOUS
  <2> QED
      BY <2>1, <2>2, <2>3, Zenon
<1> QED
    BY <1>2, <1>3 DEF r

(* send(2) takes n bytes of the first chunk.                               *)
LEMMA WriteStep == IInv /\ Write => IInv'
<1> SUFFICES ASSUME IInv, Write PROVE IInv'
    OBVIOUS
<1> USE NumberAssumption DEF IInv
<1> DEFINE c == Head(queue)
<1>1. PICK n \in 1 .. c.len - c.off :
          /\ n <= room
          /\ room' = room - n
          /\ wire' = wire \o [i \in 1 .. n |-> c.first + c.off + i]
          /\ queued' = queued - n
          /\ queue' = IF c.off + n = c.len
                      THEN Tail(queue)
                      ELSE [queue EXCEPT ![1].off = @ + n]
    BY ZenonT(60) DEF Write
<1>a. /\ n <= room /\ room' = room - n /\ queued' = queued - n
      /\ wire' = wire \o [i \in 1 .. n |-> c.first + c.off + i]
    BY <1>1, Zenon
<1>b. /\ queue # <<>> /\ accepted' = accepted /\ Progress
      /\ UNCHANGED <<armed, registered, evict, lock, caller, epc, peer>>
    BY Zenon DEF Write
<1>2. /\ queue \in Seq(Chunks) /\ Len(queue) \in Nat \ {0}
      /\ c = queue[1] /\ 1 \in 1 .. Len(queue) /\ c \in Chunks
      /\ \A i \in 1 .. Len(queue) : queue[i] \in Chunks
    BY <1>b DEF TypeOK
<1>3. c.first \in Nat /\ c.len \in Nat /\ c.off \in Nat
    BY <1>2, Zenon DEF Chunks
<1> HIDE DEF c
<1>4. n \in Nat \ {0} /\ c.off + n <= c.len
    BY <1>3
<1>5. /\ accepted \in Nat /\ queued \in Nat /\ wire \in Seq(Nat) /\ Len(wire) \in Nat
      /\ queued = accepted - Len(wire) /\ queued <= HardLimit
      /\ c.first + c.len <= accepted /\ c.first + c.off = Len(wire)
    BY <1>b, <1>2 DEF TypeOK, ChunkInv
<1>6. PICK b \in Nat : b = c.first + c.off
    BY <1>3
<1>7. /\ wire' \in Seq(Nat) /\ Len(wire') = b + n
      /\ \A i \in 1 .. b + n : wire'[i] = i
  <2>1. wire' = wire \o [i \in 1 .. n |-> b + i]
      BY <1>a, <1>6, Zenon
  <2>2. b = Len(wire) /\ \A i \in 1 .. Len(wire) : wire[i] = i
      BY <1>5, <1>6 DEF StreamIntact
  <2> QED
      BY <1>4, <1>5, <2>1, <2>2, ExtendFacts
<1>c. wire' \in Seq(Nat) /\ Len(wire') = b + n /\ Len(wire) = b
    BY <1>5, <1>6, <1>7
<1>8. age' \in 0 .. MaxAge /\ quiet' \in 0 .. MaxAge /\ AgeInv'
    BY <1>b DEF TypeOK, AgeInv, Progress, MaxAge
<1>9. queued' \in Nat /\ queued' = accepted' - Len(wire') /\ queued' <= HardLimit
  <2>1. b + n <= accepted
      BY <1>3, <1>4, <1>5, <1>6, SMTT(40)
  <2>2. queued = accepted - b /\ queued' = queued - n /\ accepted' = accepted
      BY <1>a, <1>b, <1>c, <1>5, Zenon
  <2> QED
      BY <1>c, <1>4, <1>5, <2>1, <2>2
<1>10. ASSUME queue' \in Seq(Chunks), ChunkInv' PROVE IInv'
  <2>1. armed' \in BOOLEAN /\ registered' \in BOOLEAN /\ evict' \in BOOLEAN
      BY <1>b DEF TypeOK
  <2>2. room' \in 0 .. MaxRoom
      BY <1>a, <1>4 DEF TypeOK
  <2>3. TypeOK'
      BY <1>b, <1>c, <1>5, <1>8, <1>9, <1>10, <2>1, <2>2 DEF TypeOK
  <2>4. StreamIntact'
      BY <1>7 DEF StreamIntact
  <2> QED
      BY <1>8, <1>10, <2>3, <2>4
<1>11. CASE c.off + n = c.len
  <2>1. /\ queue' = Tail(queue) /\ queue' \in Seq(Chunks)
        /\ Len(queue') = Len(queue) - 1
        /\ \A i \in 1 .. Len(queue') : queue'[i] = queue[i + 1]
    <3>1. queue' = Tail(queue)
        BY <1>1, <1>11, Zenon
    <3> QED
        BY <1>b, <1>2, <3>1
  <2>2. Len(wire') = c.first + c.len
      BY <1>c, <1>3, <1>4, <1>6, <1>11, SMTT(30)
  <2>3. queue' # <<>> => queue'[1].first + queue'[1].off = Len(wire')
    <3> HAVE queue' # <<>>
    <3>1. 1 \in 1 .. Len(queue') /\ 2 \in 1 .. Len(queue)
        BY <1>2, <2>1
    <3>2. queue'[1] = queue[2] /\ queue[2] \in Chunks
        BY <1>2, <2>1, <3>1
    <3>3. queue[2].off = 0 /\ queue[2].first = queue[1].first + queue[1].len
        BY <1>2, <3>1 DEF ChunkInv
    <3> QED
        BY <1>2, <1>3, <2>2, <3>2, <3>3 DEF Chunks
  <2>4. queue' = <<>> => accepted' = Len(wire')
    <3> HAVE queue' = <<>>
    <3>1. Len(queue) = 1
        BY <1>2, <2>1
    <3>2. c.first + c.len = accepted
        BY <1>2, <3>1 DEF ChunkInv
    <3> QED
        BY <1>b, <2>2, <3>2
  <2>5. ASSUME NEW i \in 1 .. Len(queue')
        PROVE  /\ queue'[i].off < queue'[i].len
               /\ queue'[i].first + queue'[i].len <= accepted'
               /\ i = Len(queue') => queue'[i].first + queue'[i].len = accepted'
               /\ i > 1 => queue'[i].off = 0
    <3>1. i + 1 \in 1 .. Len(queue) /\ queue'[i] = queue[i + 1]
        BY <1>2, <2>1
    <3>2. Len(queue) \in Nat /\ Len(queue') = Len(queue) - 1
        BY <1>2, <2>1
    <3>3. i + 1 > 1 /\ (i = Len(queue') => i + 1 = Len(queue))
        BY <3>2
    <3> QED
        BY <1>b, <3>1, <3>3 DEF ChunkInv
  <2>6. ASSUME NEW i \in 1 .. Len(queue'), NEW k \in 1 .. Len(queue'), k = i + 1
        PROVE  queue'[k].first = queue'[i].first + queue'[i].len
    <3>1. /\ i + 1 \in 1 .. Len(queue) /\ queue'[i] = queue[i + 1]
          /\ k + 1 \in 1 .. Len(queue) /\ queue'[k] = queue[k + 1]
          /\ k + 1 = (i + 1) + 1
        BY <1>2, <2>1, <2>6
    <3> QED
        BY <3>1, SMTT(40) DEF ChunkInv
  <2> QED
      BY <1>9, <1>10, <2>1, <2>3, <2>4, <2>5, <2>6, Zenon DEF ChunkInv
<1>12. CASE c.off + n # c.len
  <2>1. queue' = [queue EXCEPT ![1] = [queue[1] EXCEPT !.off = @ + n]]
      BY <1>1, <1>12, Zenon
  <2>2. [queue[1] EXCEPT !.off = @ + n] \in Chunks
    <3>1. c.off + n \in Nat
        BY <1>3, <1>4
    <3> QED
        BY <1>2, <3>1, ZenonT(60) DEF Chunks
  <2>3. /\ queue' \in Seq(Chunks) /\ Len(queue') = Len(queue) /\ queue' # <<>>
        /\ \A i \in 1 .. Len(queue) : i # 1 => queue'[i] = queue[i]
        /\ queue'[1] = [queue[1] EXCEPT !.off = @ + n]
      BY <1>2, <2>1, <2>2
  <2>4. /\ queue'[1].first = c.first /\ queue'[1].len = c.len
        /\ queue'[1].off = c.off + n
      BY <1>2, <2>3 DEF Chunks
  <2>5. \A i \in 1 .. Len(queue) :
            queue'[i].first = queue[i].first /\ queue'[i].len = queue[i].len
      BY <1>2, <2>3, <2>4, ZenonT(60)
  <2>6. queue'[1].first + queue'[1].off = Len(wire')
      BY <1>c, <1>3, <1>4, <1>6, <2>4, SMTT(40)
  <2>7. ASSUME NEW i \in 1 .. Len(queue')
        PROVE  /\ queue'[i].off < queue'[i].len
               /\ queue'[i].first + queue'[i].len <= accepted'
               /\ i = Len(queue') => queue'[i].first + queue'[i].len = accepted'
               /\ i > 1 => queue'[i].off = 0
    <3>1. i \in 1 .. Len(queue) /\ accepted' = accepted
        BY <1>b, <2>3
    <3>2. queue'[i].off < queue'[i].len
      <4>1. CASE i = 1
          BY <1>3, <1>4, <1>12, <2>4, <4>1
      <4>2. CASE i # 1
          BY <2>3, <3>1, <4>2, Zenon DEF ChunkInv
      <4> QED
          BY <4>1, <4>2
    <3>3. i > 1 => queue'[i].off = 0
        BY <2>3, <3>1 DEF ChunkInv
    <3>4. /\ queue'[i].first + queue'[i].len <= accepted'
          /\ i = Len(queue') => queue'[i].first + queue'[i].len = accepted'
        BY <2>3, <2>5, <3>1, Zenon DEF ChunkInv
    <3> QED
        BY <3>2, <3>3, <3>4
  <2>8. ASSUME NEW i \in 1 .. Len(queue'), NEW k \in 1 .. Len(queue'), k = i + 1
        PROVE  queue'[k].first = queue'[i].first + queue'[i].len
      BY <2>3, <2>5, <2>8, SMTT(30) DEF ChunkInv
  <2> QED
      BY <1>9, <1>10, <2>3, <2>6, <2>7, <2>8, Zenon DEF ChunkInv
<1> QED
    BY <1>11, <1>12

-----------------------------------------------------------------------------
(* The other steps leave the chunks and the wire alone.                    *)
LEMMA FrameStep ==
    ASSUME IInv, UNCHANGED chunks, AgeInv',
           armed' \in BOOLEAN, registered' \in BOOLEAN, evict' \in BOOLEAN,
           age' \in 0 .. MaxAge, quiet' \in 0 .. MaxAge,
           lock' \in Threads \cup {Free}, caller' \in {"send", "flush"},
           epc' \in EpollPCs, room' \in 0 .. MaxRoom, peer' \in {"up", "gone"}
    PROVE  IInv'
<1> USE DEF IInv, chunks
<1>1. queue' = queue /\ queued' = queued /\ wire' = wire /\ accepted' = accepted
    OBVIOUS
<1>2. TypeOK'
    BY <1>1 DEF TypeOK
<1>3. ChunkInv'
    BY <1>1, Zenon DEF ChunkInv
<1>4. StreamIntact'
    BY <1>1 DEF StreamIntact
<1> QED
    BY <1>2, <1>3, <1>4

LEMMA NextIInv == IInv /\ [Next]_vars => IInv'
<1> SUFFICES ASSUME IInv, [Next]_vars PROVE IInv'
    OBVIOUS
<1> USE NumberAssumption, ThreadAssumption, CtlAssumption
<1>0. /\ TypeOK /\ AgeInv
      /\ armed \in BOOLEAN /\ registered \in BOOLEAN /\ evict \in BOOLEAN
    BY DEF IInv, TypeOK
<1>1. CASE \E t \in Threads, len \in Lens : bm_network_send(t, len)
  <2> PICK t \in Threads, len \in Lens : bm_network_send(t, len)
      BY <1>1
  <2>1. CASE SendAccepted(t, len)
      BY <2>1, SendStep
  <2>2. CASE SendRefused(t, len)
    <3>1. armed' \in BOOLEAN /\ registered' \in BOOLEAN /\ evict' \in BOOLEAN
        BY <1>0, <2>2 DEF SendRefused
    <3>2. /\ UNCHANGED <<chunks, age, quiet, lock, caller, epc, room, peer>>
        BY <2>2, Zenon DEF SendRefused, clocks, world
    <3> QED
        BY <1>0, <3>1, <3>2, FrameStep DEF TypeOK, AgeInv
  <2> QED
      BY <2>1, <2>2 DEF bm_network_send
<1>2. CASE Write
    BY <1>2, WriteStep
<1>3. CASE FlushDone
  <2>1. armed' \in BOOLEAN /\ registered' \in BOOLEAN /\ evict' \in BOOLEAN
      BY <1>0, <1>3, Zenon DEF FlushDone, update_out_interest_locked
  <2>2. /\ UNCHANGED <<chunks, age, quiet, caller, room, peer>>
        /\ lock' = Free /\ epc' \in {"in", epc}
      BY <1>3 DEF FlushDone, clocks, world
  <2> QED
      BY <1>0, <2>1, <2>2, FrameStep DEF TypeOK, AgeInv
<1>4. CASE FlushFailed
  <2>1. armed' \in BOOLEAN /\ registered' \in BOOLEAN /\ evict' \in BOOLEAN
      BY <1>0, <1>4, ZenonT(60) DEF FlushFailed
  <2>2. /\ UNCHANGED <<chunks, age, quiet, caller, room, peer>>
        /\ lock' = Free /\ epc' \in {"close", epc}
      BY <1>4 DEF FlushFailed, clocks, world
  <2> QED
      BY <1>0, <2>1, <2>2, FrameStep DEF TypeOK, AgeInv
<1>5. CASE bm_network_epoll_register
  <2>1. armed' \in BOOLEAN /\ registered' \in BOOLEAN /\ evict' \in BOOLEAN
      BY <1>0, <1>5 DEF bm_network_epoll_register
  <2>2. /\ UNCHANGED <<chunks, age, quiet, lock, caller, room, peer>>
        /\ epc' = "wait"
      BY <1>5 DEF bm_network_epoll_register, clocks, world
  <2> QED
      BY <1>0, <2>1, <2>2, FrameStep DEF TypeOK, AgeInv
<1>6. CASE EpollWait
  <2>1. armed' \in BOOLEAN /\ registered' \in BOOLEAN /\ evict' \in BOOLEAN
      BY <1>0, <1>6 DEF EpollWait
  <2>2. /\ UNCHANGED <<chunks, age, quiet, lock, caller, room, peer>>
        /\ epc' \in {"out", "in"}
      BY <1>6 DEF EpollWait, clocks, world
  <2> QED
      BY <1>0, <2>1, <2>2, FrameStep DEF TypeOK, AgeInv
<1>7. CASE bm_network_flush
  <2>1. armed' \in BOOLEAN /\ registered' \in BOOLEAN /\ evict' \in BOOLEAN
      BY <1>0, <1>7 DEF bm_network_flush
  <2>2. /\ UNCHANGED <<chunks, age, quiet, epc, room, peer>>
        /\ lock' = Epoll /\ caller' = "flush"
      BY <1>7 DEF bm_network_flush, clocks, world
  <2> QED
      BY <1>0, <2>1, <2>2, FrameStep, Zenon DEF TypeOK, AgeInv
<1>8. CASE ReadDone
  <2>1. armed' \in BOOLEAN /\ registered' \in BOOLEAN /\ evict' \in BOOLEAN
      BY <1>0, <1>8 DEF ReadDone
  <2>2. /\ UNCHANGED <<chunks, age, quiet, lock, caller, room, peer>>
        /\ epc' \in {"close", "sweep"}
      BY <1>8 DEF ReadDone, clocks, world
  <2> QED
      BY <1>0, <2>1, <2>2, FrameStep, Zenon DEF TypeOK, AgeInv
<1>9. CASE SweepEviction
  <2>1. armed' \in BOOLEAN /\ registered' \in BOOLEAN /\ evict' \in BOOLEAN
      BY <1>0, <1>9 DEF SweepEviction
  <2>2. /\ UNCHANGED <<chunks, age, quiet, lock, caller, room, peer>>
        /\ epc' \in {"close", "stall"}
      BY <1>9 DEF SweepEviction, clocks, world
  <2> QED
      BY <1>0, <2>1, <2>2, FrameStep, Zenon DEF TypeOK, AgeInv
<1>10. CASE SweepStalled
  <2>1. armed' \in BOOLEAN /\ registered' \in BOOLEAN /\ evict' \in BOOLEAN
      BY <1>0, <1>10 DEF SweepStalled
  <2>2. /\ UNCHANGED <<chunks, age, quiet, lock, caller, room, peer>>
        /\ epc' \in {"close", "post"}
      BY <1>10 DEF SweepStalled, clocks, world
  <2> QED
      BY <1>0, <2>1, <2>2, FrameStep, Zenon DEF TypeOK, AgeInv
<1>11. CASE SweepDone
  <2>1. armed' \in BOOLEAN /\ registered' \in BOOLEAN /\ evict' \in BOOLEAN
      BY <1>0, <1>11 DEF SweepDone
  <2>2. /\ UNCHANGED <<chunks, age, quiet, lock, caller, room, peer>>
        /\ epc' = "wait"
      BY <1>11 DEF SweepDone, clocks, world
  <2> QED
      BY <1>0, <2>1, <2>2, FrameStep DEF TypeOK, AgeInv
<1>12. CASE close_connection
  <2>1. armed' \in BOOLEAN /\ registered' \in BOOLEAN /\ evict' \in BOOLEAN
      BY <1>0, <1>12 DEF close_connection
  <2>2. /\ UNCHANGED <<chunks, age, quiet, lock, caller, room, peer>>
        /\ epc' = "closed"
      BY <1>12 DEF close_connection, clocks, world
  <2> QED
      BY <1>0, <2>1, <2>2, FrameStep, Zenon DEF TypeOK, AgeInv
<1>13. CASE Tick
  <2>1. armed' \in BOOLEAN /\ registered' \in BOOLEAN /\ evict' \in BOOLEAN
      BY <1>0, <1>13 DEF Tick
  <2>2. /\ UNCHANGED <<chunks, lock, caller, epc, room, peer>>
        /\ age' = (IF age < MaxAge THEN age + 1 ELSE age)
        /\ quiet' = (IF quiet < MaxAge THEN quiet + 1 ELSE quiet)
      BY <1>13 DEF Tick, clocks, world
  <2> QED
      BY <1>0, <2>1, <2>2, FrameStep DEF TypeOK, AgeInv, MaxAge
<1>14. CASE PeerReads
  <2>1. armed' \in BOOLEAN /\ registered' \in BOOLEAN /\ evict' \in BOOLEAN
      BY <1>0, <1>14 DEF PeerReads
  <2>2. /\ UNCHANGED <<chunks, age, quiet, lock, caller, epc, peer>>
        /\ room < MaxRoom /\ room' = room + 1
      BY <1>14 DEF PeerReads, clocks, world
  <2> QED
      BY <1>0, <2>1, <2>2, FrameStep DEF TypeOK, AgeInv
<1>15. CASE PeerGone
  <2>1. armed' \in BOOLEAN /\ registered' \in BOOLEAN /\ evict' \in BOOLEAN
      BY <1>0, <1>15 DEF PeerGone
  <2>2. /\ UNCHANGED <<chunks, age, quiet, lock, caller, epc, room>>
        /\ peer' = "gone"
      BY <1>15 DEF PeerGone, clocks, world
  <2> QED
      BY <1>0, <2>1, <2>2, FrameStep, Zenon DEF TypeOK, AgeInv
<1>16. CASE UNCHANGED vars
  <2>1. UNCHANGED <<chunks, age, quiet, lock, caller, epc, room, peer, armed,
                    registered, evict>>
      BY <1>16, Zenon DEF vars, chunks
  <2>2. armed' \in BOOLEAN /\ registered' \in BOOLEAN /\ evict' \in BOOLEAN
      BY <1>0, <2>1
  <2>3. UNCHANGED <<chunks, age, quiet, lock, caller, epc, room, peer>>
      BY <2>1, Zenon
  <2> QED
      BY <1>0, <2>2, <2>3, FrameStep DEF TypeOK, AgeInv
<1> QED
    BY <1>1, <1>2, <1>3, <1>4, <1>5, <1>6, <1>7, <1>8, <1>9, <1>10, <1>11, <1>12, <1>13,
       <1>14, <1>15, <1>16, Zenon
       DEF Next, FlushLocked, EpollThread

THEOREM AlwaysIInv == Spec => []IInv
    BY InitIInv, NextIInv, PTL DEF Spec

-----------------------------------------------------------------------------
(* Every variable keeps its type.                                          *)
THEOREM TypeCorrect == Spec => []TypeOK
<1>1. IInv => TypeOK
    BY DEF IInv
<1> QED
    BY <1>1, AlwaysIInv, PTL

(* The wire is the accepted stream: no byte out of place, whatever the     *)
(* senders and the partial writes.                                         *)
THEOREM StreamOrder == Spec => []StreamIntact
<1>1. IInv => StreamIntact
    BY DEF IInv
<1> QED
    BY <1>1, AlwaysIInv, PTL

(* send_queued_bytes counts exactly the bytes in the list, within the hard *)
(* limit, and is zero just when the list is empty.                         *)
THEOREM ExactCount == Spec => []QueuedExact
<1>1. IInv => QueuedExact
  <2> SUFFICES ASSUME IInv PROVE QueuedExact
      OBVIOUS
  <2> USE NumberAssumption DEF IInv
  <2>1. queue = <<>> => queued = 0
      BY DEF TypeOK, ChunkInv
  <2>2. queue # <<>> => queued # 0
    <3> HAVE queue # <<>>
    <3>1. 1 \in 1 .. Len(queue) /\ queue[1] \in Chunks
        BY DEF TypeOK
    <3>2. /\ queue[1].off < queue[1].len /\ queue[1].first + queue[1].len <= accepted
          /\ queue[1].first + queue[1].off = Len(wire) /\ queued = accepted - Len(wire)
        BY <3>1 DEF ChunkInv
    <3>3. /\ queue[1].first \in Nat /\ queue[1].len \in Nat /\ queue[1].off \in Nat
          /\ accepted \in Nat /\ Len(wire) \in Nat
        BY <3>1, SMTT(40) DEF TypeOK, Chunks
    <3> QED
        BY <3>2, <3>3
  <2> QED
      BY <2>1, <2>2, Zenon DEF QueuedExact, ChunkInv
<1> QED
    BY <1>1, AlwaysIInv, PTL

(* If epoll_ctl does not fail, EPOLLOUT is on just while there are bytes to*)
(* send, whenever the lock is free.                                        *)
THEOREM OutInterest ==
    ASSUME CtlOutcomes = {TRUE}
    PROVE  Spec => []ArmedWhenNeeded
<1>1. Init => ArmedWhenNeeded
    BY DEF Init, ArmedWhenNeeded
<1>2. ArmedWhenNeeded /\ TypeOK /\ [Next]_vars => ArmedWhenNeeded'
  <2> SUFFICES ASSUME ArmedWhenNeeded, TypeOK, [Next]_vars PROVE ArmedWhenNeeded'
      OBVIOUS
  <2> USE ThreadAssumption DEF ArmedWhenNeeded, chunks, world, clocks
  <2>1. ASSUME NEW t \in Threads, NEW len \in Lens, bm_network_send(t, len)
        PROVE  ArmedWhenNeeded'
      BY <2>1, Zenon DEF bm_network_send, SendAccepted, SendRefused
  <2>2. CASE Write
      BY <2>2, Zenon DEF Write
  <2>3. CASE FlushDone
      BY <2>3, Zenon DEF FlushDone, update_out_interest_locked
  <2>4. CASE FlushFailed
      BY <2>4, Zenon DEF FlushFailed
  <2>5. CASE bm_network_epoll_register
      BY <2>5, Zenon DEF bm_network_epoll_register
  <2>6. CASE \/ EpollWait \/ bm_network_flush \/ ReadDone \/ SweepEviction
             \/ SweepStalled \/ SweepDone \/ close_connection
      BY <2>6, ZenonT(60) DEF EpollWait, bm_network_flush, ReadDone, SweepEviction,
                  SweepStalled, SweepDone, close_connection
  <2>7. CASE Tick \/ PeerReads \/ PeerGone
      BY <2>7, Zenon DEF Tick, PeerReads, PeerGone
  <2>8. CASE UNCHANGED vars
      BY <2>8, Zenon DEF vars
  <2> QED
      BY <2>1, <2>2, <2>3, <2>4, <2>5, <2>6, <2>7, <2>8, Zenon
         DEF Next, FlushLocked, EpollThread
<1> QED
    BY <1>1, <1>2, TypeCorrect, PTL DEF Spec

(* The epoll thread waits in "out" for its own bm_network_flush.           *)
FlushInv == lock # Free /\ caller = "flush" => epc = "out"

LEMMA AlwaysFlushInv == Spec => []FlushInv
<1>1. Init => FlushInv
    BY DEF Init, FlushInv
<1>2. FlushInv /\ [Next]_vars => FlushInv'
  <2> SUFFICES ASSUME FlushInv, [Next]_vars PROVE FlushInv'
      OBVIOUS
  <2> USE ThreadAssumption DEF FlushInv, chunks, world, clocks
  <2>1. ASSUME NEW t \in Threads, NEW len \in Lens, bm_network_send(t, len)
        PROVE  FlushInv'
      BY <2>1 DEF bm_network_send, SendAccepted, SendRefused
  <2>2. CASE FlushLocked
      BY <2>2 DEF FlushLocked, Write, FlushDone, FlushFailed
  <2>3. CASE EpollThread
      BY <2>3, Zenon DEF EpollThread, bm_network_epoll_register, EpollWait,
                  bm_network_flush, ReadDone, SweepEviction, SweepStalled,
                  SweepDone, close_connection
  <2>4. CASE Tick \/ PeerReads \/ PeerGone
      BY <2>4 DEF Tick, PeerReads, PeerGone
  <2>5. CASE UNCHANGED vars
      BY <2>5 DEF vars
  <2> QED
      BY <2>1, <2>2, <2>3, <2>4, <2>5, Zenon DEF Next
<1> QED
    BY <1>1, <1>2, PTL DEF Spec

(* A connection is closed as stalled only after Stall - Lag seconds        *)
(* without progress.                                                       *)
THEOREM NoHastyClose == Spec => SlowPeerSurvives
<1>1. IInv /\ FlushInv /\ [Next]_vars
        => [epc = "stall" /\ epc' = "close" => quiet > Stall - Lag]_vars
  <2> SUFFICES ASSUME IInv, FlushInv, Next, epc = "stall", epc' = "close"
               PROVE  quiet > Stall - Lag
      BY Zenon
  <2> USE NumberAssumption, ThreadAssumption
  <2>1. SweepStalled
    <3>1. ASSUME NEW t \in Threads, NEW len \in Lens, bm_network_send(t, len)
          PROVE  FALSE
        BY <3>1 DEF bm_network_send, SendAccepted, SendRefused
    <3>2. ~FlushLocked
      <4>1. ~Write
          BY DEF Write
      <4>2. ~FlushDone
          BY DEF FlushDone
      <4>3. ~FlushFailed
          BY DEF FlushFailed, FlushInv, IInv, TypeOK
      <4> QED
          BY <4>1, <4>2, <4>3 DEF FlushLocked
    <3>3. EpollThread => SweepStalled
        BY Zenon DEF EpollThread, bm_network_epoll_register, EpollWait, ReadDone,
               bm_network_flush, SweepEviction, SweepDone, close_connection
    <3>4. ~Tick /\ ~PeerReads /\ ~PeerGone
        BY DEF Tick, PeerReads, PeerGone
    <3> QED
        BY <3>1, <3>2, <3>3, <3>4, Zenon DEF Next
  <2>2. PICK d \in 0 .. Lag : send_stalled(d)
      BY <2>1 DEF SweepStalled
  <2>3. age > Stall /\ age \in Nat /\ quiet \in Nat
      BY <2>2 DEF send_stalled, IInv, TypeOK, MaxAge
  <2> QED
      BY <2>3 DEF IInv, AgeInv
<1> QED
    BY <1>1, AlwaysIInv, AlwaysFlushInv, PTL DEF Spec, SlowPeerSurvives

HIDE DEF Threads, EpollPCs

-----------------------------------------------------------------------------
(* Daemon.  StopInv follows the shutdown through its steps: who is joined, *)
(* what is closed and what may be left in the queue at each of them.       *)
(* OnionInv follows the key of the onion service from Tor to the disk.     *)

DInv == DaemonTypeOK /\ StopInv /\ OnionInv

(* What a push and a pop do to the messages of the queue.                  *)
LEMMA PushFacts ==
    ASSUME NEW S, NEW q \in Seq(S), NEW m \in S
    PROVE  /\ Append(q, m) \in Seq(S)
           /\ \E i \in 1 .. Len(Append(q, m)) : Append(q, m)[i] = m
           /\ \A k \in 1 .. Len(q) : \E i \in 1 .. Len(Append(q, m)) : Append(q, m)[i] = q[k]
<1>1. Len(Append(q, m)) = Len(q) + 1 /\ Len(q) \in Nat
    OBVIOUS
<1>2. Append(q, m)[Len(q) + 1] = m /\ \A k \in 1 .. Len(q) : Append(q, m)[k] = q[k]
    OBVIOUS
<1>3. \A k \in 1 .. Len(q) : k \in 1 .. Len(Append(q, m))
    BY <1>1
<1> QED
    BY <1>1, <1>2, <1>3

LEMMA PopFacts ==
    ASSUME NEW S, NEW q \in Seq(S), q # <<>>
    PROVE  /\ Head(q) \in S /\ Tail(q) \in Seq(S)
           /\ \A k \in 1 .. Len(q) :
                 q[k] = Head(q) \/ \E i \in 1 .. Len(Tail(q)) : Tail(q)[i] = q[k]
<1>1. /\ Len(q) \in Nat \ {0} /\ Len(Tail(q)) = Len(q) - 1 /\ Head(q) = q[1]
      /\ Tail(q) \in Seq(S) /\ Head(q) \in S
      /\ \A i \in 1 .. Len(Tail(q)) : Tail(q)[i] = q[i + 1]
    OBVIOUS
<1>2. \A k \in 1 .. Len(q) : k # 1 => /\ k - 1 \in 1 .. Len(Tail(q))
                                      /\ Tail(q)[k - 1] = q[k]
    BY <1>1
<1> QED
    BY <1>1, <1>2

(* A step that gives no message to the queue or to the publisher, and      *)
(* takes none from them.                                                   *)
LEMMA WayKept ==
    ASSUME OnTheWay, UNCHANGED <<toPublish, hand>>,
           \A m \in Msgs : sent'[m] \in {"queued", "hand"} => sent'[m] = sent[m]
    PROVE  OnTheWay'
BY DEF OnTheWay

LEMMA DInit == DaemonInit => DInv
<1> SUFFICES ASSUME DaemonInit PROVE DInv
    OBVIOUS
<1>1. DaemonTypeOK
  <2>1. toPublish \in Seq(Msgs)
      BY DEF DaemonInit
  <2> QED
      BY <2>1, KeyAssumption, Zenon DEF DaemonInit, DaemonTypeOK, Stages
<1>2. StopInv
    BY DEF DaemonInit, StopInv, OnTheWay, Torn, Joined, NoApi, NoPublisher, Closed,
       NoWorker, Up
<1>3. OnionInv
    BY KeyAssumption DEF DaemonInit, OnionInv, OnionIsKept, Torn, Joined, NoApi,
       NoPublisher, Closed,
                         NoWorker, Up
<1> QED
    BY <1>1, <1>2, <1>3 DEF DInv

LEMMA EndStep == ASSUME DInv, End PROVE DInv'
<1>1. DaemonTypeOK'
  <2>1. toPublish' \in Seq(Msgs)
      BY DEF End
  <2>2. sent' \in [Msgs -> Stages]
      BY Zenon DEF End, DInv, DaemonTypeOK, Stages
  <2> QED
      BY <2>1, <2>2, KeyAssumption, Zenon DEF End, DInv, DaemonTypeOK
<1>2. StopInv'
  <2>1. \A m \in Msgs : sent'[m] \notin {"queued", "hand"}
      BY Zenon DEF End, DInv, DaemonTypeOK, Stages
  <2> QED
      BY <2>1, Zenon DEF End, StopInv, OnTheWay, Torn, Joined, NoApi, NoPublisher, Closed,
         NoWorker, Up
<1>3. OnionInv'
    BY KeyAssumption, Zenon DEF End, DInv, OnionInv, OnionIsKept, Torn, Joined, NoApi,
       NoPublisher,
                         Closed, NoWorker, Up
<1> QED
    BY <1>1, <1>2, <1>3 DEF DInv

USE DEF disk, setup, http, threads, work, Goto

Boots ==
    \/ \E r, b : TorProtocolInfo(r, b) \/ TorAuthenticate(r) \/ bm_tor_control_add_onion(r)
    \/ \E ok, b : TorConnect(ok, b)
    \/ \E r : UseManualOnion(r)
    \/ \E ok \in BOOLEAN : bm_network_listen(ok)
    \/ NoOnion \/ LoadConfig
    \/ bm_config_store_set_tor_onion_key \/ bm_peer_manager_mark_self

(* Main, before all threads run: what a step changes is its own.           *)
LEMMA BootStep == ASSUME DInv, Boots PROVE DInv'
<1> USE KeyAssumption, SettingsAssumption
<1>1. /\ UNCHANGED <<sent, announced, signal, threads, work, stop, gone>>
      /\ pc \notin Up \cup {"connector", "off"} /\ pc' \notin Up \cup {"connector", "off"}
    BY Zenon DEF Boots, TorProtocolInfo, TorAuthenticate, bm_tor_control_add_onion,
       TorConnect,
           TorStep, UseManualOnion, bm_network_listen, NoOnion, LoadConfig,
           bm_config_store_set_tor_onion_key, bm_peer_manager_mark_self,
           Torn, Joined, NoApi, NoPublisher, Closed, NoWorker, Up
<1>2. StopInv'
  <2>1. OnTheWay'
      BY <1>1, WayKept, Zenon DEF DInv, StopInv
  <2> QED
      BY <1>1, <2>1, Zenon DEF DInv, StopInv, Torn, Joined, NoApi, NoPublisher, Closed,
         NoWorker, Up
<1>3. CASE bm_config_store_set_tor_onion_key
    BY <1>1, <1>2, <1>3 DEF DInv, DaemonTypeOK, OnionInv, OnionIsKept,
       bm_config_store_set_tor_onion_key
<1>4. CASE bm_peer_manager_mark_self
    BY <1>1, <1>2, <1>4 DEF DInv, DaemonTypeOK, OnionInv, OnionIsKept,
       bm_peer_manager_mark_self
<1>5. ASSUME NEW r, bm_tor_control_add_onion(r) PROVE DInv'
    BY <1>1, <1>2, <1>5 DEF DInv, DaemonTypeOK, OnionInv, OnionIsKept,
       bm_tor_control_add_onion, StoredKey
<1>6. ASSUME NEW r, UseManualOnion(r) PROVE DInv'
    BY <1>1, <1>2, <1>6 DEF DInv, DaemonTypeOK, OnionInv, OnionIsKept, UseManualOnion
<1>7. ASSUME NEW ok \in BOOLEAN, bm_network_listen(ok) PROVE DInv'
    BY <1>1, <1>2, <1>7 DEF DInv, DaemonTypeOK, OnionInv, OnionIsKept, bm_network_listen
<1>8. CASE LoadConfig \/ NoOnion
    BY <1>1, <1>2, <1>8 DEF DInv, DaemonTypeOK, OnionInv, OnionIsKept, LoadConfig, NoOnion
<1>9. ASSUME NEW r, NEW b, TorProtocolInfo(r, b) \/ TorAuthenticate(r) \/ TorConnect(r, b)
      PROVE  DInv'
  <2>1. UNCHANGED <<disk, setup>> /\ pc' \notin {"save_key", "mark_self"} /\ pc # "save_key"
      BY <1>9, Zenon DEF TorProtocolInfo, TorAuthenticate, TorConnect, TorStep
  <2>2. DaemonTypeOK'
      BY <1>1, <2>1 DEF DInv, DaemonTypeOK
  <2>3. OnionInv'
      BY <1>1, <2>1, Zenon DEF DInv, OnionInv, OnionIsKept
  <2> QED
      BY <1>2, <2>2, <2>3 DEF DInv
<1> QED
    BY <1>3, <1>4, <1>5, <1>6, <1>7, <1>8, <1>9, Zenon DEF Boots

(* Main starts the process and its threads.                                *)
LEMMA LaunchStep ==
    ASSUME DInv, \/ Start \/ StartRest \/ \E ok : open_and_init(ok) \/ bm_pow_queue_init(ok)
                 \/ \E ok, b : StartApi(ok, b)
    PROVE  DInv'
<1> USE DEF Torn, Joined, NoApi, NoPublisher, Closed, NoWorker, Up
<1>1. CASE End
    BY <1>1, EndStep
<1>2. CASE ~ End
  <2>1. /\ UNCHANGED <<disk, setup, signal, work, stop, gone, busy, asleep, http>>
        /\ alive \subseteq alive' /\ alive' \subseteq DaemonThreads
      BY <1>2, Zenon DEF Start, StartRest, open_and_init, bm_pow_queue_init, StartApi,
         StartThread,
                  DaemonThreads, DInv, DaemonTypeOK
  <2>2. /\ pc \notin Up /\ pc \notin {"save_key", "add_onion", "mark_self"}
        /\ pc' \notin Up \ {"sigwait"} /\ pc' \notin {"save_key", "mark_self"}
        /\ pc' = "sigwait" => pc = "connector"
        /\ pc' = "connector" => "publisher" \in alive'
        /\ pc' # "sigwait" => ("connector" \in alive' => "connector" \in alive)
        /\ "http" \in alive' => "api" \in alive' \/ "http" \in alive
      BY <1>2 DEF Start, StartRest, open_and_init, bm_pow_queue_init, StartApi, StartThread
  <2>3. DaemonTypeOK'
      BY <2>1 DEF DInv, DaemonTypeOK
  <2>4. StopInv'
    <3>1. OnTheWay'
        BY <2>1, WayKept, Zenon DEF DInv, StopInv
    <3> QED
        BY <2>1, <2>2, <3>1, Zenon DEF DInv, StopInv
  <2>5. OnionInv'
      BY <2>1, <2>2, Zenon DEF DInv, OnionInv, OnionIsKept
  <2> QED
      BY <2>3, <2>4, <2>5 DEF DInv
<1> QED
    BY <1>1, <1>2

(* Threads enter and leave operations that hand nothing over, and end.     *)
LEMMA ThreadStep ==
    ASSUME DInv, \/ \E t \in {"http", "connector"} : Enter(t) \/ Leave(t)
                 \/ ApiThreadEnds \/ ConnectorThreadEnds
                 \/ bm_object_sync_maybe_reannounce_onion_peer
                 \/ \E a : bm_peer_manager_cleanup(a)
                 \/ \E m \in Msgs : ApiSend(m) \/ finish_async_response(m)
                 \/ Signal
    PROVE  DInv'
<1> USE DEF Torn, Joined, NoApi, NoPublisher, Closed, NoWorker, Up
<1>1. ASSUME NEW t \in {"http", "connector"}, Enter(t) \/ Leave(t) PROVE DInv'
  <2>1. DaemonTypeOK'
      BY <1>1 DEF Enter, Leave, DInv, DaemonTypeOK
  <2>2. OnTheWay'
      BY <1>1, WayKept, Zenon DEF Enter, Leave, DInv, StopInv
  <2>3. StopInv'
    <3>1. CASE Enter(t)
        BY <1>1, <2>2, <3>1, Zenon DEF Enter, DInv, StopInv, DaemonTypeOK
    <3>2. CASE Leave(t)
        BY <1>1, <2>2, <3>2, Zenon DEF Leave, DInv, StopInv, DaemonTypeOK
    <3> QED
        BY <1>1, <3>1, <3>2
  <2>4. OnionInv'
      BY <1>1, Zenon DEF Enter, Leave, DInv, OnionInv, OnionIsKept
  <2> QED
      BY <2>1, <2>3, <2>4 DEF DInv
<1>2. CASE ApiThreadEnds \/ ConnectorThreadEnds \/ Signal
  <2>1. DaemonTypeOK'
    <3>1. /\ UNCHANGED <<disk, setup, busy, asleep, suspended, work, stop, gone>>
          /\ alive' \subseteq alive /\ busy \subseteq alive'
          /\ signal' \in BOOLEAN /\ still_suspended' \in BOOLEAN
        BY <1>2 DEF ApiThreadEnds, ConnectorThreadEnds, Signal, DInv, DaemonTypeOK, StopInv
    <3> QED
        BY <3>1 DEF DInv, DaemonTypeOK
  <2>2. OnTheWay'
      BY <1>2, WayKept, Zenon DEF ApiThreadEnds, ConnectorThreadEnds, Signal, DInv, StopInv
  <2>3. StopInv'
    <3>1. CASE ApiThreadEnds
        BY <2>2, <3>1, Zenon DEF ApiThreadEnds, DInv, StopInv, DaemonTypeOK
    <3>2. CASE ConnectorThreadEnds
        BY <2>2, <3>2, Zenon DEF ConnectorThreadEnds, DInv, StopInv, DaemonTypeOK
    <3>3. CASE Signal
        BY <2>2, <3>3, Zenon DEF Signal, DInv, StopInv
    <3> QED
        BY <1>2, <3>1, <3>2, <3>3
  <2>4. OnionInv'
      BY <1>2, Zenon DEF ApiThreadEnds, ConnectorThreadEnds, Signal, DInv, OnionInv,
         OnionIsKept
  <2> QED
      BY <2>1, <2>3, <2>4 DEF DInv
<1>3. CASE bm_object_sync_maybe_reannounce_onion_peer
  <2>1. DaemonTypeOK'
      BY <1>3 DEF bm_object_sync_maybe_reannounce_onion_peer, bm_pow_queue_submit, DInv,
         DaemonTypeOK
  <2>2. OnTheWay'
      BY <1>3, WayKept, Zenon DEF bm_object_sync_maybe_reannounce_onion_peer,
         bm_pow_queue_submit, DInv, StopInv
  <2>3. StopInv'
      BY <1>3, <2>2, Zenon DEF bm_object_sync_maybe_reannounce_onion_peer,
         bm_pow_queue_submit, DInv, StopInv, DaemonTypeOK
  <2>4. OnionInv'
      BY <1>3, Zenon DEF bm_object_sync_maybe_reannounce_onion_peer, bm_pow_queue_submit,
         DInv, OnionInv,
                  OnionIsKept, DaemonTypeOK
  <2> QED
      BY <2>1, <2>3, <2>4 DEF DInv
<1>4. ASSUME NEW a, bm_peer_manager_cleanup(a) PROVE DInv'
  <2>1. DaemonTypeOK'
      BY <1>4 DEF bm_peer_manager_cleanup, DInv, DaemonTypeOK
  <2>2. OnTheWay'
      BY <1>4, WayKept, Zenon DEF bm_peer_manager_cleanup, DInv, StopInv
  <2>3. StopInv'
      BY <1>4, <2>2, Zenon DEF bm_peer_manager_cleanup, DInv, StopInv, DaemonTypeOK
  <2>4. OnionInv'
      BY <1>4, Zenon DEF bm_peer_manager_cleanup, DInv, OnionInv, OnionIsKept
  <2> QED
      BY <2>1, <2>3, <2>4 DEF DInv
<1>5. ASSUME NEW m \in Msgs, ApiSend(m) PROVE DInv'
  <2>1. /\ sent' \in [Msgs -> Stages] /\ jobs' \subseteq Msgs \cup {"onion"}
        /\ \A x \in Msgs : sent'[x] \in {"queued", "hand"} => sent'[x] = sent[x]
        /\ "onion" \in jobs' => "onion" \in jobs
        /\ suspended' \subseteq Msgs
      BY <1>5, KeyAssumption, Zenon DEF ApiSend, bm_pow_queue_submit, DInv, DaemonTypeOK,
         Stages
  <2>2. UNCHANGED <<key, self, announced, pc, setup, signal, alive, busy, asleep,
                    still_suspended, toPublish, closed, hand, cur, refusing, stop, gone>>
      BY <1>5, Zenon DEF ApiSend
  <2>3. DaemonTypeOK'
      BY <2>1, <2>2 DEF DInv, DaemonTypeOK
  <2>4. StopInv'
    <3>1. OnTheWay'
        BY <2>1, <2>2, WayKept, Zenon DEF DInv, StopInv
    <3> QED
        BY <2>2, <3>1, Zenon DEF DInv, StopInv
  <2>5. OnionInv'
      BY <2>1, <2>2, Zenon DEF DInv, OnionInv, OnionIsKept
  <2> QED
      BY <2>3, <2>4, <2>5 DEF DInv
<1>6. ASSUME NEW m \in Msgs, finish_async_response(m) PROVE DInv'
  <2>1. /\ UNCHANGED <<disk, pc, setup, signal, alive, busy, asleep, still_suspended, work,
                       stop, gone>>
        /\ suspended' \subseteq suspended
      BY <1>6, Zenon DEF finish_async_response
  <2>2. DaemonTypeOK'
      BY <2>1 DEF DInv, DaemonTypeOK
  <2>3. OnTheWay'
      BY <2>1, WayKept, Zenon DEF DInv, StopInv
  <2>4. StopInv'
      BY <2>1, <2>3, Zenon DEF DInv, StopInv
  <2>5. OnionInv'
      BY <2>1, Zenon DEF DInv, OnionInv, OnionIsKept
  <2> QED
      BY <2>2, <2>4, <2>5 DEF DInv
<1> QED
    BY <1>1, <1>2, <1>3, <1>4, <1>5, <1>6

(* The worker and the publisher: a message goes from hand to hand.         *)
LEMMA WorkStep ==
    ASSUME DInv, \/ \E j \in Msgs \cup {"onion"} : WorkerFound(j)
                 \/ api_send_done \/ onionpeer_done
                 \/ bm_queue_pop \/ bm_object_sync_broadcast_thread
    PROVE  DInv'
<1> USE KeyAssumption DEF Torn, Joined, NoApi, NoPublisher, Closed, NoWorker, Up
<1>1. ASSUME NEW j \in Msgs \cup {"onion"}, WorkerFound(j) PROVE DInv'
  <2>1. DaemonTypeOK'
      BY <1>1 DEF WorkerFound, DInv, DaemonTypeOK, DaemonThreads
  <2>2. OnTheWay'
      BY <1>1, WayKept, Zenon DEF WorkerFound, DInv, StopInv
  <2>3. StopInv'
      BY <1>1, <2>2, Zenon DEF WorkerFound, DInv, StopInv, DaemonTypeOK
  <2>4. OnionInv'
      BY <1>1, Zenon DEF WorkerFound, DInv, OnionInv, OnionIsKept
  <2> QED
      BY <2>1, <2>3, <2>4, Zenon DEF DInv
<1>2. CASE api_send_done
  <2>1. /\ cur \in Msgs /\ toPublish' = Append(toPublish, cur) /\ toPublish \in Seq(Msgs)
        /\ cur' = Nil /\ busy' = busy \ {"worker"} /\ asleep' = FALSE
        /\ sent' = [sent EXCEPT ![cur] = "queued"]
        /\ UNCHANGED <<key, self, announced, pc, setup, signal, alive, http, closed, hand,
                       jobs, refusing, stop, gone>>
      BY <1>2, Zenon DEF api_send_done, bm_queue_push, DInv, DaemonTypeOK
  <2>2. "worker" \in alive /\ pc \notin NoWorker /\ ~ closed
      BY <2>1, Zenon DEF DInv, StopInv, DaemonTypeOK
  <2>3. DaemonTypeOK'
    <3>1. toPublish' \in Seq(Msgs) /\ sent' \in [Msgs -> Stages]
        BY <2>1, PushFacts, Zenon DEF DInv, DaemonTypeOK, Stages
    <3> QED
        BY <2>1, <3>1, Zenon DEF DInv, DaemonTypeOK
  <2>4. OnTheWay'
    <3> SUFFICES ASSUME NEW m \in Msgs
                 PROVE  /\ sent'[m] = "queued" => \E i \in 1 .. Len(toPublish') : toPublish'[i] = m
                        /\ sent'[m] = "hand" => hand' = m
        BY DEF OnTheWay
    <3>1. CASE m = cur
      <4>1. sent'[m] = "queued"
          BY <2>1, <3>1, Zenon DEF DInv, DaemonTypeOK
      <4>2. \E i \in 1 .. Len(Append(toPublish, cur)) : Append(toPublish, cur)[i] = cur
        <5>1. toPublish \in Seq(Msgs) /\ cur \in Msgs
            BY <2>1, Zenon
        <5> QED
            BY <5>1, PushFacts
      <4>3. \E i \in 1 .. Len(toPublish') : toPublish'[i] = m
          BY <2>1, <3>1, <4>2, Zenon
      <4> QED
          BY <4>1, <4>3, Zenon
    <3>2. CASE m # cur
      <4>1. sent'[m] = sent[m] /\ hand' = hand
          BY <2>1, <3>2, Zenon DEF DInv, DaemonTypeOK
      <4>2. /\ sent[m] = "queued" => \E i \in 1 .. Len(toPublish) : toPublish[i] = m
            /\ sent[m] = "hand" => hand = m
          BY Zenon DEF DInv, StopInv, OnTheWay
      <4> QED
          BY <2>1, <4>1, <4>2, PushFacts
    <3> QED
        BY <3>1, <3>2, Zenon
  <2>5. StopInv'
      BY <2>1, <2>2, <2>4, Zenon DEF DInv, StopInv
  <2>6. OnionInv'
      BY <2>1, Zenon DEF DInv, OnionInv, OnionIsKept
  <2> QED
      BY <2>3, <2>5, <2>6 DEF DInv
<1>3. CASE onionpeer_done
  <2>1. pc \in Up /\ onion \in {key, "manual"} /\ onion # Nil
      BY <1>3, Zenon DEF onionpeer_done, DInv, OnionInv
  <2>2. DaemonTypeOK'
      BY <1>3, <2>1 DEF onionpeer_done, DInv, DaemonTypeOK
  <2>3. OnTheWay'
      BY <1>3, WayKept, Zenon DEF onionpeer_done, DInv, StopInv
  <2>4. StopInv'
      BY <1>3, <2>3, Zenon DEF onionpeer_done, DInv, StopInv, DaemonTypeOK
  <2>5. OnionInv'
      BY <1>3, <2>1, Zenon DEF onionpeer_done, DInv, OnionInv, OnionIsKept
  <2> QED
      BY <2>2, <2>4, <2>5 DEF DInv
<1>4. CASE bm_queue_pop
  <2>1. UNCHANGED <<key, self, announced, pc, setup, signal, http, closed, jobs, cur,
                    refusing, stop, gone>> /\ "publisher" \in alive \ busy
      BY <1>4, Zenon DEF bm_queue_pop
  <2>2. OnionInv'
      BY <1>4, <2>1, Zenon DEF bm_queue_pop, DInv, OnionInv, OnionIsKept
  <2>3. CASE toPublish # <<>>
    <3>1. /\ toPublish # <<>> /\ busy' = busy \cup {"publisher"} /\ hand' = Head(toPublish)
          /\ toPublish' = Tail(toPublish) /\ sent' = [sent EXCEPT ![Head(toPublish)] = "hand"]
          /\ UNCHANGED <<alive, asleep>> /\ toPublish \in Seq(Msgs)
        BY <1>4, <2>3, Zenon DEF bm_queue_pop, DInv, DaemonTypeOK
    <3>2. DaemonTypeOK'
      <4>1. toPublish' \in Seq(Msgs) /\ hand' \in Msgs /\ sent' \in [Msgs -> Stages]
          BY <3>1, PopFacts, Zenon DEF DInv, DaemonTypeOK, Stages
      <4> QED
          BY <2>1, <3>1, <4>1, ZenonT(60) DEF DInv, DaemonTypeOK
    <3>3. hand = Nil /\ hand' \in Msgs
        BY <2>1, <3>1, PopFacts, Zenon DEF DInv, StopInv
    <3>4. OnTheWay'
      <4> SUFFICES ASSUME NEW m \in Msgs
                   PROVE  /\ sent'[m] = "queued" => \E i \in 1 .. Len(toPublish') : toPublish'[i] = m
                          /\ sent'[m] = "hand" => hand' = m
          BY DEF OnTheWay
      <4>1. CASE m = Head(toPublish)
          BY <3>1, <4>1, Zenon DEF DInv, DaemonTypeOK
      <4>2. CASE m # Head(toPublish)
        <5>1. sent'[m] = sent[m]
            BY <3>1, <4>2, Zenon DEF DInv, DaemonTypeOK
        <5>2. sent[m] # "hand"
            BY <3>3, KeyAssumption, Zenon DEF DInv, StopInv, OnTheWay
        <5>3. sent[m] = "queued" => \E i \in 1 .. Len(Tail(toPublish)) : Tail(toPublish)[i] = m
          <6>1. sent[m] = "queued" => \E i \in 1 .. Len(toPublish) : toPublish[i] = m
              BY Zenon DEF DInv, StopInv, OnTheWay
          <6> QED
              BY <3>1, <4>2, <6>1, PopFacts
        <5> QED
            BY <3>1, <5>1, <5>2, <5>3, Zenon
      <4> QED
          BY <4>1, <4>2, Zenon
    <3>5. StopInv'
      <4>1. "publisher" \in alive' /\ hand' # Nil /\ hand = Nil
          BY <2>1, <3>1, <3>3, KeyAssumption, Zenon
      <4> QED
          BY <2>1, <3>1, <3>4, <4>1, Zenon DEF DInv, StopInv
    <3> QED
        BY <2>2, <3>2, <3>5, Zenon DEF DInv
  <2>4. CASE toPublish = <<>>
    <3>1. /\ UNCHANGED <<busy, hand, toPublish, sent>> /\ alive' \subseteq alive
          /\ alive \subseteq alive' \cup {"publisher"} /\ asleep' \in BOOLEAN
          /\ alive' # alive => closed
        BY <1>4, <2>4, Zenon DEF bm_queue_pop, DInv, DaemonTypeOK
    <3>2. DaemonTypeOK'
        BY <2>1, <3>1 DEF DInv, DaemonTypeOK
    <3>3. StopInv'
      <4>1. OnTheWay'
          BY <3>1, WayKept, Zenon DEF DInv, StopInv
      <4> QED
          BY <2>1, <2>4, <3>1, <4>1, Zenon DEF DInv, StopInv
    <3> QED
        BY <2>2, <3>2, <3>3 DEF DInv
  <2> QED
      BY <2>3, <2>4
<1>5. CASE bm_object_sync_broadcast_thread
  <2>1. /\ hand \in Msgs /\ hand' = Nil /\ busy' = busy \ {"publisher"}
        /\ sent' = [sent EXCEPT ![hand] = "kept"]
        /\ UNCHANGED <<key, self, announced, pc, setup, signal, alive, asleep, http,
                       toPublish, closed, jobs, cur, refusing, stop, gone>>
      BY <1>5, Zenon DEF bm_object_sync_broadcast_thread, DInv, DaemonTypeOK
  <2>2. DaemonTypeOK'
    <3>1. sent' \in [Msgs -> Stages]
        BY <2>1, Zenon DEF DInv, DaemonTypeOK, Stages
    <3> QED
        BY <2>1, <3>1, ZenonT(60) DEF DInv, DaemonTypeOK
  <2>3. OnionInv'
      BY <2>1, Zenon DEF DInv, OnionInv, OnionIsKept
  <2>4. OnTheWay'
    <3>1. \A m \in Msgs : /\ sent'[m] = "queued" => sent[m] = "queued"
                          /\ sent'[m] # "hand"
        BY <2>1 DEF DInv, DaemonTypeOK, StopInv, OnTheWay
    <3> QED
        BY <2>1, <3>1, Zenon DEF DInv, StopInv, OnTheWay
  <2>5. StopInv'
      BY <2>1, <2>4, Zenon DEF DInv, StopInv
  <2> QED
      BY <2>2, <2>3, <2>5, Zenon DEF DInv
<1> QED
    BY <1>1, <1>2, <1>3, <1>4, <1>5

(* Main stops the threads one after the other and then destroys what they  *)
(* have used.                                                              *)
LEMMA StopStep ==
    ASSUME DInv, \/ sigwait \/ bm_pow_queue_shutdown \/ JoinWorker \/ queues_shutdown
                 \/ StopFlags \/ Joins \/ Destroys \/ sqlite3_close
    PROVE  DInv'
<1> USE DEF Torn, Joined, NoApi, NoPublisher, Closed, NoWorker, Up
<1>1. CASE sigwait \/ bm_pow_queue_shutdown \/ queues_shutdown \/ StopFlags
  <2>1. DaemonTypeOK'
      BY <1>1, Zenon DEF sigwait, bm_pow_queue_shutdown, queues_shutdown,
         bm_queue_shutdown, StopFlags, DInv, DaemonTypeOK
  <2>2. OnTheWay'
      BY <1>1, WayKept, Zenon DEF sigwait, bm_pow_queue_shutdown, queues_shutdown,
         bm_queue_shutdown, StopFlags, DInv, StopInv
  <2>3. StopInv'
    <3>1. CASE sigwait
        BY <2>2, <3>1, Zenon DEF sigwait, DInv, StopInv
    <3>2. CASE bm_pow_queue_shutdown
        BY <2>2, <3>2, Zenon DEF bm_pow_queue_shutdown, DInv, StopInv
    <3>3. CASE queues_shutdown
        BY <2>2, <3>3, Zenon DEF queues_shutdown, bm_queue_shutdown, DInv, StopInv
    <3>4. CASE StopFlags
        BY <2>2, <3>4, Zenon DEF StopFlags, DInv, StopInv
    <3> QED
        BY <1>1, <3>1, <3>2, <3>3, <3>4, Zenon
  <2>4. OnionInv'
      BY <1>1, Zenon DEF sigwait, bm_pow_queue_shutdown, queues_shutdown,
         bm_queue_shutdown, StopFlags, DInv, OnionInv, OnionIsKept
  <2> QED
      BY <2>1, <2>3, <2>4 DEF DInv
<1>2. CASE JoinWorker
  <2>1. /\ sent' \in [Msgs -> Stages]
        /\ \A m \in Msgs : sent'[m] \in {"queued", "hand"} => sent'[m] = sent[m]
      BY <1>2, Zenon DEF JoinWorker, DInv, DaemonTypeOK, Stages
  <2>2. DaemonTypeOK'
    <3>1. /\ busy' \subseteq alive' /\ alive' \subseteq DaemonThreads
          /\ jobs' \subseteq Msgs \cup {"onion"}
        BY <1>2, Zenon DEF JoinWorker, DInv, DaemonTypeOK
    <3>2. UNCHANGED <<key, self, announced, setup, signal, stop, asleep, http, toPublish, closed,
                      refusing, hand, cur, gone>>
        BY <1>2, Zenon DEF JoinWorker
    <3> HIDE <1>2
    <3> QED
        BY <2>1, <3>1, <3>2 DEF DInv, DaemonTypeOK, setup
  <2>3. StopInv'
    <3>1. OnTheWay'
        BY <1>2, <2>1, WayKept, Zenon DEF JoinWorker, DInv, StopInv
    <3> QED
        BY <1>2, <3>1, Zenon DEF JoinWorker, DInv, StopInv
  <2>4. OnionInv'
      BY <1>2, Zenon DEF JoinWorker, DInv, OnionInv, OnionIsKept
  <2> QED
      BY <2>2, <2>3, <2>4 DEF DInv
<1>3. CASE Joins
  <2>1. DaemonTypeOK'
      BY <1>3, ZenonT(60) DEF Joins, Join, JoinConnector, DInv, DaemonTypeOK
  <2>2. OnTheWay'
      BY <1>3, WayKept, Zenon DEF Joins, Join, JoinConnector, DInv, StopInv
  <2>3. StopInv'
      BY <1>3, <2>2, Zenon DEF Joins, Join, JoinConnector, DInv, StopInv, DaemonTypeOK
  <2>4. OnionInv'
      BY <1>3, Zenon DEF Joins, Join, JoinConnector, DInv, OnionInv, OnionIsKept
  <2> QED
      BY <2>1, <2>3, <2>4 DEF DInv
<1>4. CASE queues_destroy
  <2>1. toPublish = <<>> /\ UNCHANGED toPublish
      BY <1>4, Zenon DEF queues_destroy, DInv, StopInv
  <2>2. DaemonTypeOK'
      BY <1>4, <2>1 DEF queues_destroy, DInv, DaemonTypeOK, Shared
  <2>3. StopInv'
    <3>1. OnTheWay'
        BY <1>4, <2>1, WayKept, Zenon DEF queues_destroy, DInv, StopInv
    <3> QED
        BY <1>4, <2>1, <3>1, Zenon DEF queues_destroy, DInv, StopInv
  <2>4. OnionInv'
      BY <1>4, <2>1, Zenon DEF queues_destroy, DInv, OnionInv, OnionIsKept
  <2> QED
      BY <2>2, <2>3, <2>4 DEF DInv
<1>5. CASE Destroy("registry", "keyring") \/ Destroy("keyring", "close") \/ sqlite3_close
  <2>1. DaemonTypeOK'
      BY <1>5, ZenonT(60) DEF Destroy, sqlite3_close, DInv, DaemonTypeOK, Shared
  <2>2. OnTheWay'
      BY <1>5, WayKept, Zenon DEF Destroy, sqlite3_close, DInv, StopInv
  <2>3. StopInv'
      BY <1>5, <2>2, Zenon DEF Destroy, sqlite3_close, DInv, StopInv, DaemonTypeOK
  <2>4. OnionInv'
      BY <1>5, Zenon DEF Destroy, sqlite3_close, DInv, OnionInv, OnionIsKept
  <2> QED
      BY <2>1, <2>3, <2>4 DEF DInv
<1> QED
    BY <1>1, <1>2, <1>3, <1>4, <1>5 DEF Destroys

LEMMA DStep == DInv /\ [DaemonNext]_daemonVars => DInv'
<1> SUFFICES ASSUME DInv, [DaemonNext]_daemonVars PROVE DInv'
    OBVIOUS
<1>1. CASE Booting
    BY <1>1, BootStep, LaunchStep, Zenon DEF Booting, Boots
<1>2. CASE Running
    BY <1>2, ThreadStep, WorkStep, Zenon DEF Running, ConnectorEnter
<1>3. CASE Stopping
    BY <1>3, StopStep, EndStep, Zenon DEF Stopping, Return
<1>4. CASE Start \/ Signal \/ Crash
    BY <1>4, LaunchStep, ThreadStep, EndStep, Zenon DEF Crash
<1>5. CASE UNCHANGED daemonVars
  <2>1. DaemonTypeOK'
      BY <1>5 DEF daemonVars, DInv, DaemonTypeOK
  <2>2. StopInv'
      BY <1>5, Zenon DEF daemonVars, DInv, StopInv, OnTheWay
  <2>3. OnionInv'
      BY <1>5, Zenon DEF daemonVars, DInv, OnionInv, OnionIsKept
  <2> QED
      BY <2>1, <2>2, <2>3, Zenon DEF DInv
<1> QED
    BY <1>1, <1>2, <1>3, <1>4, <1>5 DEF DaemonNext

LEMMA AlwaysD == DaemonSpec => []DInv
BY DInit, DStep, PTL DEF DaemonSpec

(* Types: only a thread that lives is busy, a message is in one stage, and *)
(* main destroys nothing but what it shares.                               *)
THEOREM DaemonTypes == DaemonSpec => []DaemonTypeOK
BY AlwaysD, PTL DEF DInv

(* When main destroys the queues, bm_object_sync_broadcast_thread has      *)
(* stored every object that was handed over to it: the queue is shut down  *)
(* only after the worker is joined, and it is emptied before the thread    *)
(* ends.                                                                   *)
THEOREM Kept == DaemonSpec => []HandedOverIsKept
<1>1. DInv => HandedOverIsKept
  <2> SUFFICES ASSUME DInv, "queues" \in gone, NEW m \in Msgs
               PROVE  sent[m] \notin {"queued", "hand"}
      BY DEF HandedOverIsKept
  <2>1. "publisher" \notin alive /\ toPublish = <<>> /\ "publisher" \notin busy
      BY Zenon DEF DInv, StopInv, DaemonTypeOK, Torn, Joined, NoApi, NoPublisher, Closed,
         NoWorker, Up
  <2>2. hand = Nil /\ Len(toPublish) = 0
      BY <2>1, Zenon DEF DInv, StopInv
  <2> QED
      BY <2>2, KeyAssumption DEF DInv, StopInv, OnTheWay
<1> QED
    BY <1>1, AlwaysD, PTL

(* main joins every thread before it destroys what an operation of that    *)
(* thread uses, and MHD's thread is stopped before the API thread can be   *)
(* joined, unless bm_api_server_thread gave up on a suspended connection.  *)
(* That case and the network thread, which is not joined, are those        *)
(* AliveForAll tells of.                                                   *)
THEOREM Apart == DaemonSpec => []JoinedBeforeDestroyed
<1>1. DInv => JoinedBeforeDestroyed
    BY DEF DInv, StopInv, DaemonTypeOK, JoinedBeforeDestroyed, Uses, DaemonThreads, Torn,
       Joined,
           NoApi, NoPublisher, Closed, NoWorker
<1> QED
    BY <1>1, AlwaysD, PTL

(* Only the onion address whose key is in config.db, or the one the user   *)
(* configured, is ever announced, whatever crash comes between ADD_ONION,  *)
(* the write of the key and the announcement.                              *)
THEOREM OneOnion == DaemonSpec => []OnionIsKept
BY AlwaysD, PTL DEF DInv, OnionInv

=============================================================================
