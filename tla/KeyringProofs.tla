--------------------------- MODULE KeyringProofs ----------------------------
(***************************************************************************)
(* What module Keyring promises, for any key pairs, passphrases, objects   *)
(* and limits.                                                             *)
(*                                                                         *)
(* StaysOpenable rests on what a call under way knows of the row at work:  *)
(* the vault it resolved is still the vault when it wraps with its key     *)
(* (CallInv).  NothingMissed rests on FillInv: from the moment the         *)
(* backfill has listed the pool, an object is in its list, in the inbox or *)
(* with the network thread, because the key was in the keyring before the  *)
(* list was taken.  NoGap needs that the v4 entry is there once the        *)
(* conversion rewrites the inbox (SiblingInv).  ChanSurvives has an        *)
(* invariant of its own, CInv, at the end.                                 *)
(***************************************************************************)
EXTENDS Keyring, TLAPS

CallInv ==
    /\ apc = "idle" => todo = {}
    /\ apc \in {"insert", "mark"} /\ todo # {} => vault = pass /\ pass # None
    /\ apc = "mark" => cur # None /\ rows[cur] # None
    /\ apc \in {"unlock", "vault", "rewrap"} \cup Converting => pass # None
    /\ apc \in {"vault", "rewrap"} =>
          cur # None /\ rows[cur] # None /\ rows[cur].pass = pass
    /\ apc = "rewrap" => vault = pass
    /\ apc = "delete" => cur # None
    /\ apc \in Converting => \A a \in todo : V3(a)
    /\ apc \in Converting \ {"ensure"} =>
          cur # None /\ V3(cur) /\ rows[cur] # None /\ rows[Sibling(cur)] # None

SiblingInv ==
    apc \in {"rename", "drop"} /\ Unlocked(cur) => Unlocked(Sibling(cur))

NetInv ==
    /\ npc = "idle" => nobj = None
    /\ npc # "idle" => nobj # None
    /\ npc = "opened" => naddr # None

KeyInv ==
    /\ covered \subseteq KeysOf(entries)
    /\ apc \in {"unlock", "vault", "rewrap"} => sel \subseteq AddrsOf(entries) \cup todo
    /\ apc \in {"list", "backfill"} => sel \subseteq AddrsOf(entries)

FillInv ==
    apc = "backfill" =>
        \A o \in pool : (\E a \in sel : Key(a) = ToKey[o])
                            => o \in hashes \/ inbox[o] # None \/ nobj = o

IInv == /\ TypeOK /\ CallInv /\ SiblingInv /\ NetInv /\ KeyInv /\ FillInv
        /\ StaysOpenable /\ NothingMissed

LEMMA AddrFacts ==
  ASSUME NEW a \in Addresses
  PROVE  /\ Key(a) \in Keys /\ a # None
         /\ Sibling(a) \in Addresses /\ ~V3(Sibling(a)) /\ Key(Sibling(a)) = Key(a)
  BY KeyringAssumption DEF Addresses, Key, Sibling, V3

(* The entries after an unlock, a lock and a change of the chan flag.      *)
LEMMA Added ==
  ASSUME entries \in Seq(Entry), NEW a \in Addresses, NEW c \in BOOLEAN,
         add_unlocked_entry(a, c)
  PROVE  /\ entries' \in Seq(Entry)
         /\ AddrsOf(entries') = AddrsOf(entries) \cup {a}
<1> DEFINE e == [addr |-> a, chan |-> c]
<1>1. e \in Entry /\ e.addr = a
  BY DEF Entry
<1>2. entries' = <<e>> \o entries
  BY DEF add_unlocked_entry
<1> HIDE DEF e
<1>3. entries' \in Seq(Entry) /\ Len(entries') = Len(entries) + 1 /\ Len(entries) \in Nat
  BY <1>1, <1>2
<1>4. entries'[1] = e /\ \A i \in 1 .. Len(entries) : entries'[i + 1] = entries[i]
  BY <1>1, <1>2
<1>5. \A i \in 2 .. Len(entries') : i - 1 \in 1 .. Len(entries) /\ entries'[i] = entries[i - 1]
  BY <1>3, <1>4
<1>6. AddrsOf(entries') \subseteq AddrsOf(entries) \cup {a}
  <2> SUFFICES ASSUME NEW i \in 1 .. Len(entries')
               PROVE  entries'[i].addr \in AddrsOf(entries) \cup {a}
    BY Zenon DEF AddrsOf
  <2>1. CASE i = 1
    BY <1>1, <1>4, <2>1
  <2>2. CASE i # 1
    <3>1. i - 1 \in 1 .. Len(entries) /\ entries'[i] = entries[i - 1]
      BY <1>3, <1>5, <2>2
    <3> QED BY <3>1 DEF AddrsOf
  <2> QED BY <2>1, <2>2
<1>7. a \in AddrsOf(entries')
  BY <1>1, <1>3, <1>4 DEF AddrsOf
<1>8. AddrsOf(entries) \subseteq AddrsOf(entries')
  <2> SUFFICES ASSUME NEW i \in 1 .. Len(entries) PROVE entries[i].addr \in AddrsOf(entries')
    BY DEF AddrsOf
  <2>1. i + 1 \in 1 .. Len(entries') /\ entries'[i + 1] = entries[i]
    BY <1>3, <1>4
  <2> QED BY <2>1 DEF AddrsOf
<1> QED BY <1>3, <1>6, <1>7, <1>8

(* Entry i goes.                                                           *)
Cut(i) ==
    entries' = SubSeq(entries, 1, i - 1) \o SubSeq(entries, i + 1, Len(entries))

(* A concatenation has the elements and the length of both parts.          *)
LEMMA ConcatType ==
  ASSUME NEW S, NEW s \in Seq(S), NEW t \in Seq(S)
  PROVE  s \o t \in Seq(S) /\ Len(s \o t) = Len(s) + Len(t)
  OBVIOUS

(* Cutting entry i shifts the later entries down by one.                   *)
LEMMA LockedAt ==
  ASSUME entries \in Seq(Entry), NEW a \in Addresses, NEW i \in 1 .. Len(entries),
         IsFirst(i, {a}), Cut(i)
  PROVE  /\ Len(entries) \in Nat /\ entries[i].addr = a
         /\ entries' \in Seq(Entry) /\ Len(entries') = Len(entries) - 1
         /\ \A j \in 1 .. Len(entries) - 1 :
               entries'[j] = IF j < i THEN entries[j] ELSE entries[j + 1]
<1> DEFINE n == Len(entries)
           s == SubSeq(entries, 1, i - 1)
           t == SubSeq(entries, i + 1, n)
<1>1. n \in Nat /\ i \in 1 .. n /\ entries[i].addr = a
  BY DEF IsFirst
<1>2. s \in Seq(Entry) /\ Len(s) = i - 1 /\ \A j \in 1 .. i - 1 : s[j] = entries[j]
  BY <1>1
<1>3. t \in Seq(Entry) /\ Len(t) = n - i /\ \A j \in 1 .. n - i : t[j] = entries[i + j]
  BY <1>1
<1> HIDE DEF s, t
<1>4. entries' = s \o t
  BY DEF s, t, Cut
<1>5. /\ entries' \in Seq(Entry) /\ Len(entries') = n - 1
      /\ \A j \in 1 .. n - 1 : entries'[j] = IF j < i THEN s[j] ELSE t[j - (i - 1)]
  <2>1. entries' \in Seq(Entry) /\ Len(entries') = Len(s) + Len(t)
    BY <1>2, <1>3, <1>4, ConcatType, Zenon
  <2>2. \A j \in 1 .. Len(s) + Len(t) :
           entries'[j] = IF j <= Len(s) THEN s[j] ELSE t[j - Len(s)]
    BY <1>2, <1>3, <1>4
  <2>3. Len(s) + Len(t) = n - 1 /\ \A j \in Nat : j <= Len(s) <=> j < i
    BY <1>1, <1>2, <1>3
  <2> QED BY <1>1, <1>2, <2>1, <2>2, <2>3
<1>6. ASSUME NEW j \in 1 .. n - 1
      PROVE  entries'[j] = IF j < i THEN entries[j] ELSE entries[j + 1]
  BY <1>1, <1>2, <1>3, <1>5
<1> QED BY <1>1, <1>5, <1>6

LEMMA Locked ==
  ASSUME entries \in Seq(Entry), NEW a \in Addresses, bm_keyring_lock(a)
  PROVE  /\ entries' \in Seq(Entry)
         /\ AddrsOf(entries') \subseteq AddrsOf(entries)
         /\ AddrsOf(entries) \subseteq AddrsOf(entries') \cup {a}
<1>1. CASE ~Unlocked(a) /\ UNCHANGED entries
  BY <1>1
<1>2. ASSUME NEW i \in 1 .. Len(entries), IsFirst(i, {a}),
             entries' = SubSeq(entries, 1, i - 1)
                          \o SubSeq(entries, i + 1, Len(entries))
      PROVE  /\ entries' \in Seq(Entry)
             /\ AddrsOf(entries') \subseteq AddrsOf(entries)
             /\ AddrsOf(entries) \subseteq AddrsOf(entries') \cup {a}
  <2> DEFINE n == Len(entries)
  <2>1. n \in Nat /\ i \in 1 .. n /\ entries[i].addr = a
    BY <1>2 DEF IsFirst
  <2>2. /\ entries' \in Seq(Entry) /\ Len(entries') = n - 1
        /\ \A j \in 1 .. n - 1 :
              entries'[j] = IF j < i THEN entries[j] ELSE entries[j + 1]
    BY <1>2, LockedAt, Zenon DEF Cut
  <2>3. AddrsOf(entries') \subseteq AddrsOf(entries)
    BY <2>1, <2>2 DEF AddrsOf
  <2>4. ASSUME NEW j \in 1 .. n, entries[j].addr # a
        PROVE  entries[j].addr \in AddrsOf(entries')
    <3>1. CASE j < i
      <4>1. j \in 1 .. n - 1 /\ entries'[j] = entries[j]
        BY <2>1, <2>2, <3>1
      <4> QED BY <4>1, <2>2 DEF AddrsOf
    <3>2. CASE j > i
      <4>1. j - 1 \in 1 .. n - 1 /\ entries'[j - 1] = entries[j]
        BY <2>1, <2>2, <3>2
      <4> QED BY <4>1, <2>2, ZenonT(60) DEF AddrsOf
    <3> QED BY <2>1, <2>4, <3>1, <3>2
  <2> QED BY <2>2, <2>3, <2>4, ZenonT(60) DEF AddrsOf
<1> QED BY <1>1, <1>2, ZenonT(60) DEF bm_keyring_lock, IsFirst

LEMMA Marked ==
  ASSUME entries \in Seq(Entry), NEW a \in Addresses, mark_unlocked_entry_as_chan(a)
  PROVE  entries' \in Seq(Entry) /\ AddrsOf(entries') = AddrsOf(entries)
<1>1. Len(entries) \in Nat /\ \A i \in 1 .. Len(entries) : entries[i] \in Entry
  OBVIOUS
<1>2. ASSUME NEW i \in 1 .. Len(entries)
      PROVE  /\ [entries[i] EXCEPT !.chan = TRUE] \in Entry
             /\ [entries[i] EXCEPT !.chan = TRUE].addr = entries[i].addr
  BY <1>1, ZenonT(60) DEF Entry
<1>3. \A i \in 1 .. Len(entries) :
        entries'[i] \in Entry /\ entries'[i].addr = entries[i].addr
  BY <1>1, <1>2 DEF mark_unlocked_entry_as_chan
<1>4. entries' \in Seq(Entry) /\ Len(entries') = Len(entries)
  <2>1. entries' = [i \in 1 .. Len(entries) |-> entries'[i]]
    BY DEF mark_unlocked_entry_as_chan
  <2> QED BY <1>1, <1>3, <2>1
<1> QED BY <1>3, <1>4 DEF AddrsOf

(* The rows after each kind of write.                                      *)
RowsOK == rows \in [Addresses -> Row \cup {None}] /\ made \in [Addresses -> Passphrases \cup {None}]

LEMMA Stored ==
  ASSUME RowsOK, NEW a \in Addresses, NEW algo \in {"scrypt", "vault"}, NEW p \in Passphrases,
         store_new_identity_with_kek(a, algo, p)
  PROVE  /\ RowsOK'
         /\ rows[a] = None /\ rows'[a] # None /\ made'[a] = p
         /\ rows'[a].algo = algo /\ rows'[a].pass = p /\ rows'[a].chan = FALSE
         /\ \A b \in Addresses : b # a => rows'[b] = rows[b] /\ made'[b] = made[b]
<1> DEFINE r == [algo |-> algo, pass |-> p, chan |-> FALSE]
<1>0. r \in Row
  BY DEF Row
<1>1. r \in Row /\ r # None
  BY <1>0, KeyringAssumption, Zenon
<1>2. r.algo = algo /\ r.pass = p /\ r.chan = FALSE
  OBVIOUS
<1>3. rows' = [rows EXCEPT ![a] = r] /\ made' = [made EXCEPT ![a] = p] /\ rows[a] = None
  BY DEF store_new_identity_with_kek
<1> HIDE DEF r
<1>4. RowsOK'
  BY <1>1, <1>3 DEF RowsOK
<1>5. rows'[a] = r /\ made'[a] = p
  BY <1>3 DEF RowsOK
<1>6. \A b \in Addresses : b # a => rows'[b] = rows[b] /\ made'[b] = made[b]
  BY <1>3 DEF RowsOK
<1> QED BY <1>1, <1>2, <1>3, <1>4, <1>5, <1>6

LEMMA Flagged ==
  ASSUME RowsOK, NEW a \in Addresses, rows[a] # None, NEW c \in BOOLEAN,
         rows' = [rows EXCEPT ![a].chan = c], UNCHANGED made
  PROVE  /\ RowsOK' /\ rows'[a] # None
         /\ rows'[a].algo = rows[a].algo /\ rows'[a].pass = rows[a].pass
         /\ \A b \in Addresses : b # a => rows'[b] = rows[b]
<1> DEFINE r == [rows[a] EXCEPT !.chan = c]
<1>1. rows[a] \in Row
  BY DEF RowsOK
<1>2. r \in Row /\ r.algo = rows[a].algo /\ r.pass = rows[a].pass
  BY <1>1 DEF Row
<1>3. rows' = [rows EXCEPT ![a] = r]
  OBVIOUS
<1>4. r # None
  BY <1>2, KeyringAssumption
<1> HIDE DEF r
<1> QED BY <1>2, <1>3, <1>4 DEF RowsOK

LEMMA Rewrapped ==
  ASSUME RowsOK, NEW a \in Addresses, rows[a] # None, NEW p \in Passphrases,
         rows' = [rows EXCEPT ![a].algo = "vault", ![a].pass = p], UNCHANGED made
  PROVE  /\ RowsOK' /\ rows'[a] # None
         /\ rows'[a].algo = "vault" /\ rows'[a].pass = p
         /\ \A b \in Addresses : b # a => rows'[b] = rows[b]
<1> DEFINE r == [rows[a] EXCEPT !.algo = "vault", !.pass = p]
<1>1. rows[a] \in Row
  BY DEF RowsOK
<1>2. r \in Row /\ r.algo = "vault" /\ r.pass = p
  BY <1>1, ZenonT(60) DEF Row
<1>3. rows' = [rows EXCEPT ![a] = r]
  BY ZenonT(60) DEF RowsOK
<1>4. r # None
  BY <1>2, KeyringAssumption
<1> HIDE DEF r
<1> QED BY <1>2, <1>3, <1>4, ZenonT(60) DEF RowsOK

LEMMA Deleted ==
  ASSUME RowsOK, NEW a \in Addresses, bm_identity_store_delete(a)
  PROVE  /\ RowsOK' /\ rows'[a] = None /\ made'[a] = None
         /\ \A b \in Addresses : b # a => rows'[b] = rows[b] /\ made'[b] = made[b]
  BY DEF RowsOK, bm_identity_store_delete


(* Types, one part of the state after the other.                           *)
LEMMA RowsStep ==
  ASSUME TypeOK, CallInv, [Next]_vars
  PROVE  RowsOK'
<1> USE DEF TypeOK
<1> USE DEF RowsOK
<1>1. ASSUME NEW a \in Addresses, NEW p \in Passphrases, h_createDeterministicAddress(a, p)
      PROVE  RowsOK'
  BY <1>1, Stored, ZenonT(60) DEF h_createDeterministicAddress
<1>2. ASSUME NEW a \in Addresses, NEW p \in Passphrases, h_joinChan(a, p)
      PROVE  RowsOK'
  BY <1>2, Stored, ZenonT(60) DEF h_joinChan
<1>3. ASSUME NEW S \in SUBSET Addresses, NEW C \in SUBSET S, NEW p \in Passphrases, h_importAddressesBulk(S, C, p)
      PROVE  RowsOK'
  BY <1>3 DEF h_importAddressesBulk, Call, resolve_or_create_vault_master_kek
<1>4. ASSUME NEW a \in todo, ImportOne(a)
      PROVE  RowsOK'
  <2>1. pass \in Passphrases /\ a \in Addresses
    BY <1>4 DEF ImportOne, CallInv
  <2> QED BY <1>4, <2>1, Stored, ZenonT(60) DEF ImportOne
<1>5. CASE bm_keyring_mark_as_chan
  <2>1. cur \in Addresses /\ rows[cur] # None
    BY <1>5 DEF bm_keyring_mark_as_chan, Step, CallInv
  <2> QED BY <1>5, <2>1, Flagged, ZenonT(60) DEF bm_keyring_mark_as_chan
<1>6. CASE ImportDone
  BY <1>6 DEF ImportDone, Return, disk
<1>7. ASSUME NEW a \in Addresses, NEW p \in Passphrases, h_unlockAddress(a, p)
      PROVE  RowsOK'
  BY <1>7 DEF h_unlockAddress, disk
<1>8. ASSUME NEW p \in Passphrases, h_unlockAllAddresses(p)
      PROVE  RowsOK'
  BY <1>8 DEF h_unlockAllAddresses, Call, disk
<1>9. ASSUME NEW S \in SUBSET Addresses, NEW C \in {{}, S}, NEW p \in Passphrases, h_unlockAddresses(S, C, p)
      PROVE  RowsOK'
  BY <1>9 DEF h_unlockAddresses, Call, disk
<1>10. ASSUME NEW a \in todo, unlock_bulk_one(a)
      PROVE  RowsOK'
  BY <1>10 DEF unlock_bulk_one, disk
<1>11. CASE unlock_bulk_vault
  BY <1>11 DEF unlock_bulk_vault, Step
<1>12. CASE rewrap_to_vault
  <2>1. cur \in Addresses /\ rows[cur] # None /\ vault \in Passphrases
    BY <1>12 DEF rewrap_to_vault, Step, CallInv
  <2> QED BY <1>12, <2>1, Rewrapped, ZenonT(60) DEF rewrap_to_vault
<1>13. CASE UnlockDone
  BY <1>13 DEF UnlockDone, Return, disk
<1>14. CASE BackfillList
  BY <1>14 DEF BackfillList, disk
<1>15. ASSUME NEW o \in hashes, BackfillOne(o)
      PROVE  RowsOK'
  BY <1>15 DEF BackfillOne, bm_messages_store_insert_inbox
<1>16. CASE BackfillDone
  BY <1>16 DEF BackfillDone, Return, disk
<1>17. ASSUME NEW a \in Addresses, h_lockAddress(a)
      PROVE  RowsOK'
  BY <1>17 DEF h_lockAddress, disk, call
<1>18. ASSUME NEW a \in Addresses, h_deleteAddress(a)
      PROVE  RowsOK'
  BY <1>18 DEF h_deleteAddress, disk
<1>19. CASE h_lockAllAddresses
  BY <1>19 DEF h_lockAllAddresses, disk, call
<1>20. CASE DeleteRow
  <2>1. cur \in Addresses
    BY <1>20 DEF DeleteRow, CallInv
  <2> QED BY <1>20, <2>1, Deleted DEF DeleteRow
<1>21. ASSUME NEW S \in SUBSET Addresses, NEW p \in Passphrases, h_convertV3AddressesToV4(S, p)
      PROVE  RowsOK'
  BY <1>21 DEF h_convertV3AddressesToV4, Call, disk
<1>22. ASSUME NEW a \in todo, EnsureSibling(a)
      PROVE  RowsOK'
  <2>1. a \in Addresses /\ pass \in Passphrases /\ Sibling(a) \in Addresses
    BY <1>22, AddrFacts DEF EnsureSibling, CallInv, Converting
  <2>2. CASE store_new_identity_with_kek(Sibling(a), rows[a].algo, pass) /\ Opens(a, pass)
    <3>1. rows[a].algo \in {"scrypt", "vault"}
      BY <2>1, <2>2, Zenon DEF Opens, Row
    <3> QED BY <2>1, <2>2, <3>1, Stored, ZenonT(60)
  <2> QED BY <1>22, <2>2 DEF EnsureSibling
<1>23. CASE EnsureChan
  <2>1. cur \in Addresses /\ rows[cur] # None /\ Sibling(cur) \in Addresses /\ rows[Sibling(cur)] # None
    BY <1>23, AddrFacts DEF EnsureChan, Step, CallInv, Converting
  <2>2. (rows[Sibling(cur)].chan \/ rows[cur].chan) \in BOOLEAN
    OBVIOUS
  <2> QED BY <1>23, <2>1, <2>2, Flagged, ZenonT(60) DEF EnsureChan
<1>24. CASE EnsureUnlocked
  BY <1>24 DEF EnsureUnlocked, Step, disk
<1>25. CASE bm_messages_store_rename_own_address
  BY <1>25 DEF bm_messages_store_rename_own_address, Step
<1>26. CASE ConvertLock
  BY <1>26 DEF ConvertLock, Step, disk
<1>27. CASE ConvertDelete
  <2>1. cur \in Addresses
    BY <1>27 DEF ConvertDelete, Step, CallInv, Converting
  <2> QED BY <1>27, <2>1, Deleted DEF ConvertDelete
<1>28. CASE ConvertDone
  BY <1>28 DEF ConvertDone, Return, disk
<1>29. ASSUME NEW o \in Objects, NetStore(o)
      PROVE  RowsOK'
  BY <1>29 DEF NetStore, call
<1>30. CASE bm_trial_decrypt_msg
  BY <1>30 DEF bm_trial_decrypt_msg, disk, call
<1>31. CASE store_decoded_msg
  BY <1>31 DEF store_decoded_msg, bm_messages_store_insert_inbox, call
<1>32. CASE Restart
  BY <1>32 DEF Restart, Return, disk
<1>33. CASE UNCHANGED vars
  BY <1>33 DEF vars, disk, net, call
<1> QED
  BY <1>1, <1>2, <1>3, <1>4, <1>5, <1>6, <1>7, <1>8, <1>9, <1>10, <1>11, <1>12, <1>13,
     <1>14, <1>15, <1>16, <1>17, <1>18, <1>19, <1>20, <1>21, <1>22, <1>23, <1>24, <1>25,
     <1>26, <1>27, <1>28, <1>29, <1>30, <1>31, <1>32, <1>33, ZenonT(60)
  DEF Next, Store, Unlock, Backfill, Lock, Convert, Receive

LEMMA EntriesStep ==
  ASSUME TypeOK, CallInv, [Next]_vars
  PROVE  entries' \in Seq(Entry)
<1> USE DEF TypeOK
<1>1. ASSUME NEW a \in Addresses, NEW p \in Passphrases, h_createDeterministicAddress(a, p)
      PROVE  entries' \in Seq(Entry)
  BY <1>1, SMTT(40), ZenonT(60) DEF h_createDeterministicAddress,
     store_new_identity_with_kek, call
<1>2. ASSUME NEW a \in Addresses, NEW p \in Passphrases, h_joinChan(a, p)
      PROVE  entries' \in Seq(Entry)
  BY <1>2 DEF h_joinChan, store_new_identity_with_kek
<1>3. ASSUME NEW S \in SUBSET Addresses, NEW C \in SUBSET S, NEW p \in Passphrases, h_importAddressesBulk(S, C, p)
      PROVE  entries' \in Seq(Entry)
  BY <1>3 DEF h_importAddressesBulk, Call, resolve_or_create_vault_master_kek
<1>4. ASSUME NEW a \in todo, ImportOne(a)
      PROVE  entries' \in Seq(Entry)
  BY <1>4 DEF ImportOne, store_new_identity_with_kek
<1>5. CASE bm_keyring_mark_as_chan
  BY <1>5 DEF bm_keyring_mark_as_chan, Step
<1>6. CASE ImportDone
  BY <1>6 DEF ImportDone, Return, disk
<1>7. ASSUME NEW a \in Addresses, NEW p \in Passphrases, h_unlockAddress(a, p)
      PROVE  entries' \in Seq(Entry)
  <2>1. rows[a].chan \in BOOLEAN
    BY <1>7, Zenon DEF h_unlockAddress, Opens, Row
  <2> QED BY <1>7, <2>1, Added DEF h_unlockAddress
<1>8. ASSUME NEW p \in Passphrases, h_unlockAllAddresses(p)
      PROVE  entries' \in Seq(Entry)
  BY <1>8, Zenon DEF h_unlockAllAddresses, Call, disk
<1>9. ASSUME NEW S \in SUBSET Addresses, NEW C \in {{}, S}, NEW p \in Passphrases, h_unlockAddresses(S, C, p)
      PROVE  entries' \in Seq(Entry)
  BY <1>9 DEF h_unlockAddresses, Call, disk
<1>10. ASSUME NEW a \in todo, unlock_bulk_one(a)
      PROVE  entries' \in Seq(Entry)
  <2>1. a \in Addresses
    BY <1>10 DEF unlock_bulk_one
  <2>2. CASE Opens(a, pass) /\ add_unlocked_entry(a, rows[a].chan)
    <3>1. rows[a].chan \in BOOLEAN
      BY <2>1, <2>2, Zenon DEF Opens, Row
    <3> QED BY <2>1, <2>2, <3>1, Added
  <2> QED BY <1>10, <2>2 DEF unlock_bulk_one
<1>11. CASE unlock_bulk_vault
  BY <1>11 DEF unlock_bulk_vault, Step
<1>12. CASE rewrap_to_vault
  BY <1>12 DEF rewrap_to_vault, Step
<1>13. CASE UnlockDone
  BY <1>13 DEF UnlockDone, Return, disk
<1>14. CASE BackfillList
  BY <1>14 DEF BackfillList, disk
<1>15. ASSUME NEW o \in hashes, BackfillOne(o)
      PROVE  entries' \in Seq(Entry)
  BY <1>15 DEF BackfillOne, bm_messages_store_insert_inbox
<1>16. CASE BackfillDone
  BY <1>16 DEF BackfillDone, Return, disk
<1>17. ASSUME NEW a \in Addresses, h_lockAddress(a)
      PROVE  entries' \in Seq(Entry)
  BY <1>17, Locked DEF h_lockAddress
<1>18. ASSUME NEW a \in Addresses, h_deleteAddress(a)
      PROVE  entries' \in Seq(Entry)
  BY <1>18, Locked DEF h_deleteAddress
<1>19. CASE h_lockAllAddresses
  BY <1>19 DEF h_lockAllAddresses
<1>20. CASE DeleteRow
  BY <1>20 DEF DeleteRow, bm_identity_store_delete, Return
<1>21. ASSUME NEW S \in SUBSET Addresses, NEW p \in Passphrases, h_convertV3AddressesToV4(S, p)
      PROVE  entries' \in Seq(Entry)
  BY <1>21 DEF h_convertV3AddressesToV4, Call, disk
<1>22. ASSUME NEW a \in todo, EnsureSibling(a)
      PROVE  entries' \in Seq(Entry)
  BY <1>22 DEF EnsureSibling, store_new_identity_with_kek
<1>23. CASE EnsureChan
  <2>1. cur \in Addresses /\ Sibling(cur) \in Addresses
    BY <1>23, AddrFacts DEF EnsureChan, Step, CallInv, Converting
  <2> QED BY <1>23, <2>1, Marked DEF EnsureChan
<1>24. CASE EnsureUnlocked
  <2>1. cur \in Addresses /\ Sibling(cur) \in Addresses /\ rows[Sibling(cur)] # None
    BY <1>24, AddrFacts, Zenon DEF EnsureUnlocked, Step, CallInv, Converting
  <2>2. rows[Sibling(cur)].chan \in BOOLEAN
    BY <2>1, Zenon DEF Row
  <2> QED BY <1>24, <2>1, <2>2, Added, Zenon DEF EnsureUnlocked
<1>25. CASE bm_messages_store_rename_own_address
  BY <1>25 DEF bm_messages_store_rename_own_address, Step
<1>26. CASE ConvertLock
  <2>1. cur \in Addresses
    BY <1>26, Zenon DEF ConvertLock, Step, CallInv, Converting
  <2> QED BY <1>26, <2>1, Locked DEF ConvertLock
<1>27. CASE ConvertDelete
  BY <1>27 DEF ConvertDelete, bm_identity_store_delete, Step
<1>28. CASE ConvertDone
  BY <1>28 DEF ConvertDone, Return, disk
<1>29. ASSUME NEW o \in Objects, NetStore(o)
      PROVE  entries' \in Seq(Entry)
  BY <1>29 DEF NetStore, call
<1>30. CASE bm_trial_decrypt_msg
  BY <1>30, Zenon DEF bm_trial_decrypt_msg, disk, call
<1>31. CASE store_decoded_msg
  BY <1>31 DEF store_decoded_msg, bm_messages_store_insert_inbox, call
<1>32. CASE Restart
  BY <1>32 DEF Restart, Return, disk
<1>33. CASE UNCHANGED vars
  BY <1>33 DEF vars, disk, net, call
<1> QED
  BY <1>1, <1>2, <1>3, <1>4, <1>5, <1>6, <1>7, <1>8, <1>9, <1>10, <1>11, <1>12, <1>13,
     <1>14, <1>15, <1>16, <1>17, <1>18, <1>19, <1>20, <1>21, <1>22, <1>23, <1>24, <1>25,
     <1>26, <1>27, <1>28, <1>29, <1>30, <1>31, <1>32, <1>33, ZenonT(60)
  DEF Next, Store, Unlock, Backfill, Lock, Convert, Receive

(* The types of what is neither rows nor entries.                          *)
CallOK ==
    /\ apc \in ApiPCs /\ pass \in Passphrases \cup {None}
    /\ todo \in SUBSET Addresses /\ cur \in Addresses \cup {None}
    /\ sel \in SUBSET Addresses /\ hashes \in SUBSET Objects

DataOK ==
    /\ vault \in Passphrases \cup {None} /\ inbox \in [Objects -> Addresses \cup {None}]
    /\ pool \in SUBSET Objects /\ npc \in {"idle", "stored", "opened"}
    /\ nobj \in Objects \cup {None} /\ naddr \in Addresses \cup {None}

LEMMA CallTypes ==
  ASSUME TypeOK, CallInv, [Next]_vars
  PROVE  CallOK'
<1> USE DEF TypeOK, CallOK, ApiPCs, Converting
<1>1. ASSUME NEW a \in Addresses, NEW p \in Passphrases, h_createDeterministicAddress(a, p)
      PROVE  CallOK'
  BY <1>1, SMTT(40), ZenonT(60) DEF h_createDeterministicAddress,
     store_new_identity_with_kek, call
<1>2. ASSUME NEW a \in Addresses, NEW p \in Passphrases, h_joinChan(a, p)
      PROVE  CallOK'
  BY <1>2, Zenon DEF h_joinChan, store_new_identity_with_kek
<1>3. ASSUME NEW S \in SUBSET Addresses, NEW C \in SUBSET S, NEW p \in Passphrases, h_importAddressesBulk(S, C, p)
      PROVE  CallOK'
  BY <1>3 DEF h_importAddressesBulk, Call, resolve_or_create_vault_master_kek
<1>4. ASSUME NEW a \in todo, ImportOne(a)
      PROVE  CallOK'
  BY <1>4 DEF ImportOne, store_new_identity_with_kek
<1>5. CASE bm_keyring_mark_as_chan
  BY <1>5 DEF bm_keyring_mark_as_chan, Step
<1>6. CASE ImportDone
  BY <1>6 DEF ImportDone, Return, disk
<1>7. ASSUME NEW a \in Addresses, NEW p \in Passphrases, h_unlockAddress(a, p)
      PROVE  CallOK'
  BY <1>7 DEF h_unlockAddress, disk
<1>8. ASSUME NEW p \in Passphrases, h_unlockAllAddresses(p)
      PROVE  CallOK'
  BY <1>8 DEF h_unlockAllAddresses, Call, disk
<1>9. ASSUME NEW S \in SUBSET Addresses, NEW C \in {{}, S}, NEW p \in Passphrases, h_unlockAddresses(S, C, p)
      PROVE  CallOK'
  BY <1>9 DEF h_unlockAddresses, Call, disk
<1>10. ASSUME NEW a \in todo, unlock_bulk_one(a)
      PROVE  CallOK'
  BY <1>10 DEF unlock_bulk_one, disk
<1>11. CASE unlock_bulk_vault
  BY <1>11 DEF unlock_bulk_vault, Step
<1>12. CASE rewrap_to_vault
  BY <1>12 DEF rewrap_to_vault, Step
<1>13. CASE UnlockDone
  BY <1>13 DEF UnlockDone, Return, disk
<1>14. CASE BackfillList
  BY <1>14 DEF BackfillList, disk
<1>15. ASSUME NEW o \in hashes, BackfillOne(o)
      PROVE  CallOK'
  BY <1>15 DEF BackfillOne, bm_messages_store_insert_inbox
<1>16. CASE BackfillDone
  BY <1>16 DEF BackfillDone, Return, disk
<1>17. ASSUME NEW a \in Addresses, h_lockAddress(a)
      PROVE  CallOK'
  BY <1>17 DEF h_lockAddress, disk, call
<1>18. ASSUME NEW a \in Addresses, h_deleteAddress(a)
      PROVE  CallOK'
  BY <1>18 DEF h_deleteAddress, disk
<1>19. CASE h_lockAllAddresses
  BY <1>19 DEF h_lockAllAddresses, disk, call
<1>20. CASE DeleteRow
  BY <1>20 DEF DeleteRow, bm_identity_store_delete, Return
<1>21. ASSUME NEW S \in SUBSET Addresses, NEW p \in Passphrases, h_convertV3AddressesToV4(S, p)
      PROVE  CallOK'
  BY <1>21 DEF h_convertV3AddressesToV4, Call, disk
<1>22. ASSUME NEW a \in todo, EnsureSibling(a)
      PROVE  CallOK'
  BY <1>22, AddrFacts, Zenon DEF EnsureSibling
<1>23. CASE EnsureChan
  BY <1>23 DEF EnsureChan, Step
<1>24. CASE EnsureUnlocked
  BY <1>24, Zenon DEF EnsureUnlocked, Step, disk
<1>25. CASE bm_messages_store_rename_own_address
  BY <1>25 DEF bm_messages_store_rename_own_address, Step
<1>26. CASE ConvertLock
  BY <1>26 DEF ConvertLock, Step, disk
<1>27. CASE ConvertDelete
  BY <1>27, Zenon DEF ConvertDelete, bm_identity_store_delete, Step
<1>28. CASE ConvertDone
  BY <1>28, Zenon DEF ConvertDone, Return, disk
<1>29. ASSUME NEW o \in Objects, NetStore(o)
      PROVE  CallOK'
  BY <1>29, Zenon DEF NetStore, call
<1>30. CASE bm_trial_decrypt_msg
  BY <1>30, Zenon DEF bm_trial_decrypt_msg, disk, call
<1>31. CASE store_decoded_msg
  BY <1>31 DEF store_decoded_msg, bm_messages_store_insert_inbox, call
<1>32. CASE Restart
  BY <1>32 DEF Restart, Return, disk
<1>33. CASE UNCHANGED vars
  BY <1>33 DEF vars, disk, net, call
<1> QED
  BY <1>1, <1>2, <1>3, <1>4, <1>5, <1>6, <1>7, <1>8, <1>9, <1>10, <1>11, <1>12, <1>13,
     <1>14, <1>15, <1>16, <1>17, <1>18, <1>19, <1>20, <1>21, <1>22, <1>23, <1>24, <1>25,
     <1>26, <1>27, <1>28, <1>29, <1>30, <1>31, <1>32, <1>33, ZenonT(60)
  DEF Next, Store, Unlock, Backfill, Lock, Convert, Receive

LEMMA DataTypes ==
  ASSUME TypeOK, CallInv, NetInv, [Next]_vars
  PROVE  DataOK'
<1> USE DEF TypeOK, DataOK
<1>1. ASSUME NEW a \in Addresses, NEW p \in Passphrases, h_createDeterministicAddress(a, p)
      PROVE  DataOK'
  BY <1>1, SMTT(40), ZenonT(60) DEF h_createDeterministicAddress,
     store_new_identity_with_kek, call, net
<1>2. ASSUME NEW a \in Addresses, NEW p \in Passphrases, h_joinChan(a, p)
      PROVE  DataOK'
  BY <1>2, Zenon DEF h_joinChan, store_new_identity_with_kek, net
<1>3. ASSUME NEW S \in SUBSET Addresses, NEW C \in SUBSET S, NEW p \in Passphrases, h_importAddressesBulk(S, C, p)
      PROVE  DataOK'
  BY <1>3 DEF h_importAddressesBulk, Call, resolve_or_create_vault_master_kek, net
<1>4. ASSUME NEW a \in todo, ImportOne(a)
      PROVE  DataOK'
  BY <1>4, Zenon DEF ImportOne, store_new_identity_with_kek, net
<1>5. CASE bm_keyring_mark_as_chan
  BY <1>5 DEF bm_keyring_mark_as_chan, Step, net
<1>6. CASE ImportDone
  BY <1>6 DEF ImportDone, Return, disk, net
<1>7. ASSUME NEW a \in Addresses, NEW p \in Passphrases, h_unlockAddress(a, p)
      PROVE  DataOK'
  BY <1>7 DEF h_unlockAddress, disk, net
<1>8. ASSUME NEW p \in Passphrases, h_unlockAllAddresses(p)
      PROVE  DataOK'
  BY <1>8, Zenon DEF h_unlockAllAddresses, Call, disk, net
<1>9. ASSUME NEW S \in SUBSET Addresses, NEW C \in {{}, S}, NEW p \in Passphrases, h_unlockAddresses(S, C, p)
      PROVE  DataOK'
  BY <1>9, Zenon DEF h_unlockAddresses, Call, disk, net
<1>10. ASSUME NEW a \in todo, unlock_bulk_one(a)
      PROVE  DataOK'
  BY <1>10, Zenon DEF unlock_bulk_one, disk, net
<1>11. CASE unlock_bulk_vault
  BY <1>11 DEF unlock_bulk_vault, Step, net
<1>12. CASE rewrap_to_vault
  BY <1>12 DEF rewrap_to_vault, Step, net
<1>13. CASE UnlockDone
  BY <1>13 DEF UnlockDone, Return, disk, net
<1>14. CASE BackfillList
  BY <1>14 DEF BackfillList, disk, net
<1>15. ASSUME NEW o \in hashes, BackfillOne(o)
      PROVE  DataOK'
  <2>1. CASE UNCHANGED inbox
    BY <1>15, <2>1, Zenon DEF BackfillOne, net
  <2>2. ASSUME NEW a \in sel, bm_messages_store_insert_inbox(o, a)
        PROVE  inbox' \in [Objects -> Addresses \cup {None}]
    BY <1>15, <2>2, Zenon DEF BackfillOne, bm_messages_store_insert_inbox
  <2> QED BY <1>15, <2>1, <2>2, Zenon DEF BackfillOne, net
<1>16. CASE BackfillDone
  BY <1>16, Zenon DEF BackfillDone, Return, disk, net
<1>17. ASSUME NEW a \in Addresses, h_lockAddress(a)
      PROVE  DataOK'
  BY <1>17, Zenon DEF h_lockAddress, disk, call, net
<1>18. ASSUME NEW a \in Addresses, h_deleteAddress(a)
      PROVE  DataOK'
  BY <1>18, Zenon DEF h_deleteAddress, disk, net
<1>19. CASE h_lockAllAddresses
  BY <1>19 DEF h_lockAllAddresses, disk, call, net
<1>20. CASE DeleteRow
  BY <1>20, Zenon DEF DeleteRow, bm_identity_store_delete, Return, net
<1>21. ASSUME NEW S \in SUBSET Addresses, NEW p \in Passphrases, h_convertV3AddressesToV4(S, p)
      PROVE  DataOK'
  BY <1>21, Zenon DEF h_convertV3AddressesToV4, Call, disk, net
<1>22. ASSUME NEW a \in todo, EnsureSibling(a)
      PROVE  DataOK'
  BY <1>22, Zenon DEF EnsureSibling, store_new_identity_with_kek, net
<1>23. CASE EnsureChan
  BY <1>23 DEF EnsureChan, Step, net
<1>24. CASE EnsureUnlocked
  BY <1>24, Zenon DEF EnsureUnlocked, Step, disk, net
<1>25. CASE bm_messages_store_rename_own_address
  <2>1. cur \in Addresses /\ Sibling(cur) \in Addresses
    BY <1>25, AddrFacts, Zenon DEF bm_messages_store_rename_own_address, Step, CallInv,
       Converting
  <2> QED BY <1>25, <2>1, Zenon DEF bm_messages_store_rename_own_address, net
<1>26. CASE ConvertLock
  BY <1>26, Zenon DEF ConvertLock, Step, disk, net
<1>27. CASE ConvertDelete
  BY <1>27, Zenon DEF ConvertDelete, bm_identity_store_delete, Step, net
<1>28. CASE ConvertDone
  BY <1>28, Zenon DEF ConvertDone, Return, disk, net
<1>29. ASSUME NEW o \in Objects, NetStore(o)
      PROVE  DataOK'
  BY <1>29, Zenon DEF NetStore, call
<1>30. CASE bm_trial_decrypt_msg
  <2>1. \A i \in 1 .. Len(entries) : entries[i].addr \in Addresses
    <3>1. \A i \in 1 .. Len(entries) : entries[i] \in Entry
      OBVIOUS
    <3> QED BY <3>1, Zenon DEF Entry
  <2> QED BY <1>30, <2>1, SMTT(40), ZenonT(60) DEF bm_trial_decrypt_msg, disk
<1>31. CASE store_decoded_msg
  <2>1. nobj \in Objects /\ naddr \in Addresses
    BY <1>31 DEF store_decoded_msg, NetInv
  <2> QED BY <1>31, <2>1 DEF store_decoded_msg, bm_messages_store_insert_inbox
<1>32. CASE Restart
  BY <1>32 DEF Restart, Return, disk
<1>33. CASE UNCHANGED vars
  BY <1>33 DEF vars, disk, net, call
<1> QED
  BY <1>1, <1>2, <1>3, <1>4, <1>5, <1>6, <1>7, <1>8, <1>9, <1>10, <1>11, <1>12, <1>13,
     <1>14, <1>15, <1>16, <1>17, <1>18, <1>19, <1>20, <1>21, <1>22, <1>23, <1>24, <1>25,
     <1>26, <1>27, <1>28, <1>29, <1>30, <1>31, <1>32, <1>33, ZenonT(60)
  DEF Next, Store, Unlock, Backfill, Lock, Convert, Receive

HistoryOK == chans \in SUBSET Addresses /\ covered \in SUBSET Keys /\ twice \in SUBSET Addresses

LEMMA HistoryTypes ==
  ASSUME TypeOK, CallInv, [Next]_vars
  PROVE  HistoryOK'
<1> USE DEF TypeOK, HistoryOK
<1>1. ASSUME NEW a \in Addresses, NEW p \in Passphrases, h_createDeterministicAddress(a, p)
      PROVE  HistoryOK'
  BY <1>1, SMTT(40), ZenonT(60) DEF h_createDeterministicAddress,
     store_new_identity_with_kek, call
<1>2. ASSUME NEW a \in Addresses, NEW p \in Passphrases, h_joinChan(a, p)
      PROVE  HistoryOK'
  BY <1>2, Zenon DEF h_joinChan, store_new_identity_with_kek
<1>3. ASSUME NEW S \in SUBSET Addresses, NEW C \in SUBSET S, NEW p \in Passphrases, h_importAddressesBulk(S, C, p)
      PROVE  HistoryOK'
  BY <1>3, Zenon DEF h_importAddressesBulk, Call, resolve_or_create_vault_master_kek
<1>4. ASSUME NEW a \in todo, ImportOne(a)
      PROVE  HistoryOK'
  BY <1>4, Zenon DEF ImportOne, store_new_identity_with_kek
<1>5. CASE bm_keyring_mark_as_chan
  <2>1. cur \in Addresses /\ Sibling(cur) \in Addresses
    BY <1>5, AddrFacts DEF bm_keyring_mark_as_chan, Step, CallInv, Converting
  <2> QED BY <1>5, <2>1 DEF bm_keyring_mark_as_chan, Step, Follow, add_unlocked_entry,
             bm_keyring_lock
<1>6. CASE ImportDone
  BY <1>6, Zenon DEF ImportDone, Return, disk
<1>7. ASSUME NEW a \in Addresses, NEW p \in Passphrases, h_unlockAddress(a, p)
      PROVE  HistoryOK'
  BY <1>7, Zenon DEF h_unlockAddress, add_unlocked_entry, Follow
<1>8. ASSUME NEW p \in Passphrases, h_unlockAllAddresses(p)
      PROVE  HistoryOK'
  BY <1>8, Zenon DEF h_unlockAllAddresses, Call, disk
<1>9. ASSUME NEW S \in SUBSET Addresses, NEW C \in {{}, S}, NEW p \in Passphrases, h_unlockAddresses(S, C, p)
      PROVE  HistoryOK'
  BY <1>9, Zenon DEF h_unlockAddresses, Call, disk
<1>10. ASSUME NEW a \in todo, unlock_bulk_one(a)
      PROVE  HistoryOK'
  BY <1>10, Zenon DEF unlock_bulk_one, add_unlocked_entry, Follow
<1>11. CASE unlock_bulk_vault
  BY <1>11, Zenon DEF unlock_bulk_vault, Step
<1>12. CASE rewrap_to_vault
  BY <1>12 DEF rewrap_to_vault, Step
<1>13. CASE UnlockDone
  BY <1>13 DEF UnlockDone, Return, disk
<1>14. CASE BackfillList
  BY <1>14 DEF BackfillList, disk
<1>15. ASSUME NEW o \in hashes, BackfillOne(o)
      PROVE  HistoryOK'
  BY <1>15, Zenon DEF BackfillOne, bm_messages_store_insert_inbox
<1>16. CASE BackfillDone
  BY <1>16, AddrFacts DEF BackfillDone
<1>17. ASSUME NEW a \in Addresses, h_lockAddress(a)
      PROVE  HistoryOK'
  BY <1>17 DEF h_lockAddress, bm_keyring_lock, Follow
<1>18. ASSUME NEW a \in Addresses, h_deleteAddress(a)
      PROVE  HistoryOK'
  BY <1>18, Zenon DEF h_deleteAddress, bm_keyring_lock, Follow
<1>19. CASE h_lockAllAddresses
  BY <1>19 DEF h_lockAllAddresses, Follow
<1>20. CASE DeleteRow
  BY <1>20 DEF DeleteRow, bm_identity_store_delete, Return
<1>21. ASSUME NEW S \in SUBSET Addresses, NEW p \in Passphrases, h_convertV3AddressesToV4(S, p)
      PROVE  HistoryOK'
  BY <1>21 DEF h_convertV3AddressesToV4, Call, disk
<1>22. ASSUME NEW a \in todo, EnsureSibling(a)
      PROVE  HistoryOK'
  BY <1>22, Zenon DEF EnsureSibling, store_new_identity_with_kek
<1>23. CASE EnsureChan
  BY <1>23 DEF EnsureChan, Step
<1>24. CASE EnsureUnlocked
  <2>1. cur \in Addresses /\ Sibling(cur) \in Addresses
    BY <1>24, AddrFacts, Zenon DEF EnsureUnlocked, Step, CallInv, Converting
  <2> QED BY <1>24, <2>1, Zenon DEF EnsureUnlocked, Step, disk, Follow, add_unlocked_entry,
             bm_keyring_lock
<1>25. CASE bm_messages_store_rename_own_address
  BY <1>25, Zenon DEF bm_messages_store_rename_own_address, Step
<1>26. CASE ConvertLock
  <2>1. cur \in Addresses /\ Sibling(cur) \in Addresses
    BY <1>26, AddrFacts, Zenon DEF ConvertLock, Step, CallInv, Converting
  <2> QED BY <1>26, <2>1, Zenon DEF ConvertLock, Step, disk, Follow, add_unlocked_entry,
             bm_keyring_lock
<1>27. CASE ConvertDelete
  <2>1. cur \in Addresses /\ Sibling(cur) \in Addresses
    BY <1>27, AddrFacts, Zenon DEF ConvertDelete, Step, CallInv, Converting
  <2> QED BY <1>27, <2>1, Zenon DEF ConvertDelete, bm_identity_store_delete, Step, Follow,
             add_unlocked_entry, bm_keyring_lock
<1>28. CASE ConvertDone
  BY <1>28, Zenon DEF ConvertDone, Return, disk
<1>29. ASSUME NEW o \in Objects, NetStore(o)
      PROVE  HistoryOK'
  BY <1>29, Zenon DEF NetStore, call
<1>30. CASE bm_trial_decrypt_msg
  BY <1>30, Zenon DEF bm_trial_decrypt_msg, disk, call
<1>31. CASE store_decoded_msg
  BY <1>31, Zenon DEF store_decoded_msg, bm_messages_store_insert_inbox, call
<1>32. CASE Restart
  BY <1>32, Zenon DEF Restart, Follow
<1>33. CASE UNCHANGED vars
  BY <1>33, Zenon DEF vars, disk, net, call
<1> QED
  BY <1>1, <1>2, <1>3, <1>4, <1>5, <1>6, <1>7, <1>8, <1>9, <1>10, <1>11, <1>12, <1>13,
     <1>14, <1>15, <1>16, <1>17, <1>18, <1>19, <1>20, <1>21, <1>22, <1>23, <1>24, <1>25,
     <1>26, <1>27, <1>28, <1>29, <1>30, <1>31, <1>32, <1>33, ZenonT(60)
  DEF Next, Store, Unlock, Backfill, Lock, Convert, Receive

LEMMA TypeStep ==
  ASSUME TypeOK, CallInv, NetInv, [Next]_vars
  PROVE  TypeOK'
  BY RowsStep, EntriesStep, CallTypes, DataTypes, HistoryTypes, SMTT(40), ZenonT(60)
  DEF TypeOK, RowsOK, CallOK, DataOK, HistoryOK

(* What a call under way knows stays true.                                 *)
LEMMA CallStep ==
  ASSUME TypeOK, CallInv, [Next]_vars
  PROVE  CallInv'
<1> USE DEF TypeOK, CallInv, Converting
<1>1. ASSUME NEW a \in Addresses, NEW p \in Passphrases, h_createDeterministicAddress(a, p)
      PROVE  CallInv'
  <2>1. \A b \in Addresses : rows[b] # None => rows'[b] # None
    BY <1>1, Stored, ZenonT(60) DEF h_createDeterministicAddress, RowsOK
  <2> QED BY <1>1, <2>1, ZenonT(60) DEF h_createDeterministicAddress, call
<1>2. ASSUME NEW a \in Addresses, NEW p \in Passphrases, h_joinChan(a, p)
      PROVE  CallInv'
  <2>1. rows'[a] # None
    BY <1>2, Stored, ZenonT(60) DEF h_joinChan, RowsOK
  <2>2. apc' = "mark" /\ cur' = a /\ a # None /\ todo' = {}
    BY <1>2, AddrFacts, Zenon DEF h_joinChan
  <2> QED BY <2>1, <2>2, SMTT(40), ZenonT(60)
<1>3. ASSUME NEW S \in SUBSET Addresses, NEW C \in SUBSET S, NEW p \in Passphrases, h_importAddressesBulk(S, C, p)
      PROVE  CallInv'
  BY <1>3, KeyringAssumption, Zenon DEF h_importAddressesBulk, Call,
     resolve_or_create_vault_master_kek
<1>4. ASSUME NEW a \in todo, ImportOne(a)
      PROVE  CallInv'
  <2>1. a \in Addresses /\ pass \in Passphrases /\ vault = pass /\ a # None
    BY <1>4, AddrFacts, ZenonT(60) DEF ImportOne
  <2>2. CASE store_new_identity_with_kek(a, "vault", pass)
    <3>1. rows'[a] # None
      BY <2>1, <2>2, Stored, ZenonT(60) DEF RowsOK
    <3> QED BY <1>4, <2>1, <3>1, SMTT(40), ZenonT(60) DEF ImportOne
  <2>3. CASE UNCHANGED apc
    BY <1>4, <2>1, <2>3, SMTT(40), ZenonT(60) DEF ImportOne
  <2> QED BY <1>4, <2>2, <2>3, SMTT(40), ZenonT(60) DEF ImportOne
<1>5. CASE bm_keyring_mark_as_chan
  <2>1. apc' = "insert" /\ UNCHANGED <<pass, todo, vault>>
    BY <1>5 DEF bm_keyring_mark_as_chan, Step
  <2> QED BY <1>5, <2>1 DEF bm_keyring_mark_as_chan, Step
<1>6. CASE ImportDone
  BY <1>6, Zenon DEF ImportDone, Return, disk
<1>7. ASSUME NEW a \in Addresses, NEW p \in Passphrases, h_unlockAddress(a, p)
      PROVE  CallInv'
  BY <1>7, Zenon DEF h_unlockAddress, disk
<1>8. ASSUME NEW p \in Passphrases, h_unlockAllAddresses(p)
      PROVE  CallInv'
  BY <1>8, KeyringAssumption, Zenon DEF h_unlockAllAddresses, Call, disk
<1>9. ASSUME NEW S \in SUBSET Addresses, NEW C \in {{}, S}, NEW p \in Passphrases, h_unlockAddresses(S, C, p)
      PROVE  CallInv'
  BY <1>9, KeyringAssumption, SMTT(40), ZenonT(60) DEF h_unlockAddresses, Call, disk
<1>10. ASSUME NEW a \in todo, unlock_bulk_one(a)
      PROVE  CallInv'
  <2>1. a \in Addresses /\ a # None /\ pass # None
    BY <1>10, AddrFacts, ZenonT(60) DEF unlock_bulk_one
  <2>2. apc' \in {"unlock", "vault"} /\ cur' = a /\ UNCHANGED <<pass, rows, vault>>
    BY <1>10, Zenon DEF unlock_bulk_one, disk
  <2>3. apc' = "vault" => rows[a] # None /\ rows[a].pass = pass
    BY <1>10, Zenon DEF unlock_bulk_one, Opens
  <2> QED BY <2>1, <2>2, <2>3, Zenon
<1>11. CASE unlock_bulk_vault
  BY <1>11, Zenon DEF unlock_bulk_vault, Step
<1>12. CASE rewrap_to_vault
  <2>1. apc' = "unlock" /\ UNCHANGED pass /\ pass # None
    BY <1>12 DEF rewrap_to_vault, Step
  <2> QED BY <2>1, Zenon
<1>13. CASE UnlockDone
  BY <1>13, Zenon DEF UnlockDone, Return, disk
<1>14. CASE BackfillList
  BY <1>14, Zenon DEF BackfillList, disk
<1>15. ASSUME NEW o \in hashes, BackfillOne(o)
      PROVE  CallInv'
  BY <1>15, Zenon DEF BackfillOne, bm_messages_store_insert_inbox
<1>16. CASE BackfillDone
  BY <1>16, Zenon DEF BackfillDone, Return, disk
<1>17. ASSUME NEW a \in Addresses, h_lockAddress(a)
      PROVE  CallInv'
  BY <1>17, Zenon DEF h_lockAddress, disk, call
<1>18. ASSUME NEW a \in Addresses, h_deleteAddress(a)
      PROVE  CallInv'
  BY <1>18, AddrFacts, ZenonT(60) DEF h_deleteAddress, disk
<1>19. CASE h_lockAllAddresses
  BY <1>19, Zenon DEF h_lockAllAddresses, disk, call
<1>20. CASE DeleteRow
  BY <1>20, SMTT(40), ZenonT(60) DEF DeleteRow, bm_identity_store_delete, Return
<1>21. ASSUME NEW S \in SUBSET Addresses, NEW p \in Passphrases, h_convertV3AddressesToV4(S, p)
      PROVE  CallInv'
  BY <1>21, KeyringAssumption, SMTT(40), ZenonT(60) DEF h_convertV3AddressesToV4, Call, disk
<1>22. ASSUME NEW a \in todo, EnsureSibling(a)
      PROVE  CallInv'
  <2>1. a \in Addresses /\ a # None /\ V3(a) /\ pass \in Passphrases
        /\ Sibling(a) \in Addresses /\ Sibling(a) # a
    BY <1>22, AddrFacts, ZenonT(60) DEF EnsureSibling
  <2>2. apc' \in {"ensure", "flag"} /\ cur' = a /\ todo' \subseteq todo /\ UNCHANGED <<pass, vault>>
    BY <1>22, Zenon DEF EnsureSibling
  <2>3. apc' = "flag" => rows'[a] # None /\ rows'[Sibling(a)] # None
    <3>1. CASE store_new_identity_with_kek(Sibling(a), rows[a].algo, pass) /\ Opens(a, pass)
      <4>1. rows[a] # None /\ rows[a].algo \in {"scrypt", "vault"}
        BY <2>1, <3>1, Zenon DEF Opens, Row
      <4> QED BY <2>1, <3>1, <4>1, Stored, ZenonT(60) DEF RowsOK
    <3> QED BY <1>22, <3>1, SMTT(40), ZenonT(60) DEF EnsureSibling, Opens
  <2>4. pass # None /\ \A b \in todo' : V3(b)
    BY <1>22, <2>2, Zenon DEF EnsureSibling
  <2> QED BY <2>1, <2>2, <2>3, <2>4, SMTT(40), ZenonT(60)
<1>23. CASE EnsureChan
  <2>1. cur \in Addresses /\ rows[cur] # None /\ Sibling(cur) \in Addresses
        /\ rows[Sibling(cur)] # None /\ V3(cur) /\ cur # Sibling(cur)
    BY <1>23, AddrFacts DEF EnsureChan, Step
  <2>2. (rows[Sibling(cur)].chan \/ rows[cur].chan) \in BOOLEAN
    BY Zenon
  <2>3. rows'[cur] # None /\ rows'[Sibling(cur)] # None
    BY <1>23, <2>1, <2>2, Flagged, ZenonT(60) DEF EnsureChan, RowsOK
  <2> QED BY <1>23, <2>1, <2>3 DEF EnsureChan, Step
<1>24. CASE EnsureUnlocked
  BY <1>24, Zenon DEF EnsureUnlocked, Step, disk
<1>25. CASE bm_messages_store_rename_own_address
  BY <1>25, Zenon DEF bm_messages_store_rename_own_address, Step
<1>26. CASE ConvertLock
  BY <1>26, Zenon DEF ConvertLock, Step, disk
<1>27. CASE ConvertDelete
  <2>1. apc' = "ensure" /\ UNCHANGED <<pass, todo>>
    BY <1>27, Zenon DEF ConvertDelete, Step
  <2> QED BY <1>27, <2>1, SMTT(40), ZenonT(60) DEF ConvertDelete, Step
<1>28. CASE ConvertDone
  BY <1>28, SMTT(40), ZenonT(60) DEF ConvertDone, Return, disk
<1>29. ASSUME NEW o \in Objects, NetStore(o)
      PROVE  CallInv'
  BY <1>29, Zenon DEF NetStore, call
<1>30. CASE bm_trial_decrypt_msg
  BY <1>30, Zenon DEF bm_trial_decrypt_msg, disk, call
<1>31. CASE store_decoded_msg
  BY <1>31, Zenon DEF store_decoded_msg, bm_messages_store_insert_inbox, call
<1>32. CASE Restart
  <2>1. apc' = "idle" /\ todo' = {}
    BY <1>32, ZenonT(60) DEF Restart, Return
  <2> QED BY <2>1, SMTT(40), ZenonT(60)
<1>33. CASE UNCHANGED vars
  BY <1>33, Zenon DEF vars, disk, net, call
<1> QED
  BY <1>1, <1>2, <1>3, <1>4, <1>5, <1>6, <1>7, <1>8, <1>9, <1>10, <1>11, <1>12, <1>13,
     <1>14, <1>15, <1>16, <1>17, <1>18, <1>19, <1>20, <1>21, <1>22, <1>23, <1>24, <1>25,
     <1>26, <1>27, <1>28, <1>29, <1>30, <1>31, <1>32, <1>33, ZenonT(60)
  DEF Next, Store, Unlock, Backfill, Lock, Convert, Receive

LEMMA SiblingStep ==
  ASSUME TypeOK, CallInv, SiblingInv, [Next]_vars
  PROVE  SiblingInv'
<1> USE DEF TypeOK, SiblingInv, Unlocked
<1>1. ASSUME NEW a \in Addresses, NEW p \in Passphrases, h_createDeterministicAddress(a, p)
      PROVE  SiblingInv'
  BY <1>1, SMTT(40), ZenonT(60) DEF h_createDeterministicAddress,
     store_new_identity_with_kek, call
<1>2. ASSUME NEW a \in Addresses, NEW p \in Passphrases, h_joinChan(a, p)
      PROVE  SiblingInv'
  BY <1>2, Zenon DEF h_joinChan, store_new_identity_with_kek
<1>3. ASSUME NEW S \in SUBSET Addresses, NEW C \in SUBSET S, NEW p \in Passphrases, h_importAddressesBulk(S, C, p)
      PROVE  SiblingInv'
  BY <1>3 DEF h_importAddressesBulk, Call, resolve_or_create_vault_master_kek
<1>4. ASSUME NEW a \in todo, ImportOne(a)
      PROVE  SiblingInv'
  BY <1>4, Zenon DEF ImportOne, store_new_identity_with_kek
<1>5. CASE bm_keyring_mark_as_chan
  BY <1>5 DEF bm_keyring_mark_as_chan, Step
<1>6. CASE ImportDone
  BY <1>6, Zenon DEF ImportDone, Return, disk
<1>7. ASSUME NEW a \in Addresses, NEW p \in Passphrases, h_unlockAddress(a, p)
      PROVE  SiblingInv'
  BY <1>7, Zenon DEF h_unlockAddress
<1>8. ASSUME NEW p \in Passphrases, h_unlockAllAddresses(p)
      PROVE  SiblingInv'
  BY <1>8, Zenon DEF h_unlockAllAddresses, Call, disk
<1>9. ASSUME NEW S \in SUBSET Addresses, NEW C \in {{}, S}, NEW p \in Passphrases, h_unlockAddresses(S, C, p)
      PROVE  SiblingInv'
  BY <1>9, Zenon DEF h_unlockAddresses, Call, disk
<1>10. ASSUME NEW a \in todo, unlock_bulk_one(a)
      PROVE  SiblingInv'
  BY <1>10, Zenon DEF unlock_bulk_one, disk
<1>11. CASE unlock_bulk_vault
  BY <1>11, Zenon DEF unlock_bulk_vault, Step
<1>12. CASE rewrap_to_vault
  BY <1>12 DEF rewrap_to_vault, Step
<1>13. CASE UnlockDone
  BY <1>13, Zenon DEF UnlockDone, Return, disk
<1>14. CASE BackfillList
  BY <1>14, Zenon DEF BackfillList, disk
<1>15. ASSUME NEW o \in hashes, BackfillOne(o)
      PROVE  SiblingInv'
  BY <1>15, Zenon DEF BackfillOne, bm_messages_store_insert_inbox
<1>16. CASE BackfillDone
  BY <1>16, Zenon DEF BackfillDone, Return, disk
<1>17. ASSUME NEW a \in Addresses, h_lockAddress(a)
      PROVE  SiblingInv'
  BY <1>17, Zenon DEF h_lockAddress, disk, call
<1>18. ASSUME NEW a \in Addresses, h_deleteAddress(a)
      PROVE  SiblingInv'
  BY <1>18, Zenon DEF h_deleteAddress, disk
<1>19. CASE h_lockAllAddresses
  BY <1>19, Zenon DEF h_lockAllAddresses, disk, call
<1>20. CASE DeleteRow
  BY <1>20, Zenon DEF DeleteRow, bm_identity_store_delete, Return
<1>21. ASSUME NEW S \in SUBSET Addresses, NEW p \in Passphrases, h_convertV3AddressesToV4(S, p)
      PROVE  SiblingInv'
  BY <1>21, Zenon DEF h_convertV3AddressesToV4, Call, disk
<1>22. ASSUME NEW a \in todo, EnsureSibling(a)
      PROVE  SiblingInv'
  BY <1>22, Zenon DEF EnsureSibling, store_new_identity_with_kek
<1>23. CASE EnsureChan
  BY <1>23 DEF EnsureChan, Step
<1>24. CASE EnsureUnlocked
  <2>1. cur \in Addresses /\ Sibling(cur) \in Addresses /\ rows[Sibling(cur)] # None
    BY <1>24, AddrFacts, Zenon DEF EnsureUnlocked, Step, CallInv, Converting
  <2>2. rows[Sibling(cur)].chan \in BOOLEAN
    BY <2>1, Zenon DEF Row
  <2> QED BY <1>24, <2>1, <2>2, Added, Zenon DEF EnsureUnlocked, Step
<1>25. CASE bm_messages_store_rename_own_address
  BY <1>25, Zenon DEF bm_messages_store_rename_own_address, Step
<1>26. CASE ConvertLock
  BY <1>26, Zenon DEF ConvertLock, Step, disk
<1>27. CASE ConvertDelete
  BY <1>27, Zenon DEF ConvertDelete, bm_identity_store_delete, Step
<1>28. CASE ConvertDone
  BY <1>28, Zenon DEF ConvertDone, Return, disk
<1>29. ASSUME NEW o \in Objects, NetStore(o)
      PROVE  SiblingInv'
  BY <1>29, Zenon DEF NetStore, call
<1>30. CASE bm_trial_decrypt_msg
  BY <1>30, Zenon DEF bm_trial_decrypt_msg, disk, call
<1>31. CASE store_decoded_msg
  BY <1>31, Zenon DEF store_decoded_msg, bm_messages_store_insert_inbox, call
<1>32. CASE Restart
  BY <1>32, Zenon DEF Restart, Return, disk
<1>33. CASE UNCHANGED vars
  BY <1>33, Zenon DEF vars, disk, net, call
<1> QED
  BY <1>1, <1>2, <1>3, <1>4, <1>5, <1>6, <1>7, <1>8, <1>9, <1>10, <1>11, <1>12, <1>13,
     <1>14, <1>15, <1>16, <1>17, <1>18, <1>19, <1>20, <1>21, <1>22, <1>23, <1>24, <1>25,
     <1>26, <1>27, <1>28, <1>29, <1>30, <1>31, <1>32, <1>33, ZenonT(60)
  DEF Next, Store, Unlock, Backfill, Lock, Convert, Receive

(* No write makes an address unopenable.                                   *)
LEMMA OpenStep ==
  ASSUME TypeOK, CallInv, StaysOpenable, [Next]_vars
  PROVE  StaysOpenable'
<1> USE DEF TypeOK, StaysOpenable, Opens
<1>1. ASSUME NEW a \in Addresses, NEW p \in Passphrases, h_createDeterministicAddress(a, p)
      PROVE  StaysOpenable'
  <2>1. rows'[a] # None /\ rows'[a].pass = p /\ made'[a] = p /\ rows'[a].algo = "scrypt"
        /\ \A b \in Addresses : b # a => rows'[b] = rows[b] /\ made'[b] = made[b]
    BY <1>1, Stored, ZenonT(60) DEF h_createDeterministicAddress, RowsOK
  <2> QED BY <1>1, <2>1, SMTT(40), ZenonT(60) DEF h_createDeterministicAddress
<1>2. ASSUME NEW a \in Addresses, NEW p \in Passphrases, h_joinChan(a, p)
      PROVE  StaysOpenable'
  <2>1. rows'[a] # None /\ rows'[a].pass = p /\ made'[a] = p /\ rows'[a].algo = "scrypt"
        /\ \A b \in Addresses : b # a => rows'[b] = rows[b] /\ made'[b] = made[b]
    BY <1>2, Stored, ZenonT(60) DEF h_joinChan, RowsOK
  <2> QED BY <1>2, <2>1, ZenonT(60) DEF h_joinChan
<1>3. ASSUME NEW S \in SUBSET Addresses, NEW C \in SUBSET S, NEW p \in Passphrases, h_importAddressesBulk(S, C, p)
      PROVE  StaysOpenable'
  BY <1>3, SMTT(40), ZenonT(60) DEF h_importAddressesBulk, Call,
     resolve_or_create_vault_master_kek
<1>4. ASSUME NEW a \in todo, ImportOne(a)
      PROVE  StaysOpenable'
  <2>1. pass \in Passphrases /\ a \in Addresses /\ vault = pass /\ UNCHANGED vault
    BY <1>4, Zenon DEF ImportOne, CallInv
  <2>2. CASE store_new_identity_with_kek(a, "vault", pass)
    <3>1. rows'[a] # None /\ rows'[a].pass = pass /\ made'[a] = pass
          /\ \A b \in Addresses : b # a => rows'[b] = rows[b] /\ made'[b] = made[b]
      BY <2>1, <2>2, Stored, ZenonT(60) DEF RowsOK
    <3> QED BY <2>1, <3>1, Zenon
  <2> QED BY <1>4, <2>1, <2>2, Zenon DEF ImportOne
<1>5. CASE bm_keyring_mark_as_chan
  <2>1. cur \in Addresses /\ rows[cur] # None
    BY <1>5 DEF bm_keyring_mark_as_chan, Step, CallInv
  <2>2. \A b \in Addresses : rows[b] # None =>
          rows'[b] # None /\ rows'[b].algo = rows[b].algo /\ rows'[b].pass = rows[b].pass
    BY <1>5, <2>1, Flagged, ZenonT(60) DEF bm_keyring_mark_as_chan, RowsOK
  <2> QED BY <1>5, <2>2 DEF bm_keyring_mark_as_chan
<1>6. CASE ImportDone
  BY <1>6, Zenon DEF ImportDone, Return, disk
<1>7. ASSUME NEW a \in Addresses, NEW p \in Passphrases, h_unlockAddress(a, p)
      PROVE  StaysOpenable'
  BY <1>7, Zenon DEF h_unlockAddress, disk
<1>8. ASSUME NEW p \in Passphrases, h_unlockAllAddresses(p)
      PROVE  StaysOpenable'
  BY <1>8, Zenon DEF h_unlockAllAddresses, Call, disk
<1>9. ASSUME NEW S \in SUBSET Addresses, NEW C \in {{}, S}, NEW p \in Passphrases, h_unlockAddresses(S, C, p)
      PROVE  StaysOpenable'
  BY <1>9, Zenon DEF h_unlockAddresses, Call, disk
<1>10. ASSUME NEW a \in todo, unlock_bulk_one(a)
      PROVE  StaysOpenable'
  BY <1>10, Zenon DEF unlock_bulk_one, disk
<1>11. CASE unlock_bulk_vault
  BY <1>11, Zenon DEF unlock_bulk_vault, Step
<1>12. CASE rewrap_to_vault
  <2>1. cur \in Addresses /\ rows[cur] # None /\ vault \in Passphrases
        /\ vault = pass /\ rows[cur].pass = pass
    BY <1>12 DEF rewrap_to_vault, Step, CallInv
  <2>2. rows'[cur] # None /\ rows'[cur].pass = vault
        /\ \A b \in Addresses : b # cur => rows'[b] = rows[b]
    BY <1>12, <2>1, Rewrapped, ZenonT(60) DEF rewrap_to_vault, RowsOK
  <2> QED BY <1>12, <2>1, <2>2, ZenonT(60) DEF rewrap_to_vault
<1>13. CASE UnlockDone
  BY <1>13, Zenon DEF UnlockDone, Return, disk
<1>14. CASE BackfillList
  BY <1>14, Zenon DEF BackfillList, disk
<1>15. ASSUME NEW o \in hashes, BackfillOne(o)
      PROVE  StaysOpenable'
  BY <1>15, Zenon DEF BackfillOne, bm_messages_store_insert_inbox
<1>16. CASE BackfillDone
  BY <1>16, Zenon DEF BackfillDone, Return, disk
<1>17. ASSUME NEW a \in Addresses, h_lockAddress(a)
      PROVE  StaysOpenable'
  BY <1>17, Zenon DEF h_lockAddress, disk, call
<1>18. ASSUME NEW a \in Addresses, h_deleteAddress(a)
      PROVE  StaysOpenable'
  BY <1>18, Zenon DEF h_deleteAddress, disk
<1>19. CASE h_lockAllAddresses
  BY <1>19, Zenon DEF h_lockAllAddresses, disk, call
<1>20. CASE DeleteRow
  <2>1. cur \in Addresses
    BY <1>20, Zenon DEF DeleteRow, CallInv
  <2> QED BY <1>20, <2>1, Deleted, SMTT(40), ZenonT(60) DEF DeleteRow, RowsOK
<1>21. ASSUME NEW S \in SUBSET Addresses, NEW p \in Passphrases, h_convertV3AddressesToV4(S, p)
      PROVE  StaysOpenable'
  BY <1>21, Zenon DEF h_convertV3AddressesToV4, Call, disk
<1>22. ASSUME NEW a \in todo, EnsureSibling(a)
      PROVE  StaysOpenable'
  <2>1. a \in Addresses /\ pass \in Passphrases /\ Sibling(a) \in Addresses /\ UNCHANGED vault
    BY <1>22, AddrFacts, Zenon DEF EnsureSibling, CallInv, Converting
  <2>2. CASE store_new_identity_with_kek(Sibling(a), rows[a].algo, pass) /\ Opens(a, pass)
    <3>1. rows[a].algo \in {"scrypt", "vault"}
      BY <2>1, <2>2, SMTT(40), ZenonT(60) DEF Row
    <3>2. /\ rows'[Sibling(a)] # None /\ rows'[Sibling(a)].pass = pass /\ made'[Sibling(a)] = pass
          /\ rows'[Sibling(a)].algo = rows[a].algo
          /\ \A b \in Addresses : b # Sibling(a) => rows'[b] = rows[b] /\ made'[b] = made[b]
      BY <2>1, <2>2, <3>1, Stored, ZenonT(60) DEF RowsOK
    <3> QED BY <2>1, <2>2, <3>2, ZenonT(60)
  <2> QED BY <1>22, <2>1, <2>2, Zenon DEF EnsureSibling
<1>23. CASE EnsureChan
  <2>1. cur \in Addresses /\ Sibling(cur) \in Addresses /\ rows[Sibling(cur)] # None
    BY <1>23, AddrFacts DEF EnsureChan, Step, CallInv, Converting
  <2>2. (rows[Sibling(cur)].chan \/ rows[cur].chan) \in BOOLEAN
    BY Zenon
  <2>3. \A b \in Addresses : rows[b] # None =>
          rows'[b] # None /\ rows'[b].algo = rows[b].algo /\ rows'[b].pass = rows[b].pass
    BY <1>23, <2>1, <2>2, Flagged, ZenonT(60) DEF EnsureChan, RowsOK
  <2> QED BY <1>23, <2>3 DEF EnsureChan
<1>24. CASE EnsureUnlocked
  BY <1>24, Zenon DEF EnsureUnlocked, Step, disk
<1>25. CASE bm_messages_store_rename_own_address
  BY <1>25, Zenon DEF bm_messages_store_rename_own_address, Step
<1>26. CASE ConvertLock
  BY <1>26, Zenon DEF ConvertLock, Step, disk
<1>27. CASE ConvertDelete
  <2>1. cur \in Addresses
    BY <1>27, Zenon DEF ConvertDelete, Step, CallInv, Converting
  <2> QED BY <1>27, <2>1, Deleted, ZenonT(60) DEF ConvertDelete, RowsOK
<1>28. CASE ConvertDone
  BY <1>28, Zenon DEF ConvertDone, Return, disk
<1>29. ASSUME NEW o \in Objects, NetStore(o)
      PROVE  StaysOpenable'
  BY <1>29, Zenon DEF NetStore, call
<1>30. CASE bm_trial_decrypt_msg
  BY <1>30, Zenon DEF bm_trial_decrypt_msg, disk, call
<1>31. CASE store_decoded_msg
  BY <1>31, Zenon DEF store_decoded_msg, bm_messages_store_insert_inbox, call
<1>32. CASE Restart
  BY <1>32, Zenon DEF Restart, Return, disk
<1>33. CASE UNCHANGED vars
  BY <1>33, Zenon DEF vars, disk, net, call
<1> QED
  BY <1>1, <1>2, <1>3, <1>4, <1>5, <1>6, <1>7, <1>8, <1>9, <1>10, <1>11, <1>12, <1>13,
     <1>14, <1>15, <1>16, <1>17, <1>18, <1>19, <1>20, <1>21, <1>22, <1>23, <1>24, <1>25,
     <1>26, <1>27, <1>28, <1>29, <1>30, <1>31, <1>32, <1>33, ZenonT(60)
  DEF Next, Store, Unlock, Backfill, Lock, Convert, Receive

LEMMA NetStep ==
  ASSUME TypeOK, NetInv, [Next]_vars
  PROVE  NetInv'
<1> USE DEF TypeOK, NetInv
<1>1. ASSUME NEW a \in Addresses, NEW p \in Passphrases, h_createDeterministicAddress(a, p)
      PROVE  NetInv'
  BY <1>1, SMTT(40), ZenonT(60) DEF h_createDeterministicAddress,
     store_new_identity_with_kek, call, net
<1>2. ASSUME NEW a \in Addresses, NEW p \in Passphrases, h_joinChan(a, p)
      PROVE  NetInv'
  BY <1>2, Zenon DEF h_joinChan, store_new_identity_with_kek, net
<1>3. ASSUME NEW S \in SUBSET Addresses, NEW C \in SUBSET S, NEW p \in Passphrases, h_importAddressesBulk(S, C, p)
      PROVE  NetInv'
  BY <1>3, Zenon DEF h_importAddressesBulk, Call, resolve_or_create_vault_master_kek, net
<1>4. ASSUME NEW a \in todo, ImportOne(a)
      PROVE  NetInv'
  BY <1>4, Zenon DEF ImportOne, store_new_identity_with_kek, net
<1>5. CASE bm_keyring_mark_as_chan
  BY <1>5 DEF bm_keyring_mark_as_chan, Step, net
<1>6. CASE ImportDone
  BY <1>6, Zenon DEF ImportDone, Return, disk, net
<1>7. ASSUME NEW a \in Addresses, NEW p \in Passphrases, h_unlockAddress(a, p)
      PROVE  NetInv'
  BY <1>7, Zenon DEF h_unlockAddress, disk, net
<1>8. ASSUME NEW p \in Passphrases, h_unlockAllAddresses(p)
      PROVE  NetInv'
  BY <1>8, Zenon DEF h_unlockAllAddresses, Call, disk, net
<1>9. ASSUME NEW S \in SUBSET Addresses, NEW C \in {{}, S}, NEW p \in Passphrases, h_unlockAddresses(S, C, p)
      PROVE  NetInv'
  BY <1>9, Zenon DEF h_unlockAddresses, Call, disk, net
<1>10. ASSUME NEW a \in todo, unlock_bulk_one(a)
      PROVE  NetInv'
  BY <1>10, Zenon DEF unlock_bulk_one, disk, net
<1>11. CASE unlock_bulk_vault
  BY <1>11, Zenon DEF unlock_bulk_vault, Step, net
<1>12. CASE rewrap_to_vault
  BY <1>12 DEF rewrap_to_vault, Step, net
<1>13. CASE UnlockDone
  BY <1>13, Zenon DEF UnlockDone, Return, disk, net
<1>14. CASE BackfillList
  BY <1>14, Zenon DEF BackfillList, disk, net
<1>15. ASSUME NEW o \in hashes, BackfillOne(o)
      PROVE  NetInv'
  BY <1>15, Zenon DEF BackfillOne, bm_messages_store_insert_inbox, net
<1>16. CASE BackfillDone
  BY <1>16, Zenon DEF BackfillDone, Return, disk, net
<1>17. ASSUME NEW a \in Addresses, h_lockAddress(a)
      PROVE  NetInv'
  BY <1>17, Zenon DEF h_lockAddress, disk, call, net
<1>18. ASSUME NEW a \in Addresses, h_deleteAddress(a)
      PROVE  NetInv'
  BY <1>18, Zenon DEF h_deleteAddress, disk, net
<1>19. CASE h_lockAllAddresses
  BY <1>19, Zenon DEF h_lockAllAddresses, disk, call, net
<1>20. CASE DeleteRow
  BY <1>20, Zenon DEF DeleteRow, bm_identity_store_delete, Return, net
<1>21. ASSUME NEW S \in SUBSET Addresses, NEW p \in Passphrases, h_convertV3AddressesToV4(S, p)
      PROVE  NetInv'
  BY <1>21, Zenon DEF h_convertV3AddressesToV4, Call, disk, net
<1>22. ASSUME NEW a \in todo, EnsureSibling(a)
      PROVE  NetInv'
  BY <1>22, Zenon DEF EnsureSibling, store_new_identity_with_kek, net
<1>23. CASE EnsureChan
  BY <1>23 DEF EnsureChan, Step, net
<1>24. CASE EnsureUnlocked
  BY <1>24, Zenon DEF EnsureUnlocked, Step, disk, net
<1>25. CASE bm_messages_store_rename_own_address
  BY <1>25, Zenon DEF bm_messages_store_rename_own_address, Step, net
<1>26. CASE ConvertLock
  BY <1>26, Zenon DEF ConvertLock, Step, disk, net
<1>27. CASE ConvertDelete
  BY <1>27, Zenon DEF ConvertDelete, bm_identity_store_delete, Step, net
<1>28. CASE ConvertDone
  BY <1>28, Zenon DEF ConvertDone, Return, disk, net
<1>29. ASSUME NEW o \in Objects, NetStore(o)
      PROVE  NetInv'
  BY <1>29, KeyringAssumption, Zenon DEF NetStore
<1>30. CASE bm_trial_decrypt_msg
  <2>1. \A i \in 1 .. Len(entries) : entries[i].addr # None
    <3>1. \A i \in 1 .. Len(entries) : entries[i] \in Entry
      OBVIOUS
    <3> QED BY <3>1, AddrFacts, ZenonT(60) DEF Entry
  <2> QED BY <1>30, <2>1, SMTT(40), ZenonT(60) DEF bm_trial_decrypt_msg
<1>31. CASE store_decoded_msg
  BY <1>31, Zenon DEF store_decoded_msg, bm_messages_store_insert_inbox, call, net
<1>32. CASE Restart
  BY <1>32, Zenon DEF Restart, Return, disk
<1>33. CASE UNCHANGED vars
  BY <1>33, Zenon DEF vars, disk, net, call
<1> QED
  BY <1>1, <1>2, <1>3, <1>4, <1>5, <1>6, <1>7, <1>8, <1>9, <1>10, <1>11, <1>12, <1>13,
     <1>14, <1>15, <1>16, <1>17, <1>18, <1>19, <1>20, <1>21, <1>22, <1>23, <1>24, <1>25,
     <1>26, <1>27, <1>28, <1>29, <1>30, <1>31, <1>32, <1>33, ZenonT(60)
  DEF Next, Store, Unlock, Backfill, Lock, Convert, Receive

(* A message in the inbox stays there.                                     *)
LEMMA Filed ==
  ASSUME TypeOK, NEW o \in Objects, NEW a \in Addresses, bm_messages_store_insert_inbox(o, a)
  PROVE  /\ inbox'[o] # None
         /\ \A x \in Objects : inbox[x] # None => inbox'[x] # None
  BY AddrFacts, Zenon DEF TypeOK, bm_messages_store_insert_inbox

LEMMA Renamed ==
  ASSUME TypeOK, cur \in Addresses,
         inbox' = [o \in Objects |-> IF inbox[o] = cur THEN Sibling(cur) ELSE inbox[o]]
  PROVE  \A o \in Objects : inbox[o] # None => inbox'[o] # None
  BY AddrFacts, Zenon DEF TypeOK

(* The keys of a call that unlocks and backfills are in the keyring.       *)
LEMMA KeyStep ==
  ASSUME TypeOK, CallInv, KeyInv, [Next]_vars
  PROVE  KeyInv'
<1> USE DEF TypeOK, KeyInv, KeysOf
<1>1. ASSUME NEW a \in Addresses, NEW p \in Passphrases, h_createDeterministicAddress(a, p)
      PROVE  KeyInv'
  BY <1>1, SMTT(40), ZenonT(60) DEF h_createDeterministicAddress,
     store_new_identity_with_kek, call
<1>2. ASSUME NEW a \in Addresses, NEW p \in Passphrases, h_joinChan(a, p)
      PROVE  KeyInv'
  BY <1>2, Zenon DEF h_joinChan, store_new_identity_with_kek
<1>3. ASSUME NEW S \in SUBSET Addresses, NEW C \in SUBSET S, NEW p \in Passphrases, h_importAddressesBulk(S, C, p)
      PROVE  KeyInv'
  BY <1>3, Zenon DEF h_importAddressesBulk, Call, resolve_or_create_vault_master_kek
<1>4. ASSUME NEW a \in todo, ImportOne(a)
      PROVE  KeyInv'
  BY <1>4, Zenon DEF ImportOne, store_new_identity_with_kek
<1>5. CASE bm_keyring_mark_as_chan
  BY <1>5 DEF bm_keyring_mark_as_chan, Step
<1>6. CASE ImportDone
  BY <1>6, Zenon DEF ImportDone, Return, disk
<1>7. ASSUME NEW a \in Addresses, NEW p \in Passphrases, h_unlockAddress(a, p)
      PROVE  KeyInv'
  <2>1. rows[a].chan \in BOOLEAN
    BY <1>7, SMTT(40), ZenonT(60) DEF h_unlockAddress, Opens, Row
  <2>2. AddrsOf(entries') = AddrsOf(entries) \cup {a}
    BY <1>7, <2>1, Added, Zenon DEF h_unlockAddress
  <2> QED BY <1>7, <2>2, SMTT(40), ZenonT(60) DEF h_unlockAddress, add_unlocked_entry, Follow
<1>8. ASSUME NEW p \in Passphrases, h_unlockAllAddresses(p)
      PROVE  KeyInv'
  BY <1>8, SMTT(40), ZenonT(60) DEF h_unlockAllAddresses, Call, disk
<1>9. ASSUME NEW S \in SUBSET Addresses, NEW C \in {{}, S}, NEW p \in Passphrases, h_unlockAddresses(S, C, p)
      PROVE  KeyInv'
  BY <1>9, Zenon DEF h_unlockAddresses, Call, disk
<1>10. ASSUME NEW a \in todo, unlock_bulk_one(a)
      PROVE  KeyInv'
  <2>1. a \in Addresses
    BY <1>10, SMTT(40), ZenonT(60) DEF unlock_bulk_one
  <2>2. CASE Opens(a, pass) /\ add_unlocked_entry(a, rows[a].chan) /\ UNCHANGED sel
    <3>1. rows[a].chan \in BOOLEAN
      BY <2>1, <2>2, SMTT(40), ZenonT(60) DEF Opens, Row
    <3>2. AddrsOf(entries') = AddrsOf(entries) \cup {a}
      BY <2>1, <2>2, <3>1, Added, Zenon
    <3> QED BY <1>10, <2>2, <3>2, SMTT(40), ZenonT(60) DEF unlock_bulk_one,
               add_unlocked_entry, Follow
  <2>3. CASE UNCHANGED <<entries, covered, apc>> /\ sel' = IF Unlocked(a) THEN sel ELSE sel \ {a}
    BY <1>10, <2>3, SMTT(40), ZenonT(60) DEF unlock_bulk_one, Unlocked
  <2> QED BY <1>10, <2>2, <2>3, SMTT(40), ZenonT(60) DEF unlock_bulk_one
<1>11. CASE unlock_bulk_vault
  BY <1>11, Zenon DEF unlock_bulk_vault, Step
<1>12. CASE rewrap_to_vault
  BY <1>12 DEF rewrap_to_vault, Step
<1>13. CASE UnlockDone
  BY <1>13, Zenon DEF UnlockDone, Return
<1>14. CASE BackfillList
  BY <1>14, Zenon DEF BackfillList, disk
<1>15. ASSUME NEW o \in hashes, BackfillOne(o)
      PROVE  KeyInv'
  BY <1>15, Zenon DEF BackfillOne, bm_messages_store_insert_inbox
<1>16. CASE BackfillDone
  BY <1>16, Zenon DEF BackfillDone, Return, disk
<1>17. ASSUME NEW a \in Addresses, h_lockAddress(a)
      PROVE  KeyInv'
  BY <1>17, Zenon DEF h_lockAddress, bm_keyring_lock, Follow, call
<1>18. ASSUME NEW a \in Addresses, h_deleteAddress(a)
      PROVE  KeyInv'
  BY <1>18, Zenon DEF h_deleteAddress, bm_keyring_lock, Follow
<1>19. CASE h_lockAllAddresses
  BY <1>19, Zenon DEF h_lockAllAddresses, Follow, call
<1>20. CASE DeleteRow
  BY <1>20, Zenon DEF DeleteRow, bm_identity_store_delete, Return
<1>21. ASSUME NEW S \in SUBSET Addresses, NEW p \in Passphrases, h_convertV3AddressesToV4(S, p)
      PROVE  KeyInv'
  BY <1>21, Zenon DEF h_convertV3AddressesToV4, Call, disk
<1>22. ASSUME NEW a \in todo, EnsureSibling(a)
      PROVE  KeyInv'
  BY <1>22, Zenon DEF EnsureSibling, store_new_identity_with_kek
<1>23. CASE EnsureChan
  <2>1. cur \in Addresses /\ Sibling(cur) \in Addresses
    BY <1>23, AddrFacts DEF EnsureChan, Step, CallInv, Converting
  <2>2. AddrsOf(entries') = AddrsOf(entries)
    BY <1>23, <2>1, Marked DEF EnsureChan
  <2> QED BY <1>23, <2>2 DEF EnsureChan, Step
<1>24. CASE EnsureUnlocked
  BY <1>24, Zenon DEF EnsureUnlocked, Step, add_unlocked_entry, Follow
<1>25. CASE bm_messages_store_rename_own_address
  BY <1>25, Zenon DEF bm_messages_store_rename_own_address, Step
<1>26. CASE ConvertLock
  BY <1>26, Zenon DEF ConvertLock, Step, bm_keyring_lock, Follow
<1>27. CASE ConvertDelete
  BY <1>27, Zenon DEF ConvertDelete, bm_identity_store_delete, Step
<1>28. CASE ConvertDone
  BY <1>28, Zenon DEF ConvertDone, Return, disk
<1>29. ASSUME NEW o \in Objects, NetStore(o)
      PROVE  KeyInv'
  BY <1>29, Zenon DEF NetStore, call
<1>30. CASE bm_trial_decrypt_msg
  BY <1>30, SMTT(40), ZenonT(60) DEF bm_trial_decrypt_msg, disk, call
<1>31. CASE store_decoded_msg
  BY <1>31, Zenon DEF store_decoded_msg, bm_messages_store_insert_inbox, call
<1>32. CASE Restart
  BY <1>32, Zenon DEF Restart, Return, Follow
<1>33. CASE UNCHANGED vars
  BY <1>33, Zenon DEF vars, disk, net, call
<1> QED
  BY <1>1, <1>2, <1>3, <1>4, <1>5, <1>6, <1>7, <1>8, <1>9, <1>10, <1>11, <1>12, <1>13,
     <1>14, <1>15, <1>16, <1>17, <1>18, <1>19, <1>20, <1>21, <1>22, <1>23, <1>24, <1>25,
     <1>26, <1>27, <1>28, <1>29, <1>30, <1>31, <1>32, <1>33, ZenonT(60)
  DEF Next, Store, Unlock, Backfill, Lock, Convert, Receive

(* An object of the pool is tried by the backfill, filed, or with the      *)
(* network thread.                                                         *)
LEMMA FillStep ==
  ASSUME TypeOK, CallInv, NetInv, KeyInv, FillInv, [Next]_vars
  PROVE  FillInv'
<1> USE DEF TypeOK, FillInv
<1>1. ASSUME NEW a \in Addresses, NEW p \in Passphrases, h_createDeterministicAddress(a, p)
      PROVE  FillInv'
  BY <1>1, SMTT(40), ZenonT(60) DEF h_createDeterministicAddress,
     store_new_identity_with_kek, call, net
<1>2. ASSUME NEW a \in Addresses, NEW p \in Passphrases, h_joinChan(a, p)
      PROVE  FillInv'
  BY <1>2, SMTT(40), ZenonT(60) DEF h_joinChan, store_new_identity_with_kek, net
<1>3. ASSUME NEW S \in SUBSET Addresses, NEW C \in SUBSET S, NEW p \in Passphrases, h_importAddressesBulk(S, C, p)
      PROVE  FillInv'
  BY <1>3, Zenon DEF h_importAddressesBulk, Call, resolve_or_create_vault_master_kek, net
<1>4. ASSUME NEW a \in todo, ImportOne(a)
      PROVE  FillInv'
  BY <1>4, SMTT(40), ZenonT(60) DEF ImportOne, store_new_identity_with_kek, net
<1>5. CASE bm_keyring_mark_as_chan
  BY <1>5 DEF bm_keyring_mark_as_chan, Step, net
<1>6. CASE ImportDone
  BY <1>6, Zenon DEF ImportDone, Return, disk, net
<1>7. ASSUME NEW a \in Addresses, NEW p \in Passphrases, h_unlockAddress(a, p)
      PROVE  FillInv'
  BY <1>7, SMTT(40), ZenonT(60) DEF h_unlockAddress
<1>8. ASSUME NEW p \in Passphrases, h_unlockAllAddresses(p)
      PROVE  FillInv'
  BY <1>8, Zenon DEF h_unlockAllAddresses, Call, disk, net
<1>9. ASSUME NEW S \in SUBSET Addresses, NEW C \in {{}, S}, NEW p \in Passphrases, h_unlockAddresses(S, C, p)
      PROVE  FillInv'
  BY <1>9, Zenon DEF h_unlockAddresses, Call, disk, net
<1>10. ASSUME NEW a \in todo, unlock_bulk_one(a)
      PROVE  FillInv'
  BY <1>10, SMTT(40), ZenonT(60) DEF unlock_bulk_one, disk, net
<1>11. CASE unlock_bulk_vault
  BY <1>11, SMTT(40), ZenonT(60) DEF unlock_bulk_vault, Step, net
<1>12. CASE rewrap_to_vault
  BY <1>12 DEF rewrap_to_vault, Step, net
<1>13. CASE UnlockDone
  BY <1>13, SMTT(40), ZenonT(60) DEF UnlockDone, Return, disk, net
<1>14. CASE BackfillList
  BY <1>14, Zenon DEF BackfillList, disk, net
<1>15. ASSUME NEW o \in hashes, BackfillOne(o)
      PROVE  FillInv'
  <2>1. ASSUME NEW a \in sel, bm_messages_store_insert_inbox(o, a) PROVE FillInv'
    <3>1. inbox'[o] # None /\ \A x \in Objects : inbox[x] # None => inbox'[x] # None
      BY <2>1, Filed, ZenonT(60)
    <3> QED BY <1>15, <3>1, ZenonT(60) DEF BackfillOne, net
  <2>2. CASE (\A a \in sel : Key(a) # ToKey[o]) /\ UNCHANGED inbox
    BY <1>15, <2>2, Zenon DEF BackfillOne, net
  <2> QED BY <1>15, <2>1, <2>2, SMTT(40), ZenonT(60) DEF BackfillOne
<1>16. CASE BackfillDone
  BY <1>16, Zenon DEF BackfillDone, Return, disk, net
<1>17. ASSUME NEW a \in Addresses, h_lockAddress(a)
      PROVE  FillInv'
  BY <1>17, Zenon DEF h_lockAddress, disk, call, net
<1>18. ASSUME NEW a \in Addresses, h_deleteAddress(a)
      PROVE  FillInv'
  BY <1>18, Zenon DEF h_deleteAddress, disk, net
<1>19. CASE h_lockAllAddresses
  BY <1>19, Zenon DEF h_lockAllAddresses, disk, call, net
<1>20. CASE DeleteRow
  BY <1>20, SMTT(40), ZenonT(60) DEF DeleteRow, bm_identity_store_delete, Return, net
<1>21. ASSUME NEW S \in SUBSET Addresses, NEW p \in Passphrases, h_convertV3AddressesToV4(S, p)
      PROVE  FillInv'
  BY <1>21, Zenon DEF h_convertV3AddressesToV4, Call, disk, net
<1>22. ASSUME NEW a \in todo, EnsureSibling(a)
      PROVE  FillInv'
  BY <1>22, SMTT(40), ZenonT(60) DEF EnsureSibling, store_new_identity_with_kek, net
<1>23. CASE EnsureChan
  BY <1>23 DEF EnsureChan, Step, net
<1>24. CASE EnsureUnlocked
  BY <1>24, Zenon DEF EnsureUnlocked, Step, disk, net
<1>25. CASE bm_messages_store_rename_own_address
  BY <1>25, Zenon DEF bm_messages_store_rename_own_address, Step, net
<1>26. CASE ConvertLock
  BY <1>26, SMTT(40), ZenonT(60) DEF ConvertLock, Step, disk, net
<1>27. CASE ConvertDelete
  BY <1>27, ZenonT(60) DEF ConvertDelete, bm_identity_store_delete, Step, net
<1>28. CASE ConvertDone
  BY <1>28, Zenon DEF ConvertDone, Return, disk, net
<1>29. ASSUME NEW o \in Objects, NetStore(o)
      PROVE  FillInv'
  BY <1>29, KeyringAssumption, SMTT(40), ZenonT(60) DEF NetStore, NetInv, call
<1>30. CASE bm_trial_decrypt_msg
  <2>1. CASE UNCHANGED nobj
    BY <1>30, <2>1, SMTT(40), ZenonT(60) DEF bm_trial_decrypt_msg, disk, call
  <2>2. CASE ToKey[nobj] \notin KeysOf(entries)
    BY <1>30, <2>2, ZenonT(60) DEF bm_trial_decrypt_msg, KeysOf, KeyInv, disk, call
  <2> QED BY <1>30, <2>1, <2>2, ZenonT(60) DEF bm_trial_decrypt_msg
<1>31. CASE store_decoded_msg
  <2>1. nobj \in Objects /\ naddr \in Addresses
    BY <1>31, SMTT(40), ZenonT(60) DEF store_decoded_msg, NetInv
  <2>2. inbox'[nobj] # None /\ \A x \in Objects : inbox[x] # None => inbox'[x] # None
    BY <1>31, <2>1, Filed, ZenonT(60) DEF store_decoded_msg
  <2> QED BY <1>31, <2>2, SMTT(40), ZenonT(60) DEF store_decoded_msg, call
<1>32. CASE Restart
  BY <1>32, ZenonT(60) DEF Restart, Return, disk
<1>33. CASE UNCHANGED vars
  BY <1>33, SMTT(40), ZenonT(60) DEF vars, disk, net, call
<1> QED
  BY <1>1, <1>2, <1>3, <1>4, <1>5, <1>6, <1>7, <1>8, <1>9, <1>10, <1>11, <1>12, <1>13,
     <1>14, <1>15, <1>16, <1>17, <1>18, <1>19, <1>20, <1>21, <1>22, <1>23, <1>24, <1>25,
     <1>26, <1>27, <1>28, <1>29, <1>30, <1>31, <1>32, <1>33, ZenonT(60)
  DEF Next, Store, Unlock, Backfill, Lock, Convert, Receive

LEMMA NoKeys == ASSUME NEW s, s = <<>> PROVE KeysOf(s) = {}
BY DEF KeysOf, AddrsOf

LEMMA MissedStep ==
  ASSUME TypeOK, CallInv, NetInv, KeyInv, FillInv, NothingMissed, [Next]_vars
  PROVE  NothingMissed'
<1> USE DEF TypeOK, NothingMissed
<1>1. ASSUME NEW a \in Addresses, NEW p \in Passphrases, h_createDeterministicAddress(a, p)
      PROVE  NothingMissed'
  BY <1>1, SMTT(40), ZenonT(60) DEF h_createDeterministicAddress,
     store_new_identity_with_kek, call, net
<1>2. ASSUME NEW a \in Addresses, NEW p \in Passphrases, h_joinChan(a, p)
      PROVE  NothingMissed'
  BY <1>2, SMTT(40), ZenonT(60) DEF h_joinChan, store_new_identity_with_kek, net
<1>3. ASSUME NEW S \in SUBSET Addresses, NEW C \in SUBSET S, NEW p \in Passphrases, h_importAddressesBulk(S, C, p)
      PROVE  NothingMissed'
  BY <1>3, Zenon DEF h_importAddressesBulk, Call, resolve_or_create_vault_master_kek, net
<1>4. ASSUME NEW a \in todo, ImportOne(a)
      PROVE  NothingMissed'
  BY <1>4, Zenon DEF ImportOne, store_new_identity_with_kek, net
<1>5. CASE bm_keyring_mark_as_chan
  BY <1>5 DEF bm_keyring_mark_as_chan, Step, net
<1>6. CASE ImportDone
  BY <1>6, Zenon DEF ImportDone, Return, disk, net
<1>7. ASSUME NEW a \in Addresses, NEW p \in Passphrases, h_unlockAddress(a, p)
      PROVE  NothingMissed'
  BY <1>7, Zenon DEF h_unlockAddress, disk, net, Follow, add_unlocked_entry, bm_keyring_lock
<1>8. ASSUME NEW p \in Passphrases, h_unlockAllAddresses(p)
      PROVE  NothingMissed'
  BY <1>8, Zenon DEF h_unlockAllAddresses, Call, disk, net
<1>9. ASSUME NEW S \in SUBSET Addresses, NEW C \in {{}, S}, NEW p \in Passphrases, h_unlockAddresses(S, C, p)
      PROVE  NothingMissed'
  BY <1>9, Zenon DEF h_unlockAddresses, Call, disk, net
<1>10. ASSUME NEW a \in todo, unlock_bulk_one(a)
      PROVE  NothingMissed'
  BY <1>10, ZenonT(60) DEF unlock_bulk_one, disk, net, Follow, add_unlocked_entry,
     bm_keyring_lock
<1>11. CASE unlock_bulk_vault
  BY <1>11, Zenon DEF unlock_bulk_vault, Step, net
<1>12. CASE rewrap_to_vault
  BY <1>12 DEF rewrap_to_vault, Step, net
<1>13. CASE UnlockDone
  BY <1>13, Zenon DEF UnlockDone, Return, disk, net
<1>14. CASE BackfillList
  BY <1>14, Zenon DEF BackfillList, disk, net
<1>15. ASSUME NEW o \in hashes, BackfillOne(o)
      PROVE  NothingMissed'
  <2>1. \A x \in Objects : inbox[x] # None => inbox'[x] # None
    BY <1>15, Filed, ZenonT(60) DEF BackfillOne
  <2> QED BY <1>15, <2>1, SMTT(40), ZenonT(60) DEF BackfillOne, net
<1>16. CASE BackfillDone
  BY <1>16, SMTT(40), ZenonT(60) DEF BackfillDone, FillInv, disk, net
<1>17. ASSUME NEW a \in Addresses, h_lockAddress(a)
      PROVE  NothingMissed'
  BY <1>17, Zenon DEF h_lockAddress, disk, net, Follow, add_unlocked_entry, bm_keyring_lock
<1>18. ASSUME NEW a \in Addresses, h_deleteAddress(a)
      PROVE  NothingMissed'
  BY <1>18, Zenon DEF h_deleteAddress, disk, net, Follow, add_unlocked_entry, bm_keyring_lock
<1>19. CASE h_lockAllAddresses
  BY <1>19, Zenon DEF h_lockAllAddresses, disk, net, Follow
<1>20. CASE DeleteRow
  BY <1>20, Zenon DEF DeleteRow, bm_identity_store_delete, Return, net
<1>21. ASSUME NEW S \in SUBSET Addresses, NEW p \in Passphrases, h_convertV3AddressesToV4(S, p)
      PROVE  NothingMissed'
  BY <1>21, Zenon DEF h_convertV3AddressesToV4, Call, disk, net
<1>22. ASSUME NEW a \in todo, EnsureSibling(a)
      PROVE  NothingMissed'
  BY <1>22, Zenon DEF EnsureSibling, store_new_identity_with_kek, net
<1>23. CASE EnsureChan
  BY <1>23 DEF EnsureChan, Step, net
<1>24. CASE EnsureUnlocked
  BY <1>24, Zenon DEF EnsureUnlocked, disk, net, Follow, add_unlocked_entry, bm_keyring_lock
<1>25. CASE bm_messages_store_rename_own_address
  <2>1. cur \in Addresses
    BY <1>25, Zenon DEF bm_messages_store_rename_own_address, Step, CallInv, Converting
  <2>2. \A x \in Objects : inbox[x] # None => inbox'[x] # None
    BY <1>25, <2>1, Renamed, SMTT(40), ZenonT(60) DEF bm_messages_store_rename_own_address
  <2> QED BY <1>25, <2>2, Zenon DEF bm_messages_store_rename_own_address, net
<1>26. CASE ConvertLock
  BY <1>26, Zenon DEF ConvertLock, disk, net, Follow, add_unlocked_entry, bm_keyring_lock
<1>27. CASE ConvertDelete
  BY <1>27, SMTT(40), ZenonT(60) DEF ConvertDelete, bm_identity_store_delete, Step, net
<1>28. CASE ConvertDone
  BY <1>28, Zenon DEF ConvertDone, Return, disk, net
<1>29. ASSUME NEW o \in Objects, NetStore(o)
      PROVE  NothingMissed'
  BY <1>29, KeyringAssumption DEF NetStore, NetInv
<1>30. CASE bm_trial_decrypt_msg
  <2>1. CASE UNCHANGED nobj
    BY <1>30, <2>1, SMTT(40), ZenonT(60) DEF bm_trial_decrypt_msg, disk
  <2>2. CASE ToKey[nobj] \notin KeysOf(entries)
    BY <1>30, <2>2, SMTT(40), ZenonT(60) DEF bm_trial_decrypt_msg, KeyInv, disk
  <2> QED BY <1>30, <2>1, <2>2, SMTT(40), ZenonT(60) DEF bm_trial_decrypt_msg
<1>31. CASE store_decoded_msg
  <2>1. nobj \in Objects /\ naddr \in Addresses
    BY <1>31, SMTT(40), ZenonT(60) DEF store_decoded_msg, NetInv
  <2>2. inbox'[nobj] # None /\ \A x \in Objects : inbox[x] # None => inbox'[x] # None
    BY <1>31, <2>1, Filed, ZenonT(60) DEF store_decoded_msg
  <2> QED BY <1>31, <2>2, SMTT(40), ZenonT(60) DEF store_decoded_msg
<1>32. CASE Restart
  <2>1. KeysOf(entries') = {}
    <3>1. entries' = <<>>
      BY <1>32, Zenon DEF Restart
    <3> QED BY ONLY <3>1, NoKeys
  <2> QED BY <1>32, <2>1, SMTT(40), ZenonT(60) DEF Restart, Follow, disk
<1>33. CASE UNCHANGED vars
  BY <1>33, Zenon DEF vars, disk, net, call
<1> QED
  BY <1>1, <1>2, <1>3, <1>4, <1>5, <1>6, <1>7, <1>8, <1>9, <1>10, <1>11, <1>12, <1>13,
     <1>14, <1>15, <1>16, <1>17, <1>18, <1>19, <1>20, <1>21, <1>22, <1>23, <1>24, <1>25,
     <1>26, <1>27, <1>28, <1>29, <1>30, <1>31, <1>32, <1>33, ZenonT(60)
  DEF Next, Store, Unlock, Backfill, Lock, Convert, Receive

LEMMA GapStep ==
  ASSUME TypeOK, CallInv, SiblingInv, apc \in Converting, ~Restart, [Next]_vars
  PROVE  KeysOf(entries) \subseteq KeysOf(entries')
<1> USE DEF TypeOK, Converting
<1>1. ASSUME NEW a \in Addresses, NEW p \in Passphrases, h_createDeterministicAddress(a, p)
      PROVE  KeysOf(entries) \subseteq KeysOf(entries')
  BY <1>1, SMTT(40), ZenonT(60) DEF h_createDeterministicAddress,
     store_new_identity_with_kek, call
<1>2. ASSUME NEW a \in Addresses, NEW p \in Passphrases, h_joinChan(a, p)
      PROVE  KeysOf(entries) \subseteq KeysOf(entries')
  BY <1>2, Zenon DEF h_joinChan, store_new_identity_with_kek
<1>3. ASSUME NEW S \in SUBSET Addresses, NEW C \in SUBSET S, NEW p \in Passphrases, h_importAddressesBulk(S, C, p)
      PROVE  KeysOf(entries) \subseteq KeysOf(entries')
  BY <1>3, Zenon DEF h_importAddressesBulk, Call, resolve_or_create_vault_master_kek
<1>4. ASSUME NEW a \in todo, ImportOne(a)
      PROVE  KeysOf(entries) \subseteq KeysOf(entries')
  BY <1>4, Zenon DEF ImportOne, store_new_identity_with_kek
<1>5. CASE bm_keyring_mark_as_chan
  BY <1>5 DEF bm_keyring_mark_as_chan, Step
<1>6. CASE ImportDone
  BY <1>6, Zenon DEF ImportDone, Return, disk
<1>7. ASSUME NEW a \in Addresses, NEW p \in Passphrases, h_unlockAddress(a, p)
      PROVE  KeysOf(entries) \subseteq KeysOf(entries')
  BY <1>7, Zenon DEF h_unlockAddress
<1>8. ASSUME NEW p \in Passphrases, h_unlockAllAddresses(p)
      PROVE  KeysOf(entries) \subseteq KeysOf(entries')
  BY <1>8, Zenon DEF h_unlockAllAddresses, Call, disk
<1>9. ASSUME NEW S \in SUBSET Addresses, NEW C \in {{}, S}, NEW p \in Passphrases, h_unlockAddresses(S, C, p)
      PROVE  KeysOf(entries) \subseteq KeysOf(entries')
  BY <1>9, Zenon DEF h_unlockAddresses, Call, disk
<1>10. ASSUME NEW a \in todo, unlock_bulk_one(a)
      PROVE  KeysOf(entries) \subseteq KeysOf(entries')
  BY <1>10, Zenon DEF unlock_bulk_one
<1>11. CASE unlock_bulk_vault
  BY <1>11, Zenon DEF unlock_bulk_vault, Step
<1>12. CASE rewrap_to_vault
  BY <1>12 DEF rewrap_to_vault, Step
<1>13. CASE UnlockDone
  BY <1>13, Zenon DEF UnlockDone, Return, disk
<1>14. CASE BackfillList
  BY <1>14, Zenon DEF BackfillList, disk
<1>15. ASSUME NEW o \in hashes, BackfillOne(o)
      PROVE  KeysOf(entries) \subseteq KeysOf(entries')
  BY <1>15, Zenon DEF BackfillOne, bm_messages_store_insert_inbox
<1>16. CASE BackfillDone
  BY <1>16, Zenon DEF BackfillDone, Return, disk
<1>17. ASSUME NEW a \in Addresses, h_lockAddress(a)
      PROVE  KeysOf(entries) \subseteq KeysOf(entries')
  BY <1>17, Zenon DEF h_lockAddress
<1>18. ASSUME NEW a \in Addresses, h_deleteAddress(a)
      PROVE  KeysOf(entries) \subseteq KeysOf(entries')
  BY <1>18, Zenon DEF h_deleteAddress
<1>19. CASE h_lockAllAddresses
  BY <1>19, Zenon DEF h_lockAllAddresses
<1>20. CASE DeleteRow
  BY <1>20, Zenon DEF DeleteRow, bm_identity_store_delete, Return
<1>21. ASSUME NEW S \in SUBSET Addresses, NEW p \in Passphrases, h_convertV3AddressesToV4(S, p)
      PROVE  KeysOf(entries) \subseteq KeysOf(entries')
  BY <1>21, Zenon DEF h_convertV3AddressesToV4, Call, disk
<1>22. ASSUME NEW a \in todo, EnsureSibling(a)
      PROVE  KeysOf(entries) \subseteq KeysOf(entries')
  BY <1>22, SMTT(40), ZenonT(60) DEF EnsureSibling, store_new_identity_with_kek
<1>23. CASE EnsureChan
  <2>1. cur \in Addresses /\ Sibling(cur) \in Addresses
    BY <1>23, AddrFacts DEF EnsureChan, Step, CallInv
  <2>2. AddrsOf(entries') = AddrsOf(entries)
    BY <1>23, <2>1, Marked DEF EnsureChan
  <2> QED BY <2>2, Zenon DEF KeysOf
<1>24. CASE EnsureUnlocked
  <2>1. cur \in Addresses /\ Sibling(cur) \in Addresses /\ rows[Sibling(cur)] # None
    BY <1>24, AddrFacts, SMTT(40), ZenonT(60) DEF EnsureUnlocked, Step, CallInv
  <2>2. rows[Sibling(cur)].chan \in BOOLEAN
    BY <2>1, SMTT(40), ZenonT(60) DEF Row
  <2>3. AddrsOf(entries) \subseteq AddrsOf(entries')
    BY <1>24, <2>1, <2>2, Added, Zenon DEF EnsureUnlocked
  <2> QED BY <2>3, Zenon DEF KeysOf
<1>25. CASE bm_messages_store_rename_own_address
  BY <1>25, Zenon DEF bm_messages_store_rename_own_address, Step
<1>26. CASE ConvertLock
  <2>1. cur \in Addresses /\ V3(cur) /\ Key(Sibling(cur)) = Key(cur) /\ Sibling(cur) # cur
    BY <1>26, AddrFacts, SMTT(40), ZenonT(60) DEF ConvertLock, Step, CallInv
  <2>2. /\ AddrsOf(entries) \subseteq AddrsOf(entries') \cup {cur}
        /\ AddrsOf(entries') \subseteq AddrsOf(entries)
    BY <1>26, <2>1, Locked, Zenon DEF ConvertLock
  <2>3. cur \in AddrsOf(entries) => Sibling(cur) \in AddrsOf(entries)
    BY <1>26, Zenon DEF ConvertLock, Step, SiblingInv, Unlocked
  <2> QED BY <2>1, <2>2, <2>3, Zenon DEF KeysOf
<1>27. CASE ConvertDelete
  BY <1>27, Zenon DEF ConvertDelete, bm_identity_store_delete, Step
<1>28. CASE ConvertDone
  BY <1>28, Zenon DEF ConvertDone, Return, disk
<1>29. ASSUME NEW o \in Objects, NetStore(o)
      PROVE  KeysOf(entries) \subseteq KeysOf(entries')
  BY <1>29, Zenon DEF NetStore, call
<1>30. CASE bm_trial_decrypt_msg
  BY <1>30, SMTT(40), ZenonT(60) DEF bm_trial_decrypt_msg, disk, call
<1>31. CASE store_decoded_msg
  BY <1>31, Zenon DEF store_decoded_msg, bm_messages_store_insert_inbox, call
<1>32. CASE Restart
  BY <1>32, Zenon
<1>33. CASE UNCHANGED vars
  BY <1>33, Zenon DEF vars, disk, net, call
<1> QED
  BY <1>1, <1>2, <1>3, <1>4, <1>5, <1>6, <1>7, <1>8, <1>9, <1>10, <1>11, <1>12, <1>13,
     <1>14, <1>15, <1>16, <1>17, <1>18, <1>19, <1>20, <1>21, <1>22, <1>23, <1>24, <1>25,
     <1>26, <1>27, <1>28, <1>29, <1>30, <1>31, <1>32, <1>33, ZenonT(60)
  DEF Next, Store, Unlock, Backfill, Lock, Convert, Receive

-----------------------------------------------------------------------------
LEMMA InitIInv == Init => IInv
<1> SUFFICES ASSUME Init PROVE IInv
  OBVIOUS
<1>1. TypeOK
  BY DEF Init, TypeOK, ApiPCs
<1>2. CallInv /\ SiblingInv /\ NetInv /\ FillInv
  BY Zenon DEF Init, CallInv, SiblingInv, NetInv, FillInv, Converting
<1>3. KeyInv /\ StaysOpenable /\ NothingMissed
  BY Zenon DEF Init, KeyInv, StaysOpenable, NothingMissed
<1> QED BY <1>1, <1>2, <1>3 DEF IInv

LEMMA NextIInv == IInv /\ [Next]_vars => IInv'
<1> SUFFICES ASSUME IInv, [Next]_vars PROVE IInv'
  OBVIOUS
<1>1. TypeOK' /\ CallInv' /\ SiblingInv' /\ NetInv'
  BY TypeStep, CallStep, SiblingStep, NetStep DEF IInv
<1>2. KeyInv' /\ FillInv' /\ StaysOpenable' /\ NothingMissed'
  BY KeyStep, FillStep, OpenStep, MissedStep DEF IInv
<1> QED BY <1>1, <1>2, Zenon DEF IInv

LEMMA AlwaysIInv == Spec => []IInv
  BY InitIInv, NextIInv, PTL DEF Spec

(* Every variable keeps its type, and every step of a call finds the       *)
(* address and the row it works on.                                        *)
THEOREM KeyringTypes == Spec => []TypeOK
  BY AlwaysIInv, PTL DEF IInv

(* However imports, unlocks that move rows to the vault's key, conversions *)
(* and restarts follow each other, a stored address opens with the         *)
(* passphrase it was stored with.                                          *)
THEOREM Openable == Spec => []StaysOpenable
  BY AlwaysIInv, PTL DEF IInv

(* Between an unlock, its backfill and the network thread, no message to   *)
(* an unlocked and backfilled key pair falls through.                      *)
THEOREM Received == Spec => []NothingMissed
  BY AlwaysIInv, PTL DEF IInv

(* No step of a conversion stops the reception for a key pair.             *)
THEOREM ReceptionGoesOn == Spec => NoGap
<1>1. IInv /\ [Next]_vars => [(apc \in Converting /\ ~Restart)
                                 => (KeysOf(entries) \subseteq KeysOf(entries'))]_vars
  BY GapStep DEF IInv
<1> QED BY <1>1, AlwaysIInv, PTL DEF Spec, NoGap

-----------------------------------------------------------------------------
(* A chan stays a chan.  An address that was not unlocked twice has one    *)
(* entry at most, which has a row and agrees with its flag; a row that was *)
(* just stored or is about to be deleted has no entry (EntryInv, FreshInv);*)
(* and once a conversion has copied the flag, the v4 row has it (ChanInv). *)
OnceIn(s, a) ==
    \A i, j \in 1 .. Len(s) : s[i].addr = a /\ s[j].addr = a => i = j
ChanIn(s, a) == \A i \in 1 .. Len(s) : s[i].addr = a => s[i].chan
Flag(a) == rows[a] # None /\ rows[a].chan
Fresh(a) == a \in twice \/ ~Unlocked(a)

EntryInv(a) ==
    a \notin twice =>
        /\ OnceIn(entries, a)
        /\ Unlocked(a) => rows[a] # None
        /\ Flag(a) => ChanIn(entries, a)

FreshInv(a) ==
    /\ apc \in {"mark", "delete", "forget"} /\ cur = a => Fresh(a)
    /\ apc = "flag" /\ a \in sel => Fresh(a)

ChanInv(a) ==
    a \in chans =>
        /\ Flag(a)
        /\ apc \in {"probe", "rename", "drop", "forget"} /\ cur = a => Flag(Sibling(a))

CInv == \A a \in Addresses : EntryInv(a) /\ FreshInv(a) /\ ChanInv(a)

LEMMA Nowhere ==
  ASSUME NEW s, NEW a, a \notin AddrsOf(s)
  PROVE  OnceIn(s, a) /\ ChanIn(s, a)
  BY Zenon DEF AddrsOf, OnceIn, ChanIn

LEMMA AddedIn ==
  ASSUME entries \in Seq(Entry), NEW a \in Addresses, NEW c \in BOOLEAN,
         add_unlocked_entry(a, c)
  PROVE  /\ \A x \in Addresses \ {a} :
               /\ OnceIn(entries, x) => OnceIn(entries', x)
               /\ ChanIn(entries, x) => ChanIn(entries', x)
         /\ ~Unlocked(a) => OnceIn(entries', a) /\ (c => ChanIn(entries', a))
<1> DEFINE e == [addr |-> a, chan |-> c]
<1>1. e \in Entry /\ e.addr = a /\ e.chan = c
  BY Zenon DEF Entry
<1>2. entries' = <<e>> \o entries
  BY DEF add_unlocked_entry
<1> HIDE DEF e
<1>3. entries' \in Seq(Entry) /\ Len(entries') = Len(entries) + 1 /\ Len(entries) \in Nat
  BY <1>1, <1>2
<1>4. entries'[1] = e /\ \A i \in 1 .. Len(entries) : entries'[i + 1] = entries[i]
  BY <1>1, <1>2
<1>5. \A i \in 1 .. Len(entries') :
        i # 1 => i - 1 \in 1 .. Len(entries) /\ entries'[i] = entries[i - 1]
  BY <1>3, <1>4
<1>6. ASSUME NEW x \in Addresses \ {a}, OnceIn(entries, x)
      PROVE  OnceIn(entries', x)
  <2> SUFFICES ASSUME NEW i \in 1 .. Len(entries'), NEW j \in 1 .. Len(entries'),
                      entries'[i].addr = x, entries'[j].addr = x
               PROVE  i = j
    BY Zenon DEF OnceIn
  <2>1. i # 1 /\ j # 1
    BY <1>1, <1>4, <1>6, Zenon
  <2>2. i - 1 \in 1 .. Len(entries) /\ j - 1 \in 1 .. Len(entries)
        /\ entries[i - 1].addr = x /\ entries[j - 1].addr = x
    BY <1>5, <2>1, Zenon
  <2>3. i - 1 = j - 1
    BY <1>6, <2>2, Zenon DEF OnceIn
  <2> QED BY <1>3, <2>3
<1>7. ASSUME NEW x \in Addresses \ {a}, ChanIn(entries, x)
      PROVE  ChanIn(entries', x)
  BY <1>1, <1>4, <1>5, <1>7 DEF ChanIn
<1>8. ASSUME ~Unlocked(a)
      PROVE  OnceIn(entries', a) /\ (c => ChanIn(entries', a))
  <2>1. \A i \in 1 .. Len(entries') : entries'[i].addr = a => i = 1
    BY <1>5, <1>8, Zenon DEF Unlocked, AddrsOf
  <2> QED BY <1>1, <1>4, <2>1, ZenonT(30) DEF OnceIn, ChanIn
<1> QED BY <1>6, <1>7, <1>8, Zenon

LEMMA LockedIn ==
  ASSUME entries \in Seq(Entry), NEW a \in Addresses, bm_keyring_lock(a)
  PROVE  /\ \A x \in Addresses :
               /\ OnceIn(entries, x) => OnceIn(entries', x)
               /\ ChanIn(entries, x) => ChanIn(entries', x)
         /\ OnceIn(entries, a) => a \notin AddrsOf(entries')
<1>1. CASE ~Unlocked(a) /\ UNCHANGED entries
  BY <1>1 DEF Unlocked
<1>2. ASSUME NEW i \in 1 .. Len(entries), IsFirst(i, {a}),
             entries' = SubSeq(entries, 1, i - 1)
                          \o SubSeq(entries, i + 1, Len(entries))
      PROVE  /\ \A x \in Addresses :
                   /\ OnceIn(entries, x) => OnceIn(entries', x)
                   /\ ChanIn(entries, x) => ChanIn(entries', x)
             /\ OnceIn(entries, a) => a \notin AddrsOf(entries')
  <2> DEFINE to(j) == IF j < i THEN j ELSE j + 1
  <2>1. /\ Len(entries) \in Nat /\ entries[i].addr = a
        /\ Len(entries') = Len(entries) - 1
        /\ \A j \in 1 .. Len(entries) - 1 :
              entries'[j] = IF j < i THEN entries[j] ELSE entries[j + 1]
    BY <1>2, LockedAt, Zenon DEF Cut
  <2>2. \A j \in 1 .. Len(entries') :
           to(j) \in 1 .. Len(entries) /\ to(j) # i /\ entries'[j] = entries[to(j)]
    BY <2>1
  <2>3. \A j, k \in 1 .. Len(entries') : to(j) = to(k) => j = k
    BY <2>1
  <2> HIDE DEF to
  <2>4. ASSUME NEW x \in Addresses, OnceIn(entries, x)
        PROVE  OnceIn(entries', x)
    BY <2>2, <2>3, <2>4, ZenonT(30) DEF OnceIn
  <2>5. ASSUME NEW x \in Addresses, ChanIn(entries, x)
        PROVE  ChanIn(entries', x)
    BY <2>2, <2>5, ZenonT(30) DEF ChanIn
  <2>6. ASSUME OnceIn(entries, a)
        PROVE  a \notin AddrsOf(entries')
    BY <1>2, <2>1, <2>2, <2>6, ZenonT(30) DEF OnceIn, AddrsOf
  <2> QED BY <2>4, <2>5, <2>6
<1> QED BY <1>1, <1>2, ZenonT(60) DEF bm_keyring_lock

LEMMA MarkedIn ==
  ASSUME entries \in Seq(Entry), NEW a \in Addresses, mark_unlocked_entry_as_chan(a)
  PROVE  /\ \A x \in Addresses :
               /\ OnceIn(entries, x) => OnceIn(entries', x)
               /\ ChanIn(entries, x) => ChanIn(entries', x)
         /\ OnceIn(entries, a) => ChanIn(entries', a)
<1>1. Len(entries) \in Nat /\ \A i \in 1 .. Len(entries) : entries[i] \in Entry
  OBVIOUS
<1>2. ASSUME NEW i \in 1 .. Len(entries)
      PROVE  /\ [entries[i] EXCEPT !.chan = TRUE].chan = TRUE
             /\ [entries[i] EXCEPT !.chan = TRUE].addr = entries[i].addr
  BY <1>1, ZenonT(60) DEF Entry
<1>3. \A i \in 1 .. Len(entries) :
        /\ entries'[i].addr = entries[i].addr
        /\ entries'[i] = entries[i] \/ entries'[i].chan = TRUE
        /\ IsFirst(i, {a}) => entries'[i].chan = TRUE
  BY <1>1, <1>2 DEF mark_unlocked_entry_as_chan
<1>4. Len(entries') = Len(entries)
  BY <1>1 DEF mark_unlocked_entry_as_chan
<1>5. ASSUME NEW x \in Addresses, OnceIn(entries, x)
      PROVE  OnceIn(entries', x)
  BY <1>3, <1>4, <1>5, ZenonT(30) DEF OnceIn
<1>6. ASSUME NEW x \in Addresses, ChanIn(entries, x)
      PROVE  ChanIn(entries', x)
  BY <1>3, <1>4, <1>6, ZenonT(30) DEF ChanIn
<1>7. ASSUME OnceIn(entries, a)
      PROVE  ChanIn(entries', a)
  <2> SUFFICES ASSUME NEW i \in 1 .. Len(entries), entries[i].addr = a
               PROVE  IsFirst(i, {a})
    BY <1>3, <1>4, ZenonT(30) DEF ChanIn
  <2>1. \A j \in 1 .. i - 1 : j \in 1 .. Len(entries) /\ j # i
    BY <1>1
  <2> QED BY <1>7, <2>1, ZenonT(30) DEF OnceIn, IsFirst
<1> QED BY <1>5, <1>6, <1>7, Zenon

(* EntryInv after each kind of write; what a write leaves free of entries. *)
LEMMA EntryStored ==
  ASSUME TypeOK, CInv, NEW a \in Addresses, NEW algo \in {"scrypt", "vault"},
         NEW p \in Passphrases, store_new_identity_with_kek(a, algo, p),
         UNCHANGED <<entries, twice>>
  PROVE  /\ \A x \in Addresses : EntryInv(x)'
         /\ \A x \in chans \cap Addresses : x # a /\ rows'[x] = rows[x]
         /\ Fresh(a)'
<1>1. /\ rows[a] = None /\ rows'[a] # None /\ rows'[a].chan = FALSE
      /\ \A b \in Addresses : b # a => rows'[b] = rows[b]
  BY Stored, Zenon DEF TypeOK, RowsOK
<1>2. ASSUME NEW x \in Addresses
      PROVE  EntryInv(x)'
  <2>1. EntryInv(x)
    BY DEF CInv
  <2>2. CASE x = a
    BY <1>1, <2>1, <2>2, Zenon DEF EntryInv, Flag, Unlocked
  <2>3. CASE x # a
    BY <1>1, <2>1, <2>3, Zenon DEF EntryInv, Flag, Unlocked
  <2> QED BY <2>2, <2>3
<1>3. \A x \in chans \cap Addresses : x # a
  BY <1>1, Zenon DEF CInv, ChanInv, Flag
<1>4. Fresh(a)'
  BY <1>1, Zenon DEF CInv, EntryInv, Fresh, Unlocked
<1> QED BY <1>1, <1>2, <1>3, <1>4, Zenon

LEMMA EntryAdded ==
  ASSUME TypeOK, CInv, NEW a \in Addresses, rows[a] # None,
         add_unlocked_entry(a, rows[a].chan), UNCHANGED rows
  PROVE  \A x \in Addresses : EntryInv(x)'
<1>1. rows[a].chan \in BOOLEAN /\ entries \in Seq(Entry)
  BY Zenon DEF TypeOK, Row
<1>2. AddrsOf(entries') = AddrsOf(entries) \cup {a}
  BY <1>1, Added, Zenon
<1>3. twice' = (twice \cup ({a} \cap AddrsOf(entries))) \cap AddrsOf(entries')
  BY Zenon DEF add_unlocked_entry, Follow
<1>4. /\ \A x \in Addresses \ {a} :
            /\ OnceIn(entries, x) => OnceIn(entries', x)
            /\ ChanIn(entries, x) => ChanIn(entries', x)
      /\ ~Unlocked(a) => OnceIn(entries', a) /\ (rows[a].chan => ChanIn(entries', a))
  BY <1>1, AddedIn, Zenon
<1>5. ASSUME NEW x \in Addresses, x \notin twice'
      PROVE  /\ OnceIn(entries', x)
             /\ x \in AddrsOf(entries') => rows[x] # None
             /\ Flag(x) => ChanIn(entries', x)
  <2>1. CASE x \notin AddrsOf(entries')
    BY <2>1, Nowhere, Zenon
  <2>2. CASE x = a
    BY <1>2, <1>3, <1>4, <1>5, <2>2, Zenon DEF Unlocked, Flag
  <2>3. CASE x # a /\ x \in AddrsOf(entries')
    <3>1. x \notin twice /\ x \in AddrsOf(entries)
      BY <1>2, <1>3, <1>5, <2>3, Zenon
    <3> QED BY <1>4, <2>3, <3>1, Zenon DEF CInv, EntryInv, Unlocked
  <2> QED BY <2>1, <2>2, <2>3, Zenon
<1> QED BY <1>5, Zenon DEF EntryInv, Unlocked, Flag

LEMMA EntryLocked ==
  ASSUME TypeOK, CInv, NEW a \in Addresses, bm_keyring_lock(a), UNCHANGED rows
  PROVE  /\ \A x \in Addresses : EntryInv(x)'
         /\ Fresh(a)'
<1>1. entries \in Seq(Entry)
  BY Zenon DEF TypeOK
<1>2. AddrsOf(entries') \subseteq AddrsOf(entries)
  BY <1>1, Locked
<1>3. twice' = twice \cap AddrsOf(entries')
  BY Zenon DEF bm_keyring_lock, Follow
<1>4. /\ \A x \in Addresses :
            /\ OnceIn(entries, x) => OnceIn(entries', x)
            /\ ChanIn(entries, x) => ChanIn(entries', x)
      /\ OnceIn(entries, a) => a \notin AddrsOf(entries')
  BY <1>1, LockedIn, Zenon
<1>5. ASSUME NEW x \in Addresses, x \notin twice'
      PROVE  /\ OnceIn(entries', x)
             /\ x \in AddrsOf(entries') => rows[x] # None
             /\ Flag(x) => ChanIn(entries', x)
  <2>1. CASE x \notin AddrsOf(entries')
    BY <2>1, Nowhere, Zenon
  <2>2. CASE x \in AddrsOf(entries')
    <3>1. x \notin twice /\ x \in AddrsOf(entries)
      BY <1>2, <1>3, <1>5, <2>2, Zenon
    <3> QED BY <1>4, <3>1, Zenon DEF CInv, EntryInv, Unlocked
  <2> QED BY <2>1, <2>2, Zenon
<1>6. a \in twice' \/ a \notin AddrsOf(entries')
  BY <1>3, <1>4, Zenon DEF CInv, EntryInv
<1> QED BY <1>5, <1>6, Zenon DEF EntryInv, Unlocked, Flag, Fresh

LEMMA EntryDeleted ==
  ASSUME TypeOK, CInv, NEW a \in Addresses, Fresh(a),
         bm_identity_store_delete(a), UNCHANGED <<entries, twice>>
  PROVE  /\ \A x \in Addresses : EntryInv(x)'
         /\ \A x \in Addresses : x # a => rows'[x] = rows[x]
<1>1. rows'[a] = None /\ \A b \in Addresses : b # a => rows'[b] = rows[b]
  BY Deleted, Zenon DEF TypeOK, RowsOK
<1>2. ASSUME NEW x \in Addresses
      PROVE  EntryInv(x)'
  <2>1. EntryInv(x)
    BY DEF CInv
  <2>2. CASE x = a
    BY <1>1, <2>1, <2>2, Zenon DEF EntryInv, Flag, Unlocked, Fresh
  <2>3. CASE x # a
    BY <1>1, <2>1, <2>3, Zenon DEF EntryInv, Flag, Unlocked
  <2> QED BY <2>2, <2>3
<1> QED BY <1>1, <1>2, Zenon

LEMMA EntryEmptied ==
  ASSUME CInv, entries' = <<>>, UNCHANGED rows
  PROVE  \A x \in Addresses : EntryInv(x)'
<1>1. AddrsOf(entries') = {}
  BY DEF AddrsOf
<1> QED BY <1>1, Nowhere, Zenon DEF EntryInv, Unlocked

(* The flag of a row after a write to the flag or to the way it is wrapped.*)
LEMMA FlagSet ==
  ASSUME TypeOK, NEW a \in Addresses, rows[a] # None, NEW c \in BOOLEAN,
         rows' = [rows EXCEPT ![a].chan = c]
  PROVE  /\ rows'[a] # None /\ rows'[a].chan = c
         /\ \A b \in Addresses : b # a => rows'[b] = rows[b]
<1> DEFINE r == [rows[a] EXCEPT !.chan = c]
<1>1. rows[a] \in Row
  BY DEF TypeOK
<1>2. r \in Row /\ r.chan = c
  BY <1>1 DEF Row
<1>3. rows' = [rows EXCEPT ![a] = r]
  OBVIOUS
<1>4. r # None
  BY <1>2, KeyringAssumption
<1> HIDE DEF r
<1> QED BY <1>2, <1>3, <1>4 DEF TypeOK

LEMMA WrapKeepsFlag ==
  ASSUME TypeOK, NEW a \in Addresses, rows[a] # None, NEW p \in Passphrases,
         rows' = [rows EXCEPT ![a].algo = "vault", ![a].pass = p]
  PROVE  \A b \in Addresses : (rows'[b] # None <=> rows[b] # None) /\ (Flag(b)' <=> Flag(b))
<1> DEFINE r == [rows[a] EXCEPT !.algo = "vault", !.pass = p]
<1>1. rows[a] \in Row
  BY DEF TypeOK
<1>2. r \in Row /\ r.chan = rows[a].chan
  BY <1>1, ZenonT(60) DEF Row
<1>3. rows' = [rows EXCEPT ![a] = r]
  BY ZenonT(60) DEF TypeOK
<1>4. r # None
  BY <1>2, KeyringAssumption
<1> HIDE DEF r
<1>5. rows'[a] = r /\ \A b \in Addresses : b # a => rows'[b] = rows[b]
  BY <1>3, Zenon DEF TypeOK
<1> QED BY <1>2, <1>4, <1>5, ZenonT(60) DEF Flag

(* Steps at which no address is between two writes.                        *)
Between == {"mark", "delete", "flag", "probe", "rename", "drop", "forget"}

LEMMA Calm ==
  ASSUME CInv, apc' \notin Between, UNCHANGED <<rows, chans>>
  PROVE  \A x \in Addresses : FreshInv(x)' /\ ChanInv(x)'
  BY Zenon DEF CInv, FreshInv, ChanInv, Flag, Between

LEMMA Quiet ==
  ASSUME CInv, UNCHANGED <<rows, entries, chans, twice>>,
         apc' \notin Between \/ UNCHANGED <<apc, cur, sel>>
  PROVE  CInv'
<1>1. \A x \in Addresses : EntryInv(x)'
  BY Zenon DEF CInv, EntryInv, Flag, Unlocked
<1>2. CASE apc' \notin Between
  BY <1>1, <1>2, Calm, Zenon DEF CInv
<1>3. CASE UNCHANGED <<apc, cur, sel>>
  <2>1. \A x \in Addresses : FreshInv(x)' /\ ChanInv(x)'
    BY <1>3, Zenon DEF CInv, FreshInv, ChanInv, Flag, Fresh, Unlocked
  <2> QED BY <1>1, <2>1, Zenon DEF CInv
<1> QED BY <1>2, <1>3

LEMMA ChanOfStored ==
  ASSUME CInv, NEW a, \A x \in chans \cap Addresses : x # a /\ rows'[x] = rows[x],
         UNCHANGED chans, apc' \notin {"probe", "rename", "drop", "forget"}
  PROVE  \A x \in Addresses : ChanInv(x)'
  BY Zenon DEF CInv, ChanInv, Flag

LEMMA ChanStep ==
  ASSUME TypeOK, CallInv, CInv, [Next]_vars
  PROVE  CInv'
<1>1. ASSUME NEW a \in Addresses, NEW p \in Passphrases, h_createDeterministicAddress(a, p)
      PROVE  CInv'
  <2>1. /\ \A x \in Addresses : EntryInv(x)'
        /\ \A x \in chans \cap Addresses : x # a /\ rows'[x] = rows[x]
    BY <1>1, EntryStored, Zenon DEF h_createDeterministicAddress
  <2>2. apc' = "idle" /\ UNCHANGED chans
    BY <1>1, Zenon DEF h_createDeterministicAddress, call
  <2>3. \A x \in Addresses : ChanInv(x)'
    BY <2>1, <2>2, ChanOfStored, Zenon
  <2> QED BY <2>1, <2>2, <2>3, Zenon DEF CInv, FreshInv
<1>2. ASSUME NEW a \in Addresses, NEW p \in Passphrases, h_joinChan(a, p)
      PROVE  CInv'
  <2>1. /\ \A x \in Addresses : EntryInv(x)'
        /\ \A x \in chans \cap Addresses : x # a /\ rows'[x] = rows[x]
        /\ Fresh(a)'
    BY <1>2, EntryStored, Zenon DEF h_joinChan
  <2>2. apc' = "mark" /\ cur' = a /\ UNCHANGED chans
    BY <1>2, Zenon DEF h_joinChan
  <2>3. \A x \in Addresses : ChanInv(x)'
    BY <2>1, <2>2, ChanOfStored, Zenon
  <2> QED BY <2>1, <2>2, <2>3, Zenon DEF CInv, FreshInv
<1>3. ASSUME NEW S \in SUBSET Addresses, NEW C \in SUBSET S, NEW p \in Passphrases, h_importAddressesBulk(S, C, p)
      PROVE  CInv'
  BY <1>3, Quiet, Zenon DEF h_importAddressesBulk, Call, Between
<1>4. ASSUME NEW a \in todo, ImportOne(a)
      PROVE  CInv'
  <2>0. a \in Addresses /\ UNCHANGED <<entries, chans, twice>> /\ cur' = a
    BY <1>4, Zenon DEF ImportOne, TypeOK
  <2>1. CASE rows[a] # None /\ UNCHANGED <<rows, made, apc>>
    BY <1>4, <2>0, <2>1, Quiet, Zenon DEF ImportOne, Between
  <2>2. CASE /\ store_new_identity_with_kek(a, "vault", pass)
             /\ apc' = IF a \in sel THEN "mark" ELSE "insert"
    <3>1. pass \in Passphrases
      BY <1>4, Zenon DEF ImportOne, TypeOK, CallInv
    <3>2. /\ \A x \in Addresses : EntryInv(x)'
          /\ \A x \in chans \cap Addresses : x # a /\ rows'[x] = rows[x]
          /\ Fresh(a)'
      BY <2>0, <2>2, <3>1, EntryStored, Zenon
    <3>3. apc' \in {"mark", "insert"}
      BY <2>2, Zenon
    <3>4. \A x \in Addresses : ChanInv(x)'
      BY <2>0, <3>2, <3>3, ChanOfStored, Zenon
    <3> QED BY <2>0, <3>2, <3>3, <3>4, Zenon DEF CInv, FreshInv
  <2> QED BY <1>4, <2>1, <2>2, Zenon DEF ImportOne
<1>5. CASE bm_keyring_mark_as_chan
  <2>1. /\ cur \in Addresses /\ rows[cur] # None /\ apc = "mark" /\ apc' = "insert"
        /\ rows' = [rows EXCEPT ![cur].chan = TRUE] /\ chans' = chans \cup {cur}
        /\ UNCHANGED <<entries, twice, cur>>
    BY <1>5 DEF bm_keyring_mark_as_chan, Step, CallInv, TypeOK
  <2>2. /\ rows'[cur] # None /\ rows'[cur].chan
        /\ \A b \in Addresses : b # cur => rows'[b] = rows[b]
    BY <2>1, FlagSet, ZenonT(30)
  <2>3. Fresh(cur)
    BY <2>1 DEF CInv, FreshInv
  <2>4. ASSUME NEW x \in Addresses
        PROVE  EntryInv(x)'
    <3>1. EntryInv(x)
      BY DEF CInv
    <3>2. CASE x = cur
      <4>1. x \notin twice => ChanIn(entries, x)
        BY <2>3, <3>2, Nowhere, Zenon DEF Fresh, Unlocked
      <4> QED BY <2>1, <2>2, <3>1, <3>2, <4>1 DEF EntryInv, Flag, Unlocked
    <3>3. CASE x # cur
      BY <2>1, <2>2, <3>1, <3>3 DEF EntryInv, Flag, Unlocked
    <3> QED BY <3>2, <3>3
  <2>5. \A x \in Addresses : ChanInv(x)'
    BY <2>1, <2>2 DEF CInv, ChanInv, Flag
  <2> QED BY <2>1, <2>4, <2>5 DEF CInv, FreshInv
<1>6. CASE ImportDone
  BY <1>6, Quiet, Zenon DEF ImportDone, Return, disk, Between
<1>7. ASSUME NEW a \in Addresses, NEW p \in Passphrases, h_unlockAddress(a, p)
      PROVE  CInv'
  <2>1. /\ rows[a] # None /\ add_unlocked_entry(a, rows[a].chan)
        /\ UNCHANGED <<rows, chans>> /\ apc' = "list"
    BY <1>7, Zenon DEF h_unlockAddress, Opens, disk
  <2>2. \A x \in Addresses : EntryInv(x)'
    BY <2>1, EntryAdded, Zenon
  <2>3. \A x \in Addresses : FreshInv(x)' /\ ChanInv(x)'
    BY <2>1, Calm, Zenon DEF Between
  <2> QED BY <2>2, <2>3, Zenon DEF CInv
<1>8. ASSUME NEW p \in Passphrases, h_unlockAllAddresses(p)
      PROVE  CInv'
  BY <1>8, Quiet, Zenon DEF h_unlockAllAddresses, Call, disk, Between
<1>9. ASSUME NEW S \in SUBSET Addresses, NEW C \in {{}, S}, NEW p \in Passphrases, h_unlockAddresses(S, C, p)
      PROVE  CInv'
  BY <1>9, Quiet, Zenon DEF h_unlockAddresses, Call, disk, Between
<1>10. ASSUME NEW a \in todo, unlock_bulk_one(a)
      PROVE  CInv'
  <2>1. /\ a \in Addresses /\ UNCHANGED <<rows, chans>>
        /\ apc' \in {"vault", "unlock"}
    BY <1>10, Zenon DEF unlock_bulk_one, disk, TypeOK
  <2>2. CASE UNCHANGED <<entries, twice>>
    BY <2>1, <2>2, Quiet, Zenon DEF Between
  <2>3. CASE Opens(a, pass) /\ add_unlocked_entry(a, rows[a].chan)
    <3>1. \A x \in Addresses : EntryInv(x)'
      BY <2>1, <2>3, EntryAdded, Zenon DEF Opens
    <3>2. \A x \in Addresses : FreshInv(x)' /\ ChanInv(x)'
      BY <2>1, Calm, Zenon DEF Between
    <3> QED BY <3>1, <3>2, Zenon DEF CInv
  <2> QED BY <1>10, <2>2, <2>3, Zenon DEF unlock_bulk_one
<1>11. CASE unlock_bulk_vault
  BY <1>11, Quiet, Zenon DEF unlock_bulk_vault, Step, Between
<1>12. CASE rewrap_to_vault
  <2>1. /\ cur \in Addresses /\ rows[cur] # None /\ vault \in Passphrases
        /\ apc' = "unlock" /\ UNCHANGED <<entries, chans, twice>>
        /\ rows' = [rows EXCEPT ![cur].algo = "vault", ![cur].pass = vault]
    BY <1>12 DEF rewrap_to_vault, Step, CallInv, TypeOK
  <2>2. \A b \in Addresses : (rows'[b] # None <=> rows[b] # None) /\ (Flag(b)' <=> Flag(b))
    BY <2>1, WrapKeepsFlag, Zenon
  <2>3. \A x \in Addresses : EntryInv(x)'
    BY <2>1, <2>2, Zenon DEF CInv, EntryInv, Unlocked
  <2>4. \A x \in Addresses : FreshInv(x)' /\ ChanInv(x)'
    BY <2>1, <2>2 DEF CInv, FreshInv, ChanInv
  <2> QED BY <2>3, <2>4, Zenon DEF CInv
<1>13. CASE UnlockDone
  BY <1>13, Quiet, Zenon DEF UnlockDone, Return, disk, Between
<1>14. CASE BackfillList
  BY <1>14, Quiet, Zenon DEF BackfillList, disk, Between
<1>15. ASSUME NEW o \in hashes, BackfillOne(o)
      PROVE  CInv'
  BY <1>15, Quiet, Zenon DEF BackfillOne, Between
<1>16. CASE BackfillDone
  BY <1>16, Quiet, Zenon DEF BackfillDone, Return, disk, Between
<1>17. ASSUME NEW a \in Addresses, h_lockAddress(a)
      PROVE  CInv'
  <2>1. bm_keyring_lock(a) /\ UNCHANGED <<rows, chans>> /\ apc' = "idle"
    BY <1>17, Zenon DEF h_lockAddress, disk, call
  <2>2. \A x \in Addresses : EntryInv(x)'
    BY <2>1, EntryLocked, Zenon
  <2>3. \A x \in Addresses : FreshInv(x)' /\ ChanInv(x)'
    BY <2>1, Calm, Zenon DEF Between
  <2> QED BY <2>2, <2>3, Zenon DEF CInv
<1>18. ASSUME NEW a \in Addresses, h_deleteAddress(a)
      PROVE  CInv'
  <2>1. /\ bm_keyring_lock(a) /\ UNCHANGED <<rows, chans>>
        /\ apc' = "delete" /\ cur' = a
    BY <1>18, Zenon DEF h_deleteAddress, disk
  <2>2. (\A x \in Addresses : EntryInv(x)') /\ Fresh(a)'
    BY <2>1, EntryLocked, Zenon
  <2>3. \A x \in Addresses : FreshInv(x)' /\ ChanInv(x)'
    BY <2>1, <2>2, Zenon DEF CInv, FreshInv, ChanInv, Flag
  <2> QED BY <2>2, <2>3, Zenon DEF CInv
<1>19. CASE h_lockAllAddresses
  <2>1. entries' = <<>> /\ UNCHANGED <<rows, chans>> /\ apc' = "idle"
    BY <1>19, Zenon DEF h_lockAllAddresses, disk, call
  <2>2. \A x \in Addresses : FreshInv(x)' /\ ChanInv(x)'
    BY <2>1, Calm DEF Between
  <2> QED BY <2>1, <2>2, EntryEmptied, Zenon DEF CInv
<1>20. CASE DeleteRow
  <2>1. /\ cur \in Addresses /\ apc = "delete" /\ apc' = "idle"
        /\ bm_identity_store_delete(cur) /\ chans' = chans \ {cur}
        /\ UNCHANGED <<entries, twice>>
    BY <1>20, Zenon DEF DeleteRow, Return, CallInv, TypeOK
  <2>2. Fresh(cur)
    BY <2>1, Zenon DEF CInv, FreshInv
  <2>3. /\ \A x \in Addresses : EntryInv(x)'
        /\ \A x \in Addresses : x # cur => rows'[x] = rows[x]
    BY <2>1, <2>2, EntryDeleted, Zenon
  <2>4. \A x \in Addresses : ChanInv(x)'
    BY <2>1, <2>3, Zenon DEF CInv, ChanInv, Flag
  <2> QED BY <2>1, <2>3, <2>4, Zenon DEF CInv, FreshInv
<1>21. ASSUME NEW S \in SUBSET Addresses, NEW p \in Passphrases, h_convertV3AddressesToV4(S, p)
      PROVE  CInv'
  BY <1>21, Quiet, Zenon DEF h_convertV3AddressesToV4, Call, disk, Between
<1>22. ASSUME NEW a \in todo, EnsureSibling(a)
      PROVE  CInv'
  <2>0. /\ a \in Addresses /\ Sibling(a) \in Addresses
        /\ apc = "ensure" /\ cur' = a /\ UNCHANGED <<entries, chans, twice>>
    BY <1>22, AddrFacts, Zenon DEF EnsureSibling, TypeOK
  <2>1. CASE UNCHANGED <<rows, made, apc, sel>>
    BY <2>0, <2>1, Quiet, Zenon DEF Between
  <2>2. CASE /\ Opens(a, pass) /\ apc' = "flag"
             /\ store_new_identity_with_kek(Sibling(a), rows[a].algo, pass)
             /\ sel' = {Sibling(a)}
    <3>1. rows[a].algo \in {"scrypt", "vault"} /\ pass \in Passphrases
      BY <2>0, <2>2, Zenon DEF Opens, TypeOK, Row
    <3>2. /\ \A x \in Addresses : EntryInv(x)'
          /\ \A x \in chans \cap Addresses : x # Sibling(a) /\ rows'[x] = rows[x]
          /\ Fresh(Sibling(a))'
      BY <2>0, <2>2, <3>1, EntryStored, Zenon
    <3>3. \A x \in Addresses : ChanInv(x)'
      BY <2>0, <2>2, <3>2, ChanOfStored, Zenon
    <3> QED BY <2>2, <3>2, <3>3, Zenon DEF CInv, FreshInv
  <2>3. CASE apc' = "flag" /\ sel' = {} /\ UNCHANGED <<rows, made>>
    <3>1. \A x \in Addresses : EntryInv(x)'
      BY <2>0, <2>3, Zenon DEF CInv, EntryInv, Flag, Unlocked
    <3>2. \A x \in Addresses : FreshInv(x)' /\ ChanInv(x)'
      BY <2>0, <2>3, Zenon DEF CInv, FreshInv, ChanInv, Flag
    <3> QED BY <3>1, <3>2 DEF CInv
  <2> QED BY <1>22, <2>1, <2>2, <2>3, Zenon DEF EnsureSibling
<1>23. CASE EnsureChan
  <2> DEFINE b == Sibling(cur)
             c == rows[b].chan \/ rows[cur].chan
  <2>1. /\ cur \in Addresses /\ b \in Addresses /\ b # cur
        /\ rows[cur] # None /\ rows[b] # None
        /\ apc = "flag" /\ apc' = "probe" /\ UNCHANGED <<cur, sel, chans, twice>>
    BY <1>23, AddrFacts DEF EnsureChan, Step, CallInv, Converting, TypeOK
  <2>2. rows[b].chan \in BOOLEAN /\ rows[cur].chan \in BOOLEAN
    BY <2>1, Zenon DEF TypeOK, Row
  <2>3. rows' = [rows EXCEPT ![b].chan = c]
    BY <1>23 DEF EnsureChan
  <2>4. IF rows[cur].chan /\ ~rows[b].chan /\ b \notin sel
           THEN mark_unlocked_entry_as_chan(b) ELSE UNCHANGED entries
    BY <1>23 DEF EnsureChan
  <2>5. c \in BOOLEAN
    BY <2>2, Zenon
  <2> HIDE DEF b, c
  <2>6. /\ rows'[b] # None /\ rows'[b].chan = c
        /\ \A x \in Addresses : x # b => rows'[x] = rows[x]
    BY <2>1, <2>3, <2>5, FlagSet, Zenon
  <2>7. /\ AddrsOf(entries') = AddrsOf(entries)
        /\ \A x \in Addresses :
              /\ OnceIn(entries, x) => OnceIn(entries', x)
              /\ ChanIn(entries, x) => ChanIn(entries', x)
    <3>1. CASE UNCHANGED entries
      BY <3>1
    <3>2. CASE mark_unlocked_entry_as_chan(b)
      BY <2>1, <3>2, Marked, MarkedIn, Zenon DEF TypeOK
    <3> QED BY <2>4, <3>1, <3>2, Zenon
  <2>8. ASSUME b \notin twice, c
        PROVE  ChanIn(entries', b)
    <3>1. EntryInv(b) /\ FreshInv(b)
      BY <2>1, Zenon DEF CInv
    <3>2. CASE rows[b].chan
      BY <2>1, <2>7, <2>8, <3>1, <3>2, Zenon DEF EntryInv, Flag
    <3>3. CASE ~rows[b].chan /\ b \notin sel
      <4>1. rows[cur].chan
        BY <2>8, <3>3 DEF c
      <4>2. mark_unlocked_entry_as_chan(b)
        BY <2>4, <3>3, <4>1
      <4> QED BY <2>1, <2>8, <3>1, <4>2, MarkedIn, Zenon DEF EntryInv, TypeOK
    <3>4. CASE b \in sel
      <4>1. b \notin AddrsOf(entries')
        BY <2>1, <2>7, <2>8, <3>1, <3>4, Zenon DEF FreshInv, Fresh, Unlocked
      <4> QED BY <4>1, Nowhere
    <3> QED BY <3>2, <3>3, <3>4
  <2>9. ASSUME NEW x \in Addresses
        PROVE  EntryInv(x)'
    <3>1. EntryInv(x)
      BY DEF CInv
    <3>2. CASE x = b
      BY <2>1, <2>6, <2>7, <2>8, <3>1, <3>2, Zenon DEF EntryInv, Flag, Unlocked
    <3>3. CASE x # b
      BY <2>1, <2>6, <2>7, <3>1, <3>3, Zenon DEF EntryInv, Flag, Unlocked
    <3> QED BY <3>2, <3>3
  <2>10. ASSUME NEW x \in chans \cap Addresses
         PROVE  Flag(x)' /\ (cur = x => Flag(Sibling(x))')
    <3>1. Flag(x)
      BY DEF CInv, ChanInv
    <3>2. Flag(x)'
      <4>1. CASE x = b
        BY <2>6, <3>1, <4>1, Zenon DEF Flag, c
      <4>2. CASE x # b
        BY <2>6, <3>1, <4>2, Zenon DEF Flag
      <4> QED BY <4>1, <4>2
    <3>3. cur = x => rows'[b] # None /\ rows'[b].chan
      BY <2>6, <3>1, Zenon DEF Flag, c
    <3> QED BY <3>2, <3>3, Zenon DEF b, Flag
  <2>11. \A x \in Addresses : FreshInv(x)' /\ ChanInv(x)'
    BY <2>1, <2>10, Zenon DEF FreshInv, ChanInv
  <2> QED BY <2>9, <2>11, Zenon DEF CInv
<1>24. CASE EnsureUnlocked
  <2>1. /\ cur \in Addresses /\ Sibling(cur) \in Addresses /\ rows[Sibling(cur)] # None
        /\ apc = "probe" /\ apc' = "rename" /\ UNCHANGED <<cur, sel, rows, chans>>
    BY <1>24, AddrFacts, Zenon DEF EnsureUnlocked, Step, CallInv, Converting, TypeOK, disk
  <2>2. \A x \in Addresses : EntryInv(x)'
    <3>1. CASE UNCHANGED <<entries, twice>>
      BY <2>1, <3>1, Zenon DEF CInv, EntryInv, Flag, Unlocked
    <3>2. CASE add_unlocked_entry(Sibling(cur), rows[Sibling(cur)].chan)
      BY <2>1, <3>2, EntryAdded, Zenon
    <3> QED BY <1>24, <3>1, <3>2 DEF EnsureUnlocked
  <2>3. \A x \in Addresses : FreshInv(x)' /\ ChanInv(x)'
    BY <2>1, Zenon DEF CInv, FreshInv, ChanInv, Flag
  <2> QED BY <2>2, <2>3 DEF CInv
<1>25. CASE bm_messages_store_rename_own_address
  <2>1. /\ apc = "rename" /\ apc' = "drop"
        /\ UNCHANGED <<cur, sel, rows, chans, entries, twice>>
    BY <1>25, Zenon DEF bm_messages_store_rename_own_address, Step
  <2>2. \A x \in Addresses : EntryInv(x)'
    BY <2>1, Zenon DEF CInv, EntryInv, Flag, Unlocked
  <2>3. \A x \in Addresses : FreshInv(x)' /\ ChanInv(x)'
    BY <2>1, Zenon DEF CInv, FreshInv, ChanInv, Flag
  <2> QED BY <2>2, <2>3 DEF CInv
<1>26. CASE ConvertLock
  <2>1. /\ cur \in Addresses /\ bm_keyring_lock(cur)
        /\ apc = "drop" /\ apc' = "forget" /\ UNCHANGED <<cur, sel, rows, chans>>
    BY <1>26, Zenon DEF ConvertLock, Step, CallInv, Converting, TypeOK, disk
  <2>2. (\A x \in Addresses : EntryInv(x)') /\ Fresh(cur)'
    BY <2>1, EntryLocked
  <2>3. \A x \in Addresses : FreshInv(x)' /\ ChanInv(x)'
    BY <2>1, <2>2, Zenon DEF CInv, FreshInv, ChanInv, Flag, Fresh, Unlocked
  <2> QED BY <2>2, <2>3, Zenon DEF CInv
<1>27. CASE ConvertDelete
  <2>1. /\ cur \in Addresses /\ Sibling(cur) \in Addresses /\ Sibling(cur) # cur
        /\ apc = "forget" /\ apc' = "ensure" /\ bm_identity_store_delete(cur)
        /\ chans' = (chans \ {cur}) \cup (IF cur \in chans THEN {Sibling(cur)} ELSE {})
        /\ UNCHANGED <<entries, twice>>
    BY <1>27, AddrFacts, Zenon DEF ConvertDelete, Step, CallInv, Converting, TypeOK
  <2>2. Fresh(cur)
    BY <2>1, Zenon DEF CInv, FreshInv
  <2>3. /\ \A x \in Addresses : EntryInv(x)'
        /\ \A x \in Addresses : x # cur => rows'[x] = rows[x]
    BY <2>1, <2>2, EntryDeleted, Zenon
  <2>4. cur \in chans => Flag(Sibling(cur))
    BY <2>1, Zenon DEF CInv, ChanInv
  <2>5. \A x \in Addresses : x \in chans' => Flag(x) /\ x # cur
    BY <2>1, <2>4, Zenon DEF CInv, ChanInv
  <2>6. \A x \in Addresses : ChanInv(x)'
    BY <2>1, <2>3, <2>5, Zenon DEF ChanInv, Flag
  <2> QED BY <2>1, <2>3, <2>6, Zenon DEF CInv, FreshInv
<1>28. CASE ConvertDone
  BY <1>28, Quiet DEF ConvertDone, Return, disk, Between
<1>29. ASSUME NEW o \in Objects, NetStore(o)
      PROVE  CInv'
  BY <1>29, Quiet, Zenon DEF NetStore, call
<1>30. CASE bm_trial_decrypt_msg
  BY <1>30, Quiet, Zenon DEF bm_trial_decrypt_msg, disk, call
<1>31. CASE store_decoded_msg
  BY <1>31, Quiet, Zenon DEF store_decoded_msg, call
<1>32. CASE Restart
  <2>1. entries' = <<>> /\ UNCHANGED <<rows, chans>> /\ apc' = "idle"
    BY <1>32, Zenon DEF Restart, Return, disk
  <2>2. \A x \in Addresses : FreshInv(x)' /\ ChanInv(x)'
    BY <2>1, Calm DEF Between
  <2> QED BY <2>1, <2>2, EntryEmptied DEF CInv
<1>33. CASE UNCHANGED vars
  BY <1>33, Quiet, Zenon DEF vars, disk, net, call
<1> QED
  BY <1>1, <1>2, <1>3, <1>4, <1>5, <1>6, <1>7, <1>8, <1>9, <1>10, <1>11, <1>12, <1>13,
     <1>14, <1>15, <1>16, <1>17, <1>18, <1>19, <1>20, <1>21, <1>22, <1>23, <1>24, <1>25,
     <1>26, <1>27, <1>28, <1>29, <1>30, <1>31, <1>32, <1>33, ZenonT(60)
  DEF Next, Store, Unlock, Backfill, Lock, Convert, Receive

LEMMA ChanInit == Init => CInv
<1> SUFFICES ASSUME Init PROVE CInv
  OBVIOUS
<1>1. AddrsOf(entries) = {} /\ apc = "idle" /\ chans = {}
  BY DEF Init, AddrsOf
<1> QED BY <1>1, Nowhere, Zenon DEF Init, CInv, EntryInv, FreshInv, ChanInv, Flag, Unlocked

(* A chan keeps its flag through restarts, unlocks that rewrap its row and *)
(* the conversion to v4, which hands the flag on before the v3 row goes;   *)
(* and unless it was unlocked twice its entry says that it is a chan.      *)
THEOREM ChansKept == Spec => []ChanSurvives
<1>1. CInv /\ TypeOK => ChanSurvives
  BY Zenon DEF CInv, EntryInv, ChanInv, ChanSurvives, ChanIn, Flag, TypeOK
<1>2. IInv /\ CInv /\ [Next]_vars => CInv'
  BY ChanStep DEF IInv
<1>3. IInv => TypeOK
  BY DEF IInv
<1> QED BY <1>1, <1>2, <1>3, ChanInit, AlwaysIInv, PTL DEF Spec

=============================================================================
