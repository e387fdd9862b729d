------------------------------ MODULE Keyring -------------------------------
(***************************************************************************)
(* Private keys and the messages they open: identity.db and its vault, the *)
(* unlocked keys of src/core/keyring.c, the API calls that change them     *)
(* (one at a time, on the HTTP thread), the trial decryption of received   *)
(* objects on the network thread, the backfill after an unlock, and the    *)
(* conversion of v3 addresses to v4.                                       *)
(*                                                                         *)
(* Abstracted: cryptography succeeds just when the passphrase is the one   *)
(* used to wrap; a key pair stands for its ripe and an address is a key    *)
(* pair and a version; labels and difficulties are left out.  SQLite and   *)
(* malloc do not fail.  v5 addresses have a keyring of their own and are   *)
(* not in this module, nor is the expiry of stored objects.                *)
(***************************************************************************)
EXTENDS Integers, Sequences, FiniteSets

CONSTANTS
    Keys,          \* key pairs
    Passphrases,
    Objects,       \* received objects that carry a message
    ToKey,         \* the key pair that opens it, None for somebody else's
    UnlockMax,     \* BM_KEYRING_UNLOCK_ALL_MAX_IDENTITIES
    MaxEntries,    \* bound: entries that unlockAddress makes
    None

Addresses == Keys \X {3, 4}
Key(a) == a[1]
V3(a) == a[2] = 3
Sibling(a) == <<a[1], 4>>

(* A row of identities: the way its keys are wrapped and with what.        *)
Row == [algo : {"scrypt", "vault"}, pass : Passphrases, chan : BOOLEAN]

ASSUME KeyringAssumption ==
    /\ ToKey \in [Objects -> Keys \cup {None}]
    /\ UnlockMax \in Nat /\ MaxEntries \in Nat
    /\ None \notin Passphrases \cup Addresses \cup Objects \cup Keys \cup Row

VARIABLES
    rows,      \* identities: how each address's keys are wrapped, or None
    vault,     \* identity_vault: the passphrase of its master key, or None
    inbox,     \* inbox: to_address of each stored message, or None
    pool,      \* the object pool
    entries,   \* kr->head, the unlocked identities, last unlocked first
    npc, nobj, naddr,   \* the network thread, its object, the match
    apc, pass,          \* the HTTP thread's call and its passphrase
    todo, cur,          \* addresses the call has left, and the one at work
    sel,                \* those to mark as chans, to backfill, or just made
    hashes,             \* objects the backfill has left
    made,      \* history: the passphrase an address was stored with
    chans,     \* ... addresses whose chan flag was set
    covered,   \* ... key pairs unlocked ever since a backfill for them
    twice      \* ... addresses unlocked again while they were unlocked

disk == <<rows, vault, inbox, pool>>
net == <<npc, nobj, naddr>>
call == <<apc, pass, todo, cur, sel, hashes>>
vars == <<disk, entries, net, call, made, chans, covered, twice>>

Entry == [addr : Addresses, chan : BOOLEAN]
Converting == {"ensure", "flag", "probe", "rename", "drop", "forget"}
ApiPCs == {"idle", "insert", "mark", "unlock", "vault", "rewrap", "list",
           "backfill", "delete"} \cup Converting

Init ==
    /\ rows = [a \in Addresses |-> None] /\ vault = None
    /\ inbox = [o \in Objects |-> None] /\ pool = {} /\ entries = <<>>
    /\ npc = "idle" /\ nobj = None /\ naddr = None
    /\ apc = "idle" /\ pass = None /\ todo = {} /\ cur = None
    /\ sel = {} /\ hashes = {}
    /\ made = [a \in Addresses |-> None] /\ chans = {} /\ covered = {}
    /\ twice = {}

-----------------------------------------------------------------------------
AddrsOf(s) == {s[i].addr : i \in 1 .. Len(s)}
KeysOf(s) == {Key(a) : a \in AddrsOf(s)}

(* bm_keyring_find_by_address; entry i is the first for an address of S.   *)
Unlocked(a) == a \in AddrsOf(entries)
IsFirst(i, S) ==
    /\ i \in 1 .. Len(entries) /\ entries[i].addr \in S
    /\ \A j \in 1 .. i - 1 : entries[j].addr \notin S

(* bm_keyring_internal_resolve_kek, then the check of the AEAD tag: does   *)
(* passphrase p open the row of address a?                                 *)
Opens(a, p) ==
    /\ rows[a] # None /\ rows[a].pass = p
    /\ rows[a].algo = "vault" => vault = p

(* The histories follow the entries of the next state.                     *)
Follow(again) ==
    /\ covered' = covered \cap KeysOf(entries')
    /\ twice' = (twice \cup again) \cap AddrsOf(entries')

add_unlocked_entry(a, chan) ==
    /\ entries' = <<[addr |-> a, chan |-> chan]>> \o entries
    /\ Follow({a} \cap AddrsOf(entries))

(* The first entry of the address goes; later ones stay.                   *)
bm_keyring_lock(a) ==
    /\ \/ ~Unlocked(a) /\ UNCHANGED entries
       \/ \E i \in 1 .. Len(entries) :
            /\ IsFirst(i, {a})
            /\ entries' = SubSeq(entries, 1, i - 1)
                             \o SubSeq(entries, i + 1, Len(entries))
    /\ Follow({})

mark_unlocked_entry_as_chan(a) ==
    entries' = [i \in 1 .. Len(entries) |->
                   IF IsFirst(i, {a}) THEN [entries[i] EXCEPT !.chan = TRUE]
                                      ELSE entries[i]]

Call(pc, p, S, C) ==
    /\ apc = "idle" /\ apc' = pc /\ pass' = p /\ todo' = S /\ sel' = C
    /\ cur' = None /\ hashes' = {}
Step(from, to) ==
    /\ apc = from /\ apc' = to
    /\ UNCHANGED <<pass, todo, cur, sel, hashes>>
Return ==
    /\ apc' = "idle" /\ pass' = None /\ todo' = {} /\ cur' = None
    /\ sel' = {} /\ hashes' = {}

-----------------------------------------------------------------------------
(* Storing identities.  An address that has a row is refused (PRIMARY KEY).*)
store_new_identity_with_kek(a, algo, p) ==
    /\ rows[a] = None
    /\ rows' = [rows EXCEPT ![a] = [algo |-> algo, pass |-> p, chan |-> FALSE]]
    /\ made' = [made EXCEPT ![a] = p]

h_createDeterministicAddress(a, p) ==
    /\ apc = "idle" /\ store_new_identity_with_kek(a, "scrypt", p)
    /\ UNCHANGED <<vault, inbox, pool, entries, net, call>>
    /\ UNCHANGED <<chans, covered, twice>>

(* joinChan makes a v4 address and then sets its flag.                     *)
h_joinChan(a, p) ==
    /\ ~V3(a) /\ store_new_identity_with_kek(a, "scrypt", p)
    /\ apc = "idle" /\ apc' = "mark" /\ pass' = p /\ cur' = a /\ sel' = {a}
    /\ UNCHANGED <<vault, inbox, pool, entries, net, todo, hashes>>
    /\ UNCHANGED <<chans, covered, twice>>

(* importAddress and importAddressesBulk: S are the addresses, C those of  *)
(* them with isChan.  The vault comes first.                               *)
resolve_or_create_vault_master_kek(p) ==
    /\ vault \in {None, p}
    /\ vault' = p

h_importAddressesBulk(S, C, p) ==
    /\ Call("insert", p, S, C) /\ resolve_or_create_vault_master_kek(p)
    /\ UNCHANGED <<rows, inbox, pool, entries, net>>
    /\ UNCHANGED <<made, chans, covered, twice>>

ImportOne(a) ==
    /\ apc = "insert" /\ a \in todo /\ todo' = todo \ {a} /\ cur' = a
    /\ \/ /\ store_new_identity_with_kek(a, "vault", pass)
          /\ apc' = IF a \in sel THEN "mark" ELSE "insert"
       \/ rows[a] # None /\ UNCHANGED <<rows, made, apc>>
    /\ UNCHANGED <<vault, inbox, pool, entries, net, pass, sel, hashes>>
    /\ UNCHANGED <<chans, covered, twice>>

bm_keyring_mark_as_chan ==
    /\ Step("mark", "insert")
    /\ rows' = [rows EXCEPT ![cur].chan = TRUE] /\ chans' = chans \cup {cur}
    /\ UNCHANGED <<vault, inbox, pool, entries, net, made, covered, twice>>

ImportDone ==
    /\ apc = "insert" /\ todo = {} /\ Return
    /\ UNCHANGED <<disk, entries, net, made, chans, covered, twice>>

-----------------------------------------------------------------------------
(* unlockAddress does not ask whether the address is unlocked already.     *)
h_unlockAddress(a, p) ==
    /\ Opens(a, p) /\ Len(entries) < MaxEntries
    /\ add_unlocked_entry(a, rows[a].chan)
    /\ apc = "idle" /\ apc' = "list" /\ sel' = {a}
    /\ UNCHANGED <<disk, net, pass, todo, cur, hashes, made, chans>>

(* unlockAll is refused above its limit and does not backfill.             *)
WithinLimit(S) == Cardinality(S) <= UnlockMax
h_unlockAllAddresses(p) ==
    /\ LET S == {a \in Addresses : rows[a] # None} IN
          /\ WithinLimit(S)
          /\ Call("unlock", p, S, {})
    /\ UNCHANGED <<disk, entries, net, made, chans, covered, twice>>

(* unlockAddresses: C are the addresses to backfill, all of S or none.     *)
h_unlockAddresses(S, C, p) ==
    /\ Call("unlock", p, S, C)
    /\ UNCHANGED <<disk, entries, net, made, chans, covered, twice>>

(* unlock_bulk_one: an unlocked address is passed over, one that cannot be *)
(* opened is left out of the backfill, a scrypt row that opens goes on to  *)
(* be wrapped with the vault's key.                                        *)
unlock_bulk_one(a) ==
    /\ apc = "unlock" /\ a \in todo /\ todo' = todo \ {a} /\ cur' = a
    /\ \/ /\ Unlocked(a) \/ ~Opens(a, pass)
          /\ sel' = IF Unlocked(a) THEN sel ELSE sel \ {a}
          /\ UNCHANGED <<entries, covered, twice, apc>>
       \/ /\ ~Unlocked(a) /\ Opens(a, pass) /\ UNCHANGED sel
          /\ add_unlocked_entry(a, rows[a].chan)
          /\ apc' = IF rows[a].algo = "scrypt" THEN "vault" ELSE "unlock"
    /\ UNCHANGED <<disk, net, pass, hashes, made, chans>>

unlock_bulk_vault_AnyVault ==
    /\ Step("vault", "rewrap")
    /\ vault' = IF vault = None THEN pass ELSE vault
    /\ UNCHANGED <<rows, inbox, pool, entries, net, made, chans, covered, twice>>
unlock_bulk_vault ==
    /\ Step("vault", IF vault \in {None, pass} THEN "rewrap" ELSE "unlock")
    /\ vault' = IF vault = None THEN pass ELSE vault
    /\ UNCHANGED <<rows, inbox, pool, entries, net, made, chans, covered, twice>>

rewrap_to_vault ==
    /\ Step("rewrap", "unlock")
    /\ rows' = [rows EXCEPT ![cur].algo = "vault", ![cur].pass = vault]
    /\ UNCHANGED <<vault, inbox, pool, entries, net, made, chans, covered, twice>>

UnlockDone ==
    /\ apc = "unlock" /\ todo = {}
    /\ \/ sel = {} /\ Return
       \/ sel # {} /\ apc' = "list" /\ UNCHANGED <<pass, todo, cur, sel, hashes>>
    /\ UNCHANGED <<disk, entries, net, made, chans, covered, twice>>

(* The backfill lists the pool's objects and tries them one by one.        *)
BackfillList ==
    /\ apc = "list" /\ apc' = "backfill" /\ hashes' = pool
    /\ UNCHANGED <<disk, entries, net, pass, todo, cur, sel>>
    /\ UNCHANGED <<made, chans, covered, twice>>

(* bm_messages_store_insert_inbox: INSERT OR IGNORE.                       *)
bm_messages_store_insert_inbox(o, a) ==
    inbox' = IF inbox[o] = None THEN [inbox EXCEPT ![o] = a] ELSE inbox

BackfillOne(o) ==
    /\ apc = "backfill" /\ o \in hashes /\ hashes' = hashes \ {o}
    /\ \/ \E a \in sel : Key(a) = ToKey[o] /\ bm_messages_store_insert_inbox(o, a)
       \/ (\A a \in sel : Key(a) # ToKey[o]) /\ UNCHANGED inbox
    /\ UNCHANGED <<rows, vault, pool, entries, net, apc, pass, todo, cur, sel>>
    /\ UNCHANGED <<made, chans, covered, twice>>

BackfillDone ==
    /\ apc = "backfill" /\ hashes = {} /\ Return
    /\ covered' = covered \cup {Key(a) : a \in sel}
    /\ UNCHANGED <<disk, entries, net, made, chans, twice>>

-----------------------------------------------------------------------------
h_lockAddress(a) ==
    /\ apc = "idle" /\ Unlocked(a) /\ bm_keyring_lock(a)
    /\ UNCHANGED <<disk, net, call, made, chans>>

h_lockAllAddresses ==
    /\ apc = "idle" /\ entries' = <<>> /\ Follow({})
    /\ UNCHANGED <<disk, net, call, made, chans>>

(* deleteAddress: the entry goes first, then the row.                      *)
h_deleteAddress(a) ==
    /\ apc = "idle" /\ bm_keyring_lock(a) /\ apc' = "delete" /\ cur' = a
    /\ UNCHANGED <<disk, net, pass, todo, sel, hashes, made, chans>>

bm_identity_store_delete(a) ==
    /\ rows' = [rows EXCEPT ![a] = None] /\ made' = [made EXCEPT ![a] = None]

DeleteRow ==
    /\ apc = "delete" /\ bm_identity_store_delete(cur) /\ chans' = chans \ {cur}
    /\ Return
    /\ UNCHANGED <<vault, inbox, pool, entries, net, covered, twice>>

-----------------------------------------------------------------------------
(* convertAddressToV4 of one address, or convertV3AddressesToV4 of as many *)
(* v3 rows as its limit lets it convert: convert_one_v3_to_v4 for each.    *)
h_convertV3AddressesToV4(S, p) ==
    /\ S \subseteq {a \in Addresses : V3(a) /\ rows[a] # None} /\ S # {}
    /\ Call("ensure", p, S, {})
    /\ UNCHANGED <<disk, entries, net, made, chans, covered, twice>>

ConvertDone ==
    /\ apc = "ensure" /\ todo = {} /\ Return
    /\ UNCHANGED <<disk, entries, net, made, chans, covered, twice>>

(* bm_keyring_ensure_v4_sibling in three steps: the row, wrapped the way   *)
(* the v3 row is; the chan flag of the row and of its entry; the entry.    *)
EnsureSibling(a) ==
    LET b == Sibling(a) IN
    /\ apc = "ensure" /\ a \in todo /\ todo' = todo \ {a} /\ cur' = a
    /\ \/ ~Opens(a, pass) /\ UNCHANGED <<rows, made, apc, sel>>
       \/ /\ Opens(a, pass) /\ apc' = "flag"
          /\ \/ store_new_identity_with_kek(b, rows[a].algo, pass) /\ sel' = {b}
             \/ rows[b] # None /\ sel' = {} /\ UNCHANGED <<rows, made>>
    /\ UNCHANGED <<vault, inbox, pool, entries, net, pass, hashes>>
    /\ UNCHANGED <<chans, covered, twice>>

EnsureChan_RowOnly ==
    /\ Step("flag", "probe") /\ UNCHANGED entries
    /\ rows' = [rows EXCEPT ![Sibling(cur)].chan = @ \/ rows[cur].chan]
    /\ UNCHANGED <<vault, inbox, pool, net, made, chans, covered, twice>>
EnsureChan ==
    LET b == Sibling(cur) IN
    /\ Step("flag", "probe")
    /\ rows' = [rows EXCEPT ![b].chan = @ \/ rows[cur].chan]
    /\ IF rows[cur].chan /\ ~rows[b].chan /\ b \notin sel
          THEN mark_unlocked_entry_as_chan(b) ELSE UNCHANGED entries
    /\ UNCHANGED <<vault, inbox, pool, net, made, chans, covered, twice>>

EnsureUnlocked_NewOnly ==
    LET b == Sibling(cur) IN
    /\ Step("probe", "rename")
    /\ \/ Unlocked(cur) /\ rows[b].pass = pass /\ ~Unlocked(b)
          /\ add_unlocked_entry(b, rows[b].chan)
       \/ ~(Unlocked(cur) /\ rows[b].pass = pass /\ ~Unlocked(b))
          /\ UNCHANGED <<entries, covered, twice>>
    /\ UNCHANGED <<disk, net, made, chans>>
EnsureUnlocked ==
    LET b == Sibling(cur) IN
    /\ Step("probe", "rename")
    /\ \/ Unlocked(cur) /\ ~Unlocked(b) /\ add_unlocked_entry(b, rows[b].chan)
       \/ ~(Unlocked(cur) /\ ~Unlocked(b)) /\ UNCHANGED <<entries, covered, twice>>
    /\ UNCHANGED <<disk, net, made, chans>>

bm_messages_store_rename_own_address ==
    /\ Step("rename", "drop")
    /\ inbox' = [o \in Objects |-> IF inbox[o] = cur THEN Sibling(cur) ELSE inbox[o]]
    /\ UNCHANGED <<rows, vault, pool, entries, net, made, chans, covered, twice>>

(* bm_keyring_delete_identity of the v3 address, its two steps.            *)
ConvertLock ==
    /\ Step("drop", "forget") /\ bm_keyring_lock(cur)
    /\ UNCHANGED <<disk, net, made, chans>>

ConvertDelete ==
    /\ Step("forget", "ensure") /\ bm_identity_store_delete(cur)
    /\ chans' = (chans \ {cur}) \cup (IF cur \in chans THEN {Sibling(cur)} ELSE {})
    /\ UNCHANGED <<vault, inbox, pool, entries, net, covered, twice>>

-----------------------------------------------------------------------------
(* The network thread on a new object: it stores it, tries the unlocked    *)
(* keys in their order under the keyring's read lock, lets go of the lock  *)
(* and files the message under the address of the key that opened it.      *)
NetStore(o) ==
    /\ npc = "idle" /\ o \notin pool
    /\ pool' = pool \cup {o} /\ npc' = "stored" /\ nobj' = o
    /\ UNCHANGED <<rows, vault, inbox, entries, naddr, call>>
    /\ UNCHANGED <<made, chans, covered, twice>>

bm_trial_decrypt_msg_TryLock ==
    /\ npc = "stored"
    /\ \/ \E i \in 1 .. Len(entries) :
            /\ IsFirst(i, {ToKey[nobj]} \X {3, 4}) /\ apc # "backfill"
            /\ naddr' = entries[i].addr /\ npc' = "opened" /\ UNCHANGED nobj
       \/ /\ ToKey[nobj] \notin KeysOf(entries) \/ apc = "backfill"
          /\ npc' = "idle" /\ nobj' = None /\ UNCHANGED naddr
    /\ UNCHANGED <<disk, entries, call, made, chans, covered, twice>>
bm_trial_decrypt_msg ==
    /\ npc = "stored"
    /\ \/ \E i \in 1 .. Len(entries) :
            /\ IsFirst(i, {ToKey[nobj]} \X {3, 4})
            /\ naddr' = entries[i].addr /\ npc' = "opened" /\ UNCHANGED nobj
       \/ /\ ToKey[nobj] \notin KeysOf(entries)
          /\ npc' = "idle" /\ nobj' = None /\ UNCHANGED naddr
    /\ UNCHANGED <<disk, entries, call, made, chans, covered, twice>>

store_decoded_msg ==
    /\ npc = "opened" /\ bm_messages_store_insert_inbox(nobj, naddr)
    /\ npc' = "idle" /\ nobj' = None /\ naddr' = None
    /\ UNCHANGED <<rows, vault, pool, entries, call>>
    /\ UNCHANGED <<made, chans, covered, twice>>

(* The process ends; what it kept in memory is gone.                       *)
Restart ==
    /\ entries' = <<>> /\ npc' = "idle" /\ nobj' = None /\ naddr' = None
    /\ Return /\ Follow({})
    /\ UNCHANGED <<disk, made, chans>>

-----------------------------------------------------------------------------
Store ==
    \/ \E a \in Addresses, p \in Passphrases :
          h_createDeterministicAddress(a, p) \/ h_joinChan(a, p)
    \/ \E S \in SUBSET Addresses \ {{}}, p \in Passphrases :
          \E C \in SUBSET S : h_importAddressesBulk(S, C, p)
    \/ \E a \in todo : ImportOne(a)
    \/ bm_keyring_mark_as_chan \/ ImportDone
Unlock ==
    \/ \E a \in Addresses, p \in Passphrases : h_unlockAddress(a, p)
    \/ \E p \in Passphrases : h_unlockAllAddresses(p)
    \/ \E S \in SUBSET Addresses \ {{}}, p \in Passphrases :
          \E C \in {{}, S} : h_unlockAddresses(S, C, p)
    \/ \E a \in todo : unlock_bulk_one(a)
    \/ unlock_bulk_vault \/ rewrap_to_vault \/ UnlockDone
Backfill == BackfillList \/ (\E o \in hashes : BackfillOne(o)) \/ BackfillDone
Lock ==
    \/ \E a \in Addresses : h_lockAddress(a) \/ h_deleteAddress(a)
    \/ h_lockAllAddresses \/ DeleteRow
Convert ==
    \/ \E S \in SUBSET Addresses, p \in Passphrases : h_convertV3AddressesToV4(S, p)
    \/ \E a \in todo : EnsureSibling(a)
    \/ EnsureChan \/ EnsureUnlocked \/ bm_messages_store_rename_own_address
    \/ ConvertLock \/ ConvertDelete \/ ConvertDone
Receive ==
    \/ \E o \in Objects : NetStore(o)
    \/ bm_trial_decrypt_msg \/ store_decoded_msg

Next == Store \/ Unlock \/ Backfill \/ Lock \/ Convert \/ Receive \/ Restart

Spec == Init /\ [][Next]_vars

-----------------------------------------------------------------------------
(* Every variable has its type, and a call at work has its address.        *)
TypeOK ==
    /\ rows \in [Addresses -> Row \cup {None}]
    /\ vault \in Passphrases \cup {None}
    /\ inbox \in [Objects -> Addresses \cup {None}]
    /\ pool \in SUBSET Objects /\ entries \in Seq(Entry)
    /\ npc \in {"idle", "stored", "opened"}
    /\ nobj \in Objects \cup {None} /\ naddr \in Addresses \cup {None}
    /\ apc \in ApiPCs /\ pass \in Passphrases \cup {None}
    /\ todo \in SUBSET Addresses /\ cur \in Addresses \cup {None}
    /\ sel \in SUBSET Addresses /\ hashes \in SUBSET Objects
    /\ made \in [Addresses -> Passphrases \cup {None}]
    /\ chans \in SUBSET Addresses /\ covered \in SUBSET Keys
    /\ twice \in SUBSET Addresses

(* No message is missed between an unlock and its backfill: once the       *)
(* backfill of a key pair is done and while an address of it is unlocked,  *)
(* each stored object it opens is in the inbox, or in the network thread's *)
(* hands (handle_object stores before it decrypts, unlockAddress adds the  *)
(* entry before the backfill lists the pool, and a conversion adds the v4  *)
(* entry before it takes the v3 one).                                      *)
NothingMissed ==
    \A o \in pool : ToKey[o] \in covered => inbox[o] # None \/ nobj = o

(* A stored address opens with the passphrase it was stored with until it  *)
(* is deleted or converted, whatever imports, unlocks that rewrap it with  *)
(* the vault's key, conversions and restarts come in between.              *)
StaysOpenable == \A a \in Addresses : made[a] # None => Opens(a, made[a])

(* A chan stays a chan: the flag of its row survives the conversion to v4, *)
(* and an unlocked chan is one for the keyring as well (§11 item 62), as   *)
(* long as the address was not unlocked twice.                             *)
ChanSurvives ==
    \A a \in chans :
        /\ rows[a] # None /\ rows[a].chan
        /\ a \notin twice =>
              \A i \in 1 .. Len(entries) : entries[i].addr = a => entries[i].chan

(* Reception goes on during a conversion: no step of it leaves a key pair  *)
(* without an unlocked address that had one (the v4 entry is there before  *)
(* the v3 one goes).                                                       *)
NoGap ==
    [][(apc \in Converting /\ ~Restart)
         => (KeysOf(entries) \subseteq KeysOf(entries'))]_vars

(* After lockAddress has answered, the address is not unlocked (keyring.h  *)
(* and DESIGN.md: lockAddress removes the key from the keyring).           *)
LockedIsGone ==
    [][\A a \in Addresses : h_lockAddress(a) => a \notin AddrsOf(entries')]_vars

(* When a conversion forgets the v3 address, no message in the inbox is    *)
(* left under it (messages_store.h: to_address is rewritten).              *)
NoMailLeftBehind == [][ConvertDelete => \A o \in Objects : inbox[o] # cur]_vars
=============================================================================
