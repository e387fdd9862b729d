# TLA+ verification of the bitmessage node

Models, model-checking runs and machine-checked proofs for the daemon in `src/`:
a Bitmessage node in C with epoll networking, SQLite stores, a proof-of-work
worker and a JSON-RPC API. Paths below are relative to the repository.

Conventions:

- Sections of code under one mutex are single actions; where the code lets go of
  a lock between two sections, they are two actions.
- Definitions keep the names of the C functions they model. `PROJECT.json` maps
  each one to its lines.
- An operator `X_Suffix` just before `X` is a deliberately wrong form of `X`,
  named for the slip it makes. No specification uses it; it exists to show that
  a property would notice the slip.
- `MC*.tla` modules only give values to constants; each `.cfg` is one run, listed
  below, or shows one of the Observations.
- `*Proofs.tla` modules hold the theorems, checked by TLAPS.

## The system

| part | source | threads that run it |
|---|---|---|
| PoW job queue | `src/pow/pow_queue.c` | `pow_worker_thread`, any submitter, main at shutdown |
| PoW engine | `src/pow/pow_engine.c` | N search threads per job |
| generic queue | `src/common/queue.c` | API, worker and network threads push; broadcast thread pops |
| connections, send queues, sweep | `src/infra/network.c` | `network_epoll_thread`; senders on other threads |
| framing and payloads | `src/infra/protocol.c`, `src/common/varint.c` | `network_epoll_thread` |
| peer registry | `src/infra/peer_registry.c` | all |
| outbound connector | `src/infra/peer_connector.c` | `peer_connector_thread` |
| known peers | `src/core/peer_manager.c` | connector, epoll, API |
| Dandelion++ routing | `src/infra/dandelion.c` | epoll, connector, broadcast |
| object synchronisation | `src/infra/object_sync.c` | epoll, broadcast, worker |
| object store | `src/infra/object_store.c` | epoll, broadcast, API |
| send pipeline | `src/core/send_pipeline.c` | API, worker, epoll |
| messages store | `src/core/messages_store.c` | API, worker, epoll |
| API server | `src/core/api_server.c` | MHD thread, `api_server_thread`, worker callbacks |
| keyrings and identities | `src/core/keyring.c`, `pq_keyring.c`, `identity_store.c`, `pq_identity_store.c` | API, epoll |
| decryption of received objects | `src/core/trial_decrypt.c`, `broadcast_decrypt.c` | epoll |
| public key caches | `src/core/pubkey_cache.c`, `pq_pubkey_cache.c` | epoll, API |
| message building, addresses, cryptography | `src/core/message_builder.c`, `address.c`, `crypto.c`, `src/pq/` | whoever calls |
| configuration | `src/core/config_file.c`, `config_store.c` | main, API |
| Tor control | `src/infra/tor_control.c` | main |
| start and shutdown | `src/main.c` | main |
| command line client | `src/cli/` | a process of its own |

How they interact. The network thread reads messages, stores objects, tries to
decrypt them and answers requests. An object made here goes through the send
pipeline, which submits one or two proofs of work to the job queue; the worker's
callback writes the message's row and pushes the object on the publisher's
queue; the publisher stores it and announces it through the registry, where
Dandelion decides per peer between a stem, an announcement and silence. Every
message to a peer goes through that connection's send queue. The API server
suspends an HTTP request while its proofs of work are under way and resumes it
from the worker's callback. Main waits for a signal and takes all of it down.

## Modules

| module | models | state and actions |
|---|---|---|
| `PowQueue` | `pow_queue.c` | the waiting list, the counter, the running job and its key; submit, the worker loop, the callback, shutdown in its three stages |
| `PowLedger` | what `pow_queue.h` promises | jobs accepted and jobs settled, in order; `PowQueue` implements it |
| `SendQueue` | the send half of `network.c` | the chunks, the byte counter, EPOLLOUT, the stall clock; send, flush, the sweep, the close |
| `SendPipeline` | `send_pipeline.c`, the `sent` and `inbox` tables, resends, acks | extends `PowQueue`: its worker's callbacks are those of the pipeline |
| `ApiAsync` | the asynchronous requests of `api_server.c` | requests, slots, counters, MHD's view of the connection, the stopping thread |
| `Dandelion` | `dandelion.c`, `bm_peer_registry_broadcast_inv`, the big inv | entries, the stem, the peers told and those a broadcast left out; three announcing threads, received objects and acks |
| `ConnLifecycle` | accept, read, sweep and close in `network.c`, `peer_registry.c`, `peer_connector.c`, the handshake, the ratings | one allocation per identity, the registry, epoll's set, the network thread's batch and snapshot, the connector's steps, a walk under `reg->lock`; peers that send, leave or become writable as soon as they are connected |
| `Keyring` | `keyring.c`, `identity_store.c`, the address calls of `api_server.c`, `trial_decrypt.c`, the backfill | rows, vault, unlocked entries, inbox and pool; each API call step by step, the network thread on a new object, restarts |
| `PubkeyExchange` | `pubkey_cache.c`, `pq_pubkey_cache.c`, the automatic getpubkey of `api_server.c`, its answer in `object_sync.c` | two nodes with their pools, the request and answer tables, the answer under way; each statement of the API thread, the network threads and the workers, strangers who ask too, expiry |
| `Daemon` | `main.c`, `queue.c`, `tor_control.c`, the stored onion key, the announcement of the address | where main is, which threads run and are in an operation (MHD's own thread beside the API thread that stops it), the requests MHD has suspended, what is destroyed, the publisher's queue, what is on disk; every step of start and stop, a failure or a crash at each |
| `ObjectExchange` | inv, getdata and object in `object_sync.c`, `object_store.c`, the big inv in chunks and the refill in `network.c` | the pool, what is on its way, the array of pending uploads with head, count and capacity, the send queue in packets |
| `UploadFifo` | what a peer may expect of getdata | a bounded FIFO of requests; `ObjectExchange` implements it |
| `PeerBook` | `peer_manager.c`, the connector's cycle in `peer_connector.c`, all other writers of `peers.db` | the table, the cycle's array of candidates, those of them the network thread has rated since, the connections; cleaning, seeding, listing, choosing and dialling, results, hearsay, restarts |

Composition: `SendPipeline` is `PowQueue` with the callbacks filled in, so that
what it shows about attempts, rows and acks rests on the queue's real
interleavings. `ApiAsync` takes from `SendPipeline` what that module proves of
it: an accepted send is completed exactly once, and none is owed after shutdown.
`ConnLifecycle` reduces a send to what `SendQueue` shows of one: it is
taken, or it fails and sets `pending_eviction`. `Dandelion` and `Keyring` see
connections and objects only as far as their own questions need. `Daemon` takes
of the job queue what `PowQueue` shows: an accepted job gets one callback. The end
of the HTTP daemon it models itself, with both ways out: MHD is stopped once no
connection is suspended, or left running after ten seconds (`ApiAsync` shows that it
is never stopped with one suspended). `ObjectExchange` uses a send
queue that takes a packet, or fails and evicts (`SendQueue`). `PeerBook` takes a
connection as made or not made, and leaves the steps in between to
`ConnLifecycle`.

What each module leaves out of its data, beyond what its header says:

- `PowQueue`: a search is a step that ends with a nonce or by cancellation; the
  search itself is not modelled.
- `SendQueue`: a byte is its position in the accepted stream; the room in the
  socket is a number, and the peer may stop reading for good.
- `SendPipeline`: a row has a status, a count of resends, the ack it waits for
  and whether its time has come. An ack comes back late or never. A write of
  messages.db may fail (`DbOutcomes`).
- `ApiAsync`: a request body is a sequence of kinds of call.
- `Dandelion`: object contents and expiry are left out; an object, once stored,
  stays. An ack is an object that comes in a msg of some peer.
- `ConnLifecycle`: a received message is one of the commands whose handler
  changes the state of the connection, one that is too large, or "other". Any
  polled connection may become writable, and any swept one may have stalled.
- `Keyring`: cryptography succeeds just with the passphrase used to wrap; SQLite
  and `malloc` do not fail; a key pair has one v3 and one v4 address.
- `PubkeyExchange`: an object is its version, its form (plain, sealed or by tag)
  and a stage of its life; a slot stands for a hash. Building a key is choosing its
  version and form, and parsing it is comparing them. Neither node crashes: a crash
  between the pool and the table of own answers (`object_sync.c:359`, `:361`) would
  let one more answer be made. The address asked for is not the asker's own, so the
  check at `api_server.c:1653` always passes.
- `Daemon`: an operation of a thread is what it uses; the network thread is only
  there. The four options that change what main starts are the configuration. A
  reply of Tor is good, bad or cut off.
- `ObjectExchange`: one connection; packets, not bytes; requests are known by
  their number.
- `PeerBook`: ages in ranges (recent, hours, weeks, and years ahead), ratings in
  steps of 0.1 without binary rounding; SQLite does not fail. A dial fails or not,
  at any step of the dialogue with a proxy.

## Runs

Each run is `tlc -config <cfg> <module>`. Deadlock is checked except where the
system may really stop: after a shutdown, or when every bounded operation has
been used up.

| run | checks | instance |
|---|---|---|
| `pow_queue` | no two owed jobs with one key; every accepted job is delivered; shutdown returns; `PowLedger` is implemented | five submissions: two stages with one key, a resend with that key, an unkeyed job, an overlong key; two places |
| `send_queue` | the wire is the accepted stream; a peer that makes progress is not cut off; every byte is sent or the connection closed | the epoll thread and one other sender, messages of 1 and 2 bytes, hard limit 4, socket buffer 2, 6 bytes in all |
| `send_pipeline` | attempts of a message do not overlap; the newest ack is known; no resend after an ack at rest; every attempt is reported; acked or given up | a message to somebody else and one to oneself, one place in the queue, three sends, one resend of each before giving up, failing writes, one restart |
| `api_async` | nothing freed is touched; answers carry their own outcomes; no stop with a suspended connection; every request ends | a batch of a send and a notification, a single send, a plain call, a batch that is too long |
| `dandelion` | nothing unknown is advertised; no peer is forgotten; every peer is told in the end (both but for the two ways a broadcast has of leaving one out) | one object, a peer that offers Dandelion and one that does not, all three announcing threads |
| `conn_safe` | nobody has a pointer to a connection freed after it was registered | two allocations for one peer, so that a closed one is followed by another while the first is still in somebody's hands, and one client; peers that act at once |
| `conn_live` | a handshake completes or the connection is closed; a gone peer is freed | one outbound connection, all timeouts of one tick, peers that act at once |
| `keyring` | no message falls between an unlock and its backfill; no address becomes unopenable; chans stay chans; a conversion does not interrupt reception | one key pair with both addresses, two passphrases, one object for it and one for somebody else, `unlockAll` limited to one |
| `pubkey` | at most two answers of a version are valid at a time; a wanted key is obtained | version 3 wanted while strangers ask for its siblings 2 and 4, or version 5 wanted by all; one request valid at a time, three answers |
| `daemon` | what was handed to the publisher is stored before main returns; no thread uses what is destroyed, but for the network thread and an HTTP thread left running; an announced address is the node's own and its key stored; a signal ends the process | one message, two keys of Tor's, three settings (Tor, an address of the user's, neither), crashes anywhere |
| `object_exchange` | an object is handled once; the array implements `UploadFifo`; every upload ends; the whole pool is advertised | two objects, one expiring and carrying the other as its ack; three requests, limit two, an array that starts with one place, chunks of one |
| `peer_book` | a cycle has somebody to dial; a bad host rests for the cooldown unless rated by the network thread meanwhile; every cycle ends; who is not heard of is forgotten | a seed, a host of another stream and the node's own onion address, which it may also learn from its own announcement; two candidates, two places, ratings -1, 0 and 1 |

Bounds and why they are enough:

- Capacities are 1 or 2. At that size full, empty and one-from-full are all met,
  and every refusal happens.
- Submissions, sends and allocations are finite identities: each distinct role
  (first stage, second stage, resend, unkeyed) appears once, and a second one of
  the role that interferes with itself.
- Clocks are kept as ages that stop at their largest limit, so time needs no
  bound. Timeouts are one or two ticks: "before", "at" and "after" all occur.
- `MaxAccepted`, `MaxSends`, `MaxAccepts`, `MaxRestarts` and `MaxEntries` bound
  how often something starts. They stand in guards of the step that begins it,
  never of one that finishes it.
- `Keyring` needs no bound on restarts: they return to states already seen.
- `PubkeyExchange`, `Daemon` and `PeerBook` need no bound on requests, crashes or
  cycles either: slots are used again, crashes lead back to a start, and ages end
  at their last range.
- `peer_book` cuts the scale of ratings from 21 steps to three, one on each side of
  the tests the code makes (below 0, and sure to be chosen).
- `Scale` cuts the ratings of `conn_live` in the same way; `conn_safe` does without
  them. `MaxUnread` bounds what a peer has sent and nobody has read: one message, so
  that every command is met alone and after every other.
- `MaxTime` of `object_exchange` passes both grace periods; `MaxOther` lets other
  senders fill the send queue.
- In `keyring` the two passphrases are a symmetry set; its properties are
  invariants and one action property, for which this is sound.

Fairness:

- The PoW worker and the shutting-down thread go on when they can (weak
  fairness): they are plain threads that nothing else holds up. That a search
  ends is luck, not scheduling, so it is an antecedent (`Lucky`) of the one
  property that needs it; shutdown returns without it.
- `SendQueue`: the thread in the middle of a flush, the epoll thread and the clock
  go on. Nothing is assumed of the peer.
- `SendPipeline`: the worker's callbacks and the resend check go on. `Helped`, an
  antecedent of `AckedOrGivenUp`, says that a resend tried again and again is at
  some time accepted by the queue.
- `ApiAsync`: MHD's thread goes on. `CallbacksCome` is what `SendPipeline` shows
  under its own fairness.
- `Dandelion` and `ConnLifecycle`: strong fairness for the clock, for the network
  thread or the connector's pass, and for whoever waits for `reg->lock`, which is
  free again and again but not continuously. This is the one assumption the pthread
  mutex does not promise by specification; sections under it are short and each
  thread sleeps between them.
- `PubkeyExchange`: the threads go on and the user calls again. `Delivery`, an
  antecedent of `KeyObtained`, says that what is announced again and again is
  fetched in the end and that a queue with room again and again takes the job;
  the others are that the owner stays unlocked and that no answer expires.
- `Daemon`: main goes on and every operation of a thread ends. Strong fairness for
  the end of the API thread: it looks at its flag every second, and either MHD is
  idle then with nothing suspended or the ten seconds pass.
- `ObjectExchange`: the handler's loop ends and the sweep comes every second; strong
  fairness for "the socket takes bytes or the sweep closes the connection", which
  `SendQueue` shows as `SentOrClosed`.
- `PeerBook`: the connector and the clock go on; dialling has time limits. Strong
  fairness for a draw that finds nobody: the code draws fifty times with
  `RAND_bytes` and gives up, and a host that is not sure to be taken is rejected
  with some probability each time.

## Proofs

Every theorem is stated for all values of the constants that satisfy the named
`ASSUME`s of the component's module; TLC evaluates these on each instance. The
proofs about the job queue and the pipeline that extends it are in
`SendPipelineProofs` (the queue, the attempts) and `ResendProofs` (the rows). Three
modules cover two components each that share no variable: `ThreadProofs`,
`RelayProofs` and `DirectoryProofs`. So that both can be extended, the
specifications of `Daemon`, `PeerBook` and `Dandelion` are called `DaemonSpec`,
`BookSpec` and `RelaySpec`.

| module | inductive invariant and why it is needed | results |
|---|---|---|
| `SendPipelineProofs`, `PowQueue` | `OrderInv`: the accepted jobs are the settled ones, then the running one if its callback is owed, then the waiting or doomed ones. Without it nothing connects the list with what was promised. `ControlInv` says where the worker and shutdown can be. | types, callbacks in order and exactly once, deduplication, exact counter, no sleep beside work, nothing owed after shutdown, the key held through the callback, the refinement of `PowLedger` |
| `SendPipelineProofs` and `ResendProofs`, `SendPipeline` | `PowQueue`'s invariant carried through the callbacks, `HeldInv` (no other job has the running job's key until the callback has reported or handed it on), `NumberInv` and `RowInv` (the row's count and the attempts made). `AckInv` adds that every job still owed a callback is newer than the row's ack, so a write never puts back an older one | types, `done` exactly once, attempts apart, a message to oneself sent once, resends bounded by the maximum and one, rest after an ack, the newest ack known |
| `ApiAsyncProofs` | where the handler and MHD's view of a connection can be for each value of `outstanding`, which calls have no outcome yet, what a stopping server has behind it | types, exact counter, no use after free, a resume only of the suspended, true answers, a clean stop |
| `ConnLifecycleProofs` | `PlaceInv`, `PointerInv`, `HandInv`: which thread may have which pointer, and of the connections freed so far that only one the connector had not registered may still be in somebody's hands | types, nothing used once freed after registration, none lost, both limits, one connection per peer, however early a peer acts |
| `KeyringProofs` | `CallInv` (what a call has established when it is between two of its steps), `NetInv` (what the network thread has in hand), `FillInv` (what a backfill under way has done). `CInv`: an address not unlocked twice has one entry at most, a row just stored or about to go has none, and a conversion past the copy of the flag finds it in the v4 row | types, addresses stay openable, no message missed, no gap in reception, chans stay chans |
| `ThreadProofs`, `SendQueue` | `ChunkInv`: the chunks are consecutive stretches of the accepted stream, and only the first is partly written. `AgeInv` relates the recorded age to the real one through the lag of a clock reading. | types, stream order, exact byte count and hard limit, EPOLLOUT follows the queue if `epoll_ctl` does not fail, no hasty close |
| `ThreadProofs`, `Daemon` | `StopInv`: at each step of the shutdown, which threads are left and what they have left to do; a message on its way is in the queue or in the publisher's hands, and a publisher that has ended left a closed and empty queue, which nobody is there to push to; MHD's thread outlives the API thread only if it was given up. `OnionInv`: the address in use is that of the stored key except between `ADD_ONION` and the write, when nothing can be announced | types, what was handed over is stored, threads are joined, and MHD stopped or given up, before what they use is destroyed, one onion address |
| `RelayProofs`, `Dandelion` | `CoverInv`: for every stored object and peer one of the reasons why the peer need not be told now, the two ways of being left out among them | types, only held objects advertised, nobody forgotten but those left out |
| `DirectoryProofs`, `PeerBook` | `BookInv`: what a row or the cycle's copy of it says of the last attempt is no longer ago than the attempt was; the connections and those the cycle still wants are within the limit, though it counted them once. `CopyInv`: a candidate not rated since it was listed has in its copy the rating of its row. Writes of other threads keep the rows of others, their marks and their attempts (`Grows`), and one lemma serves them all at every step of the cycle | types, somebody to dial, the outbound limit, the cooldown kept |
| `RelayProofs`, `ObjectExchange` | `StoreInv`: a handled object is in the pool until it is too old to be accepted (this needs the order of the two grace periods). `ArrayInv`: the `count` entries from `head` lie inside the capacity and `count` within the limit, whatever was moved or grown; without it the abstract queue is not defined. `ListInv`: the hashes before `pending_inv_sent` were told, and every hash of the listing is in the list, so that the last chunk completes it | types, an object is handled at most once; a peer is told the whole listing of its verack and nothing else; the array, moved or grown, implements `UploadFifo` |
| `DirectoryProofs`, `PubkeyExchange` | `AnswerInv`: an answer about to be submitted or in the worker will be one more, so `Counted` counts it; `Recorded` says what the cache holds between the three writes of `pubkey_response_done`, from which a question that finds nothing to repeat finds at most one answer | types, at most two answers of a version |

No theorem assumes that the peers behave or that the schedule is kind.
`ConnSafeOnceListed` says nothing of a connection freed before the connector has
registered it, where the code does go wrong (Observations, `NoDangling`).
`NoneForgotten` holds with those left out listed by the history variable `leftOut`:
a peer enters it when a broadcast that was stemming has passed it and then turns to
fluff, or when the ack comes in a msg of its own, and leaves it when it is told.
`Apart` leaves out MHD's thread once the API thread has given it up, and
`LeftInPeace` the candidates in `judged`, those the network thread has rated since
the cycle listed them.

Every safety property that a run checks, invariant or action property, is proved.
The strengthened invariants (`StopInv`, `OnionInv`, `BookInv`, `CopyInv`, `AnswerInv`, `AckInv`,
`CInv` and the others of the table) were model-checked on small instances before
they were proved; those defined in a component's module can be added to its cfg.

Only model-checked: every liveness property and the fairness behind it, for which
TLAPS has no rules here.
Only proved: the properties of a module that no cfg names, such as
`ExactlyOnceInOrder`, `PendingExact`, `QueuedExact`, `DoneExactlyOnce`,
`OutstandingExact`, `ResumesSuspended`, `NoneIsLost`, `OnePerPeer`,
`InboundBounded`, the two `OutboundBounded`, `ListingTold` and the type invariants.
`ListingTold` is the safety half of `PoolIsAdvertised`: what the fairness of the
sweep then adds is only that the last chunk goes out.

## Observations

Statements of the repository's docs, comments and tests that TLC refutes. They are
kept in the modules; a cfg is named where one reproduces the trace, the others are
shown by adding the definition to the module's cfg.

- `AckedIsNoCandidate` (`SendPipeline`, `MCSendPipelineAcked.cfg`):
  `bm_messages_store_insert_sent` replaces a row whatever its status
  (`messages_store.c:179`). If the ack arrives while the proof of work of a resend
  runs, the row goes back to waiting and the message is sent again, although
  `tests/test_resend.c:6` says that an acknowledged row is no candidate.
- `CountsSuspended` (`ApiAsync`, `MCApiAsyncCount.cfg`): a connection that breaks
  while it is suspended is freed without being uncounted (`api_server.c:2926`,
  `api_server.c:1478`); the API thread then waits in vain for the counter to reach
  zero and leaves the HTTP daemon running.
- `NoDangling` (`ConnLifecycle`, `MCConnDangling.cfg`): a connection is
  given to epoll before the connector has finished with it
  (`peer_connector.c:536`). If the peer closes at once the network thread frees
  what the connector goes on using, contrary to what `network.h:125` says of
  `free`.
- `NoMailLeftBehind` (`Keyring`, `MCKeyringMail.cfg`): a message decrypted under a
  v3 address just before its conversion is filed under it after the inbox has been
  rewritten, and converting again cannot repair it (`messages_store.c:573`,
  `messages_store.h:143`, `api_server.c:678`).
- `KeyObtained` for version 4 (`PubkeyExchange`, `MCPubkeyV4.cfg`): a sealed key
  that reached the pool before it was asked for is never opened; the owner answers
  by announcing the same hash, which is known. `api_server.c:1716` tells the user
  to retry; `object_sync.h:299` describes the case and cures it for version 5.
- `OneAnswer` (`PubkeyExchange`): a request between the worker's answer and its
  entry in the cache has a second answer computed. `NoPileUp` shows that there are
  never three.
- `AliveForAll` (`Daemon`): the network thread is detached and not stopped, and
  main destroys the registry, the keyring and the databases under it
  (`main.c:718`). So it does under MHD's thread if the API thread has stopped
  waiting for a suspended connection (`api_server.c:3008`).
- `OwnIsKnown` (`Daemon`): the row that marks the node's own address is cleaned
  away like any other when 28 days old, while the address is still announced
  (`peer_manager.c:371`).
- `OnlyTimeAges` (`PeerBook`): an addr entry sets `last_seen` back to a time before
  the last success (`peer_manager.c:325`), and the next cleanup deletes the row
  with its rating. `peer_manager.h:88` says hearsay does not reset what
  connections have earned.
- `CooldownForAll` (`PeerBook`, `MCPeerCooldown.cfg`): a host whose connection the
  network thread closes while the cycle still wants others has a worse rating in
  the table than in the cycle's copy, and is dialled again within the cooldown
  (`peer_connector.c:471`), although `peer_manager.h:125` has the cooldown for just
  such hosts.
- A second verack on a connection begins another big inv: the rest of the first
  list is neither sent nor freed (`network.c:866`). `ObjectExchange` has one verack
  per connection; the second list covers what is still valid of the first.
- `GivesUpAtMax` (`SendPipeline`): a row may be resent once more than
  `BM_RESEND_MAX_ATTEMPTS` (`messages_store.h:16`, `object_sync.c:203`), because
  candidates are listed before the last one's row is written. `BoundedResends`
  proves that it is once more and no further.
- `PublicIsNotStemmed` (`Dandelion`): an object learned from a plain inv may be
  stemmed after its entry is pruned (`dandelion.h:13`, `dandelion.c:364`).
- `StemFirst` (`Dandelion`): a stemming object may be in a big inv
  (`dandelion.h:5`, `object_sync.c:2086`).
- `NobodyLeftOut` (`Dandelion`): a broadcast overtaken by its own deadline or by a
  new stem leaves out the peers it has passed (`dandelion.c:275`,
  `dandelion.c:300`), and the ack in a msg is not announced to the peer the msg
  came from (`object_sync.c:328`).
- `HandshakeIsMutual` (`ConnLifecycle`): a verack before the version completes the
  handshake (`object_sync.c:1883`, `object_sync.c:1887`).
- `LockedIsGone` (`Keyring`): an address unlocked twice by `unlockAddress` has two
  entries and `lockAddress` removes one (`DESIGN.md:861`, `keyring.c:836`).
- `joinChan` stores the identity and sets its chan flag in two statements
  (`api_server.c:1296`). If the process ends in between, the address is there
  without the flag and a second `joinChan` is refused as a duplicate.

## Not modelled

- The search threads of the PoW engine and the arithmetic of the target
  (`pow_engine.c:18`, `pow_engine.c:74`): `PowQueue` takes a search as a step that
  finds a nonce or is cancelled. The products of 128 bits are out of reach of TLC's
  integers.
- The v5 keyring and its reception of messages: the structure of `Keyring` again,
  with keys expanded when first used.
- Broadcasts and their decryption: one proof of work without a row, and a loop over
  subscriptions around cryptographic functions.
- Cryptography, address encoding, message layout, varints and framing: conversions
  without state. The modules see a message as one of the kinds its handler tells
  apart.
- The other API methods (address book, subscriptions, listings, settings, status):
  single statements or reads.
- The command line client, logging and JSON: no other part relies on their state.
- Failures of SQLite and of `malloc`, except where a module's header or
  `DbOutcomes` says otherwise.

Next would come the search threads of the engine and the v5 keyring.
