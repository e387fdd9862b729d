------------------------------- MODULE Daemon -------------------------------
(***************************************************************************)
(* The process: how src/main.c starts its threads, gets an onion address   *)
(* from Tor (src/infra/tor_control.c), and stops at a signal; the queue    *)
(* between the proof-of-work worker and the publisher (src/common/queue.c) *)
(* and the repeated announcement of the address (src/infra/object_sync.c). *)
(* The process may crash anywhere and is started again on what is on disk. *)
(*                                                                         *)
(* A thread is in an operation, and then uses the objects main owns, or    *)
(* between two.  What the operations do is in the modules of the threads;  *)
(* here they submit jobs and hand objects over.  Of the network thread,    *)
(* which never ends and may be in an operation at any time, there is only  *)
(* that it runs.  The API server is two threads: MHD's own, "http", serves *)
(* the requests, and bm_api_server_thread, "api", waits for its flag.      *)
(*                                                                         *)
(* An operator X_Suffix just before X is a wrong form of X that no action  *)
(* uses, named for the slip it makes.                                      *)
(***************************************************************************)
EXTENDS Naturals, Sequences, FiniteSets

CONSTANTS
    Msgs,   \* messages the user sends
    Keys,   \* onion service keys Tor may create
    Settings, \* the options in force at some start
    Nil

Options == {"inbound", "onion", "tor", "no_connect"}

ASSUME SettingsAssumption == Settings \subseteq [Options -> BOOLEAN]
ASSUME KeyAssumption ==
    /\ Nil \notin Keys \cup Msgs \cup {"manual", "onion"}
    /\ "manual" \notin Keys /\ "onion" \notin Msgs

DaemonThreads == {"worker", "api", "http", "network", "publisher", "connector"}
Shared == {"queues", "registry", "keyring", "databases"}

(* What an operation of a thread uses of what main destroys in the end.    *)
Uses(t) ==
    CASE t = "worker" -> {"queues", "registry", "databases"}
      [] t = "publisher" -> {"queues", "registry", "databases"}
      [] t = "api" -> {}
      [] t = "http" -> {"registry", "keyring", "databases"}
      [] t = "connector" -> {"registry", "databases"}
      [] t = "network" -> {"registry", "keyring", "databases"}

VARIABLES
    key,        \* disk: tor_onion.private_key of config.db
    self,       \* disk: addresses of peers.db marked as the node's own
    sent,       \* how far a message is, "kept" being in object_pool.db
    announced,  \* all onion addresses ever announced to the network
    pc,         \* where main is
    conf,       \* the options in force
    listening,  \* main has a listening socket
    onion,      \* self_onion_address
    fresh,      \* the key Tor has just created, not stored yet
    signal,     \* SIGINT or SIGTERM is pending
    alive,      \* the threads that run
    busy,       \* those in an operation
    asleep,     \* the publisher waits on the condition of its queue
    suspended,  \* sends whose request api_suspended_connections counts
    still_suspended, \* the API thread has left MHD's running for their sake
    toPublish,  \* broadcast_queue
    closed,     \* the queues are shut down
    hand,       \* the object the publisher has popped
    jobs,       \* jobs in the proof-of-work queue
    cur,        \* the job whose callback runs
    refusing,   \* the proof-of-work queue is shut down
    stop,       \* the stop flags of the API server and the connector
    gone        \* the objects main has destroyed

disk == <<key, self, sent, announced>>
setup == <<conf, listening, onion, fresh>>
http == <<suspended, still_suspended>>
threads == <<alive, busy, asleep, http>>
work == <<toPublish, closed, hand, jobs, cur, refusing>>
daemonVars == <<disk, pc, setup, signal, threads, work, stop, gone>>

Stages == {"new", "pow", "queued", "hand", "kept", "lost"}

DaemonTypeOK ==
    /\ key \in Keys \cup {Nil} /\ self \subseteq Keys \cup {"manual"}
    /\ sent \in [Msgs -> Stages] /\ announced \subseteq Keys \cup {"manual"}
    /\ conf \in [Options -> BOOLEAN] /\ listening \in BOOLEAN
    /\ onion \in Keys \cup {"manual", Nil} /\ fresh \in Keys \cup {Nil}
    /\ signal \in BOOLEAN /\ stop \in BOOLEAN
    /\ alive \subseteq DaemonThreads /\ busy \subseteq alive /\ asleep \in BOOLEAN
    /\ suspended \subseteq Msgs /\ still_suspended \in BOOLEAN
    /\ toPublish \in Seq(Msgs) /\ closed \in BOOLEAN /\ refusing \in BOOLEAN
    /\ hand \in Msgs \cup {Nil} /\ cur \in Msgs \cup {"onion"} \cup {Nil}
    /\ jobs \subseteq Msgs \cup {"onion"} /\ gone \subseteq Shared

DaemonInit ==
    /\ key = Nil /\ self = {} /\ sent = [m \in Msgs |-> "new"]
    /\ announced = {} /\ pc = "off"
    /\ conf = [o \in Options |-> FALSE] /\ listening = FALSE /\ onion = Nil
    /\ fresh = Nil /\ signal = FALSE /\ alive = {} /\ busy = {} /\ asleep = FALSE
    /\ suspended = {} /\ still_suspended = FALSE
    /\ toPublish = <<>> /\ closed = FALSE /\ hand = Nil /\ jobs = {} /\ cur = Nil
    /\ refusing = FALSE /\ stop = FALSE /\ gone = {}

(* The process ends, in whatever way: only the disk stays.                 *)
End ==
    /\ pc' = "off"
    /\ sent' = [m \in Msgs |-> IF sent[m] \in {"pow", "queued", "hand"}
                                 THEN "lost" ELSE sent[m]]
    /\ conf' = [o \in Options |-> FALSE] /\ listening' = FALSE /\ onion' = Nil
    /\ fresh' = Nil /\ signal' = FALSE /\ alive' = {} /\ busy' = {}
    /\ asleep' = FALSE /\ suspended' = {} /\ still_suspended' = FALSE
    /\ toPublish' = <<>> /\ closed' = FALSE /\ hand' = Nil
    /\ jobs' = {} /\ cur' = Nil /\ refusing' = FALSE /\ stop' = FALSE
    /\ gone' = {}
    /\ UNCHANGED <<key, self, announced>>

Crash == pc # "off" /\ End

-----------------------------------------------------------------------------
(* The start.                                                              *)

Start ==
    /\ pc = "off" /\ pc' = "databases"
    /\ UNCHANGED <<disk, setup, signal, threads, work, stop, gone>>

(* SIGINT and SIGTERM are blocked in all threads until main waits for one. *)
Signal ==
    /\ pc # "off" /\ ~ signal /\ signal' = TRUE
    /\ UNCHANGED <<disk, pc, setup, threads, work, stop, gone>>

Goto(here, there) == pc = here /\ pc' = there

open_and_init(ok) ==
    /\ pc = "databases"
    /\ IF ok THEN pc' = "config" /\ UNCHANGED <<disk, setup, signal, threads,
                                               work, stop, gone>>
             ELSE End

(* A line of bitmessage.conf sets an option; a line that sets none is      *)
(* passed over.  A setting of the environment goes before both.            *)
set_defaults == [o \in Options |-> FALSE]

apply_kv(c, lines) ==
    [o \in Options |-> IF o \in DOMAIN lines THEN lines[o] ELSE c[o]]

bm_config_file_load(found, lines) ==
    IF found THEN apply_kv(set_defaults, lines) ELSE set_defaults

env_flag_or(env, file) ==
    [o \in Options |-> IF o \in DOMAIN env THEN env[o] ELSE file[o]]

Partial == UNION {[set -> BOOLEAN] : set \in SUBSET Options}

LoadConfig ==
    /\ Goto("config", "pow")
    /\ \E env \in Partial, lines \in Partial, found \in BOOLEAN :
        conf' = env_flag_or(env, bm_config_file_load(found, lines))
    /\ conf' \in Settings
    /\ UNCHANGED <<disk, listening, onion, fresh, signal, threads, work, stop,
                   gone>>

StartThread(ts) == alive' = alive \cup ts /\ UNCHANGED <<busy, asleep, http>>

bm_pow_queue_init(ok) ==
    /\ pc = "pow"
    /\ IF ok THEN /\ pc' = "api" /\ StartThread({"worker"})
                  /\ UNCHANGED <<disk, setup, signal, work, stop, gone>>
             ELSE End

(* The API thread returns at once if its port is taken.                    *)
StartApi(epoll, bound) ==
    /\ pc = "api"
    /\ IF epoll THEN /\ pc' = "listen"
                     /\ IF bound THEN StartThread({"api", "http"}) ELSE UNCHANGED threads
                     /\ UNCHANGED <<disk, setup, signal, work, stop, gone>>
                ELSE End

bm_network_listen(ok) ==
    /\ Goto("listen", "onion")
    /\ listening' = (conf["inbound"] /\ ok)
    /\ UNCHANGED <<disk, conf, onion, fresh, signal, threads, work, stop, gone>>

(* Only a version 3 address can be announced, and counts when configured.  *)
Texts == {"v3", "v2", "other"}

bm_build_onionpeer(text) == IF text = "v3" THEN "onionpeer object" ELSE Nil

bm_object_sync_validate_onion_address(text) == bm_build_onionpeer(text) # Nil

UseManualOnion(text) ==
    /\ Goto("onion", "network") /\ listening /\ conf["onion"]
    /\ IF bm_object_sync_validate_onion_address(text)
         THEN self' = self \cup {"manual"} /\ onion' = "manual"
         ELSE UNCHANGED <<self, onion>>
    /\ UNCHANGED <<key, sent, announced, conf, listening, fresh, signal, threads,
                   work, stop, gone>>

NoOnion ==
    /\ Goto("onion", "network")
    /\ ~ listening \/ ~ (conf["onion"] \/ conf["tor"])
    /\ UNCHANGED <<disk, setup, signal, threads, work, stop, gone>>

(* The dialogue with Tor: at the first thing that goes wrong, main goes on *)
(* without an address.                                                     *)
TorStep(here, there, ok) ==
    /\ pc = here /\ pc' = IF ok THEN there ELSE "network"
    /\ UNCHANGED <<disk, setup, signal, threads, work, stop, gone>>

TorConnect(unix, tcp) ==
    /\ listening /\ ~ conf["onion"] /\ conf["tor"]
    /\ TorStep("onion", "protocolinfo", unix \/ tcp)

(* A reply is read to its last line and is good if that says 250.          *)
read_full_reply(reply) == reply = "250"

TorProtocolInfo(reply, cookie) ==
    TorStep("protocolinfo", "authenticate", read_full_reply(reply) /\ cookie)

TorAuthenticate(reply) ==
    TorStep("authenticate", "add_onion", read_full_reply(reply))

StoredKey == key

(* Tor opens the service of the stored key, or of a new one it tells.      *)
bm_tor_control_add_onion(reply) ==
    /\ pc = "add_onion"
    /\ \/ ~ read_full_reply(reply) /\ pc' = "network" /\ UNCHANGED <<onion, fresh>>
       \/ /\ read_full_reply(reply) /\ StoredKey # Nil
          /\ pc' = "mark_self" /\ onion' = StoredKey /\ UNCHANGED fresh
       \/ /\ read_full_reply(reply) /\ StoredKey = Nil /\ pc' = "save_key"
          /\ \E k \in Keys : onion' = k /\ fresh' = k
    /\ UNCHANGED <<disk, conf, listening, signal, threads, work, stop, gone>>

bm_config_store_set_tor_onion_key_Never ==
    /\ Goto("save_key", "mark_self") /\ fresh' = Nil
    /\ UNCHANGED <<disk, conf, listening, onion, signal, threads, work, stop, gone>>

bm_config_store_set_tor_onion_key ==
    /\ Goto("save_key", "mark_self") /\ key' = fresh /\ fresh' = Nil
    /\ UNCHANGED <<self, sent, announced, conf, listening, onion, signal, threads,
                   work, stop, gone>>

bm_peer_manager_mark_self ==
    /\ Goto("mark_self", "network") /\ self' = self \cup {onion}
    /\ UNCHANGED <<key, sent, announced, setup, signal, threads, work, stop, gone>>

StartRest ==
    /\ \/ Goto("network", "publisher") /\ StartThread({"network"})
       \/ Goto("publisher", "connector") /\ StartThread({"publisher"})
       \/ /\ Goto("connector", "sigwait")
          /\ IF conf["no_connect"] THEN UNCHANGED threads
                                   ELSE StartThread({"connector"})
    /\ UNCHANGED <<disk, setup, signal, work, stop, gone>>

-----------------------------------------------------------------------------
(* The threads.                                                            *)

Enter(t) ==
    /\ t \in alive \ busy /\ busy' = busy \cup {t}
    /\ UNCHANGED <<disk, pc, setup, signal, alive, asleep, http, work, stop, gone>>

Leave(t) ==
    /\ t \in busy /\ busy' = busy \ {t}
    /\ UNCHANGED <<disk, pc, setup, signal, alive, asleep, http, work, stop, gone>>

(* A request that comes after the shutdown is refused.                     *)
bm_pow_queue_submit(j) == jobs' = IF refusing THEN jobs ELSE jobs \cup {j}

(* A send is answered when its proof of work is done; until then its       *)
(* connection is suspended.                                                *)
ApiSend(m) ==
    /\ "http" \in busy /\ sent[m] = "new"
    /\ bm_pow_queue_submit(m)
    /\ sent' = [sent EXCEPT ![m] = IF refusing THEN @ ELSE "pow"]
    /\ suspended' = IF refusing THEN suspended ELSE suspended \cup {m}
    /\ UNCHANGED <<key, self, announced, pc, setup, signal, alive, busy, asleep,
                   still_suspended, toPublish, closed, hand, cur, refusing, stop, gone>>

(* The callback has resumed the connection and MHD calls the handler again.*)
(* If the client has gone it never does, and the connection stays counted. *)
finish_async_response(m) ==
    /\ "http" \in busy /\ m \in suspended /\ sent[m] # "pow"
    /\ suspended' = suspended \ {m}
    /\ UNCHANGED <<disk, pc, setup, signal, alive, busy, asleep, still_suspended, work,
                   stop, gone>>

(* MHD_stop_daemon waits for the request MHD's thread is in.  It is called *)
(* with no connection suspended; if that takes 10 seconds, not at all, and *)
(* MHD's thread goes on.                                                   *)
ApiThreadEnds_NoStop ==
    /\ "api" \in alive /\ stop
    /\ alive' = alive \ {"api"} /\ still_suspended' = (suspended # {})
    /\ UNCHANGED <<disk, pc, setup, signal, busy, asleep, suspended, work, stop, gone>>

ApiThreadEnds ==
    /\ "api" \in alive /\ stop
    /\ \/ /\ suspended = {} /\ "http" \notin busy
          /\ alive' = alive \ {"api", "http"} /\ UNCHANGED still_suspended
       \/ /\ suspended # {}
          /\ alive' = alive \ {"api"} /\ still_suspended' = TRUE
    /\ UNCHANGED <<disk, pc, setup, signal, busy, asleep, suspended, work, stop, gone>>

ConnectorEnter == ~ stop /\ Enter("connector")

(* The row of the node's own address is deleted like any other, 28 days    *)
(* after its last_seen.                                                    *)
bm_peer_manager_cleanup(a) ==
    /\ "connector" \in busy /\ a \in self /\ self' = self \ {a}
    /\ UNCHANGED <<key, sent, announced, pc, setup, signal, threads, work, stop,
                   gone>>

(* The last announcement is 7380 seconds ago and the node has peers.       *)
bm_object_sync_maybe_reannounce_onion_peer ==
    /\ "connector" \in busy /\ onion # Nil
    /\ bm_pow_queue_submit("onion") /\ jobs' # jobs
    /\ UNCHANGED <<disk, pc, setup, signal, threads, toPublish, closed, hand, cur,
                   refusing, stop, gone>>

ConnectorThreadEnds ==
    /\ "connector" \in alive \ busy /\ stop /\ alive' = alive \ {"connector"}
    /\ UNCHANGED <<disk, pc, setup, signal, busy, asleep, http, work, stop, gone>>

WorkerFound(j) ==
    /\ "worker" \in alive \ busy /\ j \in jobs /\ ~ refusing
    /\ busy' = busy \cup {"worker"} /\ cur' = j /\ jobs' = jobs \ {j}
    /\ UNCHANGED <<disk, pc, setup, signal, alive, asleep, http, toPublish, closed,
                   hand, refusing, stop, gone>>

(* A push wakes the publisher, even after the queues are shut down.        *)
bm_queue_push(m) ==
    /\ toPublish' = Append(toPublish, m)
    /\ asleep' = FALSE

api_send_done ==
    /\ cur \in Msgs /\ cur' = Nil /\ busy' = busy \ {"worker"}
    /\ bm_queue_push(cur) /\ sent' = [sent EXCEPT ![cur] = "queued"]
    /\ UNCHANGED <<key, self, announced, pc, setup, signal, alive, http, closed, hand,
                   jobs, refusing, stop, gone>>

onionpeer_done ==
    /\ cur = "onion" /\ cur' = Nil /\ busy' = busy \ {"worker"}
    /\ announced' = announced \cup {onion}
    /\ UNCHANGED <<key, self, sent, pc, setup, signal, alive, asleep, http, toPublish,
                   closed, hand, jobs, refusing, stop, gone>>

bm_queue_pop ==
    /\ "publisher" \in alive \ busy /\ ~ asleep
    /\ \/ /\ toPublish # <<>> /\ busy' = busy \cup {"publisher"}
          /\ hand' = Head(toPublish) /\ toPublish' = Tail(toPublish)
          /\ sent' = [sent EXCEPT ![Head(toPublish)] = "hand"]
          /\ UNCHANGED <<alive, asleep>>
       \/ /\ toPublish = <<>> /\ ~ closed /\ asleep' = TRUE
          /\ UNCHANGED <<alive, busy, hand, toPublish, sent>>
       \/ /\ toPublish = <<>> /\ closed /\ alive' = alive \ {"publisher"}
          /\ UNCHANGED <<busy, asleep, hand, toPublish, sent>>
    /\ UNCHANGED <<key, self, announced, pc, setup, signal, http, closed, jobs, cur,
                   refusing, stop, gone>>

bm_object_sync_broadcast_thread ==
    /\ hand # Nil /\ hand' = Nil /\ busy' = busy \ {"publisher"}
    /\ sent' = [sent EXCEPT ![hand] = "kept"]
    /\ UNCHANGED <<key, self, announced, pc, setup, signal, alive, asleep, http,
                   toPublish, closed, jobs, cur, refusing, stop, gone>>

-----------------------------------------------------------------------------
(* The end.                                                                *)

sigwait ==
    /\ Goto("sigwait", "pow_stop") /\ signal
    /\ UNCHANGED <<disk, setup, signal, threads, work, stop, gone>>

bm_pow_queue_shutdown ==
    /\ Goto("pow_stop", "pow_join") /\ refusing' = TRUE
    /\ UNCHANGED <<disk, setup, signal, threads, toPublish, closed, hand, jobs, cur,
                   stop, gone>>

(* The callback that runs is waited for; the jobs left are cancelled.      *)
JoinWorker_NoWait ==
    /\ Goto("pow_join", "queues_stop")
    /\ alive' = IF "worker" \in busy THEN alive ELSE alive \ {"worker"}
    /\ jobs' = {}
    /\ sent' = [m \in Msgs |-> IF m \in jobs THEN "lost" ELSE sent[m]]
    /\ UNCHANGED <<key, self, announced, setup, signal, busy, asleep, http, toPublish,
                   closed, hand, cur, refusing, stop, gone>>

JoinWorker ==
    /\ Goto("pow_join", "queues_stop") /\ "worker" \notin busy
    /\ alive' = alive \ {"worker"} /\ jobs' = {}
    /\ sent' = [m \in Msgs |-> IF m \in jobs THEN "lost" ELSE sent[m]]
    /\ UNCHANGED <<key, self, announced, setup, signal, busy, asleep, http, toPublish,
                   closed, hand, cur, refusing, stop, gone>>

bm_queue_shutdown_NoBroadcast ==
    closed' = TRUE /\ UNCHANGED asleep

bm_queue_shutdown == closed' = TRUE /\ asleep' = FALSE

queues_shutdown ==
    /\ Goto("queues_stop", "flags") /\ bm_queue_shutdown
    /\ UNCHANGED <<disk, setup, signal, alive, busy, http, toPublish, hand, jobs, cur,
                   refusing, stop, gone>>

StopFlags ==
    /\ Goto("flags", "join_publisher") /\ stop' = TRUE
    /\ UNCHANGED <<disk, setup, signal, threads, work, gone>>

Join(t, here, there) ==
    /\ Goto(here, there) /\ t \notin alive
    /\ UNCHANGED <<disk, setup, signal, threads, work, stop, gone>>

JoinConnector == Join("connector", "join_connector", "queues")

Joins ==
    \/ Join("publisher", "join_publisher", "join_api")
    \/ Join("api", "join_api", "join_connector")
    \/ JoinConnector

Destroy(here, there) ==
    /\ Goto(here, there) /\ gone' = gone \cup {here}
    /\ UNCHANGED <<disk, setup, signal, threads, work, stop>>

(* The nodes left in the queues are freed with them.                       *)
queues_destroy ==
    /\ Goto("queues", "registry") /\ gone' = gone \cup {"queues"}
    /\ toPublish' = <<>>
    /\ UNCHANGED <<disk, setup, signal, threads, closed, hand, jobs, cur, refusing,
                   stop>>

Destroys ==
    \/ queues_destroy
    \/ Destroy("registry", "keyring") \/ Destroy("keyring", "close")

sqlite3_close ==
    /\ Goto("close", "return") /\ gone' = gone \cup {"databases"}
    /\ UNCHANGED <<disk, setup, signal, threads, work, stop>>

Return == pc = "return" /\ End

-----------------------------------------------------------------------------
Booting ==
    \/ \E ok \in BOOLEAN :
        \/ open_and_init(ok) \/ bm_pow_queue_init(ok)
        \/ \E bound \in BOOLEAN : StartApi(ok, bound)
        \/ bm_network_listen(ok)
        \/ \E tcp \in BOOLEAN : TorConnect(ok, tcp)
    \/ \E reply \in {"250", "other", "cut off"} :
        \/ \E cookie \in BOOLEAN : TorProtocolInfo(reply, cookie)
        \/ TorAuthenticate(reply) \/ bm_tor_control_add_onion(reply)
    \/ \E text \in Texts : UseManualOnion(text)
    \/ LoadConfig \/ NoOnion \/ bm_config_store_set_tor_onion_key
    \/ bm_peer_manager_mark_self
    \/ StartRest

Running ==
    \/ Enter("http") \/ Leave("http") \/ ApiThreadEnds
    \/ ConnectorEnter \/ Leave("connector") \/ ConnectorThreadEnds
    \/ bm_object_sync_maybe_reannounce_onion_peer
    \/ \E a \in self : bm_peer_manager_cleanup(a)
    \/ \E m \in Msgs : ApiSend(m) \/ finish_async_response(m)
    \/ \E j \in Msgs \cup {"onion"} : WorkerFound(j)
    \/ api_send_done \/ onionpeer_done
    \/ bm_queue_pop \/ bm_object_sync_broadcast_thread

Stopping ==
    \/ sigwait \/ bm_pow_queue_shutdown \/ JoinWorker \/ queues_shutdown
    \/ StopFlags \/ Joins \/ Destroys \/ sqlite3_close \/ Return

DaemonNext == Start \/ Signal \/ Crash \/ Booting \/ Running \/ Stopping

DaemonSpec == DaemonInit /\ [][DaemonNext]_daemonVars

(* Main goes on, every operation of a thread ends, and the API thread,     *)
(* which polls its flag every second, stops MHD's between two requests or  *)
(* after 10 seconds gives up.                                              *)
DaemonFairSpec ==
    /\ DaemonSpec
    /\ WF_daemonVars(Booting \/ Stopping)
    /\ WF_daemonVars(Leave("http")) /\ SF_daemonVars(ApiThreadEnds)
    /\ WF_daemonVars(Leave("connector") \/ ConnectorThreadEnds)
    /\ WF_daemonVars(api_send_done \/ onionpeer_done)
    /\ WF_daemonVars(bm_queue_pop \/ bm_object_sync_broadcast_thread)

-----------------------------------------------------------------------------
(* Whatever callback runs when the signal comes, an object that was handed *)
(* to the publisher is in the pool when main returns: the worker is joined *)
(* before the queue is closed, and the publisher empties the queue before  *)
(* it ends.                                                                *)
HandedOverIsKept ==
    "queues" \in gone => \A m \in Msgs : sent[m] \notin {"queued", "hand"}

(* No operation of a thread uses what main has destroyed: main joins the   *)
(* thread, or the API thread has stopped it.  The exception is the one     *)
(* bm_api_server_thread logs: a connection was still suspended, and        *)
(* requests are served on while main destroys what they use.               *)
JoinedBeforeDestroyed ==
    \A t \in busy :
       Uses(t) \cap gone = {} \/ (t = "http" /\ still_suspended)

(* What src/main.c says of all threads; the detached network thread, and   *)
(* MHD's when it was left running, go on while main destroys what they use *)
(* (README, Observations).                                                 *)
AliveForAll == \A t \in busy \cup (alive \cap {"network"}) : Uses(t) \cap gone = {}

(* An address of Tor's that was ever announced can be opened again: across *)
(* crashes and starts the node announces one such address, whose key it    *)
(* has stored.                                                             *)
OnionIsKept == announced \subseteq {key, "manual"}

(* Why they hold.  Up is where main has started all threads, and the sets  *)
(* within it are what lies behind the steps of the shutdown.               *)
Torn == {"registry", "keyring", "close", "return"}
Joined == Torn \cup {"queues"}
NoApi == Joined \cup {"join_connector"}
NoPublisher == NoApi \cup {"join_api"}
Closed == NoPublisher \cup {"flags", "join_publisher"}
NoWorker == Closed \cup {"queues_stop"}
Up == NoWorker \cup {"sigwait", "pow_stop", "pow_join"}

(* Who has a message that is on its way to the pool.                       *)
OnTheWay ==
    \A m \in Msgs : /\ sent[m] = "queued" => \E i \in 1 .. Len(toPublish) : toPublish[i] = m
                    /\ sent[m] = "hand" => hand = m

(* Which threads are left, and what they have left to do.  The publisher   *)
(* ends with an empty queue, and nobody is left then to push.              *)
StopInv ==
    /\ "network" \notin busy /\ "api" \notin busy
    /\ gone # {} => pc \in Torn
    /\ "worker" \in busy <=> cur # Nil
    /\ "publisher" \in busy <=> hand # Nil
    /\ closed <=> pc \in Closed
    /\ pc \in NoWorker => "worker" \notin alive
    /\ pc \in NoPublisher => "publisher" \notin alive
    /\ pc \in NoApi => "api" \notin alive
    /\ "http" \in alive => "api" \in alive \/ still_suspended
    /\ pc \in Joined => "connector" \notin alive
    /\ pc \in Up \cup {"connector"} =>
          "publisher" \in alive \/ (closed /\ toPublish = <<>>)
    /\ OnTheWay

(* The address in use is one whose key is stored, except between ADD_ONION *)
(* and the store, when nothing can be announced.                           *)
OnionInv ==
    /\ OnionIsKept
    /\ pc # "save_key" => onion \in {key, "manual", Nil}
    /\ pc = "save_key" => key = Nil /\ onion = fresh /\ fresh \in Keys
    /\ pc = "mark_self" => onion # Nil
    /\ pc \notin Up => "connector" \notin alive /\ "onion" \notin jobs /\ cur # "onion"
    /\ "onion" \in jobs \/ cur = "onion" => onion # Nil

(* The node knows what it announces to be its own; not for longer than 28  *)
(* days, though (README, Observations).                                    *)
OwnIsKnown == announced \subseteq self

(* A signal ends the process, whatever the threads are doing.              *)
SignalEnds == signal ~> pc = "off"
=============================================================================
