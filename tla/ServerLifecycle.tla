-------------------------- MODULE ServerLifecycle --------------------------
(***************************************************************************)
(* One daemon from its start to its end: serve_inner and run_servers       *)
(* (lib.rs), the listener, connection and request tasks and their nested   *)
(* drains (transport.rs), the TUN bridge and the metrics listener, and the *)
(* root supervisor with its worker process (supervisor.rs).  Tasks run in  *)
(* parallel; every step that acquires something may fail.                  *)
(*                                                                         *)
(* A task is told to end by abort(), which takes effect later, when it is  *)
(* parked; dropping a JoinSet aborts its tasks and waits for none.         *)
(***************************************************************************)
EXTENDS Naturals, Sequences, FiniteSets

CONSTANTS Listeners,     \* the configured listen addresses
          Connections,   \* QUIC connections that clients may open
          Requests,      \* requests that clients may send
          ListenerOf,    \* the listener a connection comes in on
          ConnectionOf,  \* the connection a request comes in on
          MaxConnections, \* limits.max_connections, which every listener has to itself
          MaxFaults      \* how many steps may fail

ASSUME ListenersAssumption == Listeners # {} /\ IsFiniteSet(Listeners)
ASSUME TreeAssumption ==
    /\ ListenerOf \in [Connections -> Listeners]
    /\ ConnectionOf \in [Requests -> Connections]
    /\ Listeners \cap Connections = {}
    /\ Listeners \cap Requests = {}
    /\ Connections \cap Requests = {}
ASSUME LimitsAssumption == MaxConnections \in Nat \ {0} /\ MaxFaults \in Nat

VARIABLES
    role,       \* "direct", or "supervised": MASKMAN_ROLE=supervisor
    ip,         \* whether CONNECT-IP is enabled
    sup,        \* where the supervisor is, "absent" in the direct role
    stopping,   \* whether the supervisor has passed on a request to stop
    serve,      \* where serve_inner is in the process that serves
    todo,       \* what is left of serve_inner's way out
    host,       \* "prepared" while the host is changed for this daemon
    bridge, metrics, control,   \* serve_inner's three background tasks
    listener, conn, req,        \* the state of every task of the tree
    stop,       \* listeners whose shutdown channel says true
    aborted,    \* tasks whose abort was requested
    pending,    \* signals the serving process has yet to read
    outcome,    \* what serve_inner returns
    verdict,    \* what the supervisor returns
    unclean,    \* whether a cleanup of the host has failed
    abandoned,  \* whether the supervisor gave up a worker it cannot watch
    faults      \* failures so far

tree  == <<listener, conn, req, stop, aborted>>
tasks == <<bridge, metrics, control>>
root  == <<sup, stopping, abandoned, verdict>>
vars  == <<role, ip, root, serve, todo, host, tasks, tree, pending, outcome, unclean,
           faults>>

(* serve_inner's way out: the steps left on the four paths that end it. *)
AfterMetricsFailed == <<"bridge", "host">>
(* Mutant: the early return for a listener forgets the host. *)
MutantAfterBindFailed == <<"bridge", "metrics">>

AfterBindFailed == <<"bridge", "host", "metrics">>
AfterControlFailed == <<"metrics", "bridge", "host">>

(* Mutant: the host is cleaned while the bridge still uses the device. *)
MutantAfterServing == <<"control", "metrics", "host", "bridge">>

AfterServing == <<"control", "bridge", "metrics", "host">>

ServerPhases == {"none", "start", "prepare", "bridge", "metrics", "bind", "control", "run",
                 "register", "serving", "draining", "undo", "ended", "killed"}

TypeOK ==
    /\ role \in {"direct", "supervised"} /\ ip \in BOOLEAN
    /\ sup \in {"absent", "prepare", "spawn", "spawned", "watch", "cleanup", "ended", "killed"}
    /\ stopping \in BOOLEAN /\ abandoned \in BOOLEAN
    /\ serve \in ServerPhases
    /\ todo \in Seq({"control", "bridge", "metrics", "host"})
    /\ host \in {"clean", "prepared"}
    /\ bridge \in {"none", "running", "failed"}
    /\ metrics \in BOOLEAN /\ control \in BOOLEAN
    /\ listener \in [Listeners -> {"none", "bound", "running", "draining", "aborting", "closing", "done"}]
    /\ conn \in [Connections -> {"idle", "incoming", "handshake", "live", "draining", "aborting", "done"}]
    /\ req \in [Requests -> {"idle", "running", "done"}]
    /\ stop \subseteq Listeners
    /\ aborted \subseteq Listeners \cup Connections \cup Requests
    /\ pending \subseteq {"term", "hup"}
    /\ outcome \in {"none", "ok", "error"} /\ verdict \in {"none", "ok", "error"}
    /\ unclean \in BOOLEAN
    /\ faults \in 0..MaxFaults

----------------------------------------------------------------------------
ConnectionsOf(l) == {c \in Connections : ListenerOf[c] = l}
RequestsOf(c)    == {r \in Requests : ConnectionOf[r] = c}

ListenerAlive(l) == listener[l] \in {"running", "draining", "aborting", "closing"}
ConnAlive(c)     == conn[c] \notin {"idle", "done"}
ConnOpen(c)      == ConnAlive(c) /\ conn[c] # "incoming"
ReqAlive(r)      == req[r] = "running"

ServeAlive == serve \notin {"none", "ended", "killed"}

(* run_servers has called signal(), whose handlers stay for good. *)
Handles ==
    \/ serve \in {"serving", "draining"}
    \/ serve = "undo" /\ \A l \in Listeners : listener[l] \notin {"none", "bound"}

Fails == faults < MaxFaults /\ faults' = faults + 1

(* The end of a process takes its tasks and its sockets with it. *)
AllTasksGone ==
    /\ listener' = [l \in Listeners |-> "done"]
    /\ conn' = [c \in Connections |-> "done"]
    /\ req' = [r \in Requests |-> "done"]
    /\ bridge' = "none" /\ metrics' = FALSE /\ control' = FALSE
    /\ UNCHANGED <<stop, aborted>>

Init ==
    /\ role \in {"direct", "supervised"} /\ ip \in BOOLEAN
    /\ sup = (IF role = "direct" THEN "absent" ELSE "prepare")
    /\ serve = (IF role = "direct" THEN "start" ELSE "none")
    /\ stopping = FALSE /\ abandoned = FALSE
    /\ todo = <<>>
    /\ host = "clean"
    /\ bridge = "none" /\ metrics = FALSE /\ control = FALSE
    /\ listener = [l \in Listeners |-> "none"]
    /\ conn = [c \in Connections |-> "idle"]
    /\ req = [r \in Requests |-> "idle"]
    /\ stop = {} /\ aborted = {} /\ pending = {}
    /\ outcome = "none" /\ verdict = "none" /\ unclean = FALSE
    /\ faults = 0

----------------------------------------------------------------------------
(* serve_inner: its way up, its loop, its way out. *)


(* Hardening, TLS material, and in the worker the inherited descriptors. *)
Begin ==
    /\ serve = "start"
    /\ \/ /\ serve' = (IF role = "direct" THEN "prepare" ELSE "bridge")
          /\ UNCHANGED <<outcome, faults>>
       \/ Fails /\ serve' = "ended" /\ outcome' = "error"
    /\ UNCHANGED <<role, ip, root, todo, host, tasks, tree, pending, unclean>>

(* resources::prepare, whose own way back is ResourceJournal's subject. *)
Prepare ==
    /\ serve = "prepare"
    /\ \/ serve' = "bridge" /\ host' = (IF ip THEN "prepared" ELSE "clean")
          /\ UNCHANGED <<outcome, faults>>
       \/ Fails /\ serve' = "ended" /\ outcome' = "error" /\ UNCHANGED host
    /\ UNCHANGED <<role, ip, root, todo, tasks, tree, pending, unclean>>

StartBridge ==
    /\ serve = "bridge"
    /\ serve' = "metrics"
    /\ bridge' = (IF ip THEN "running" ELSE "none")
    /\ UNCHANGED <<role, ip, root, todo, host, metrics, control, tree, pending, outcome,
                   unclean, faults>>

Leave(steps) == serve' = "undo" /\ todo' = steps

StartMetrics ==
    /\ serve = "metrics"
    /\ \/ serve' = "bind" /\ metrics' = TRUE /\ UNCHANGED <<todo, outcome, faults>>
       \/ Fails /\ Leave(AfterMetricsFailed) /\ outcome' = "error" /\ UNCHANGED metrics
    /\ UNCHANGED <<role, ip, root, host, bridge, control, tree, pending, unclean>>

(* TransportServer::bind_with_socket for every listener. *)
Bind ==
    /\ serve = "bind"
    /\ \/ /\ serve' = "control"
          /\ listener' = [l \in Listeners |-> "bound"]
          /\ UNCHANGED <<todo, outcome, faults>>
       \/ Fails /\ Leave(AfterBindFailed) /\ outcome' = "error" /\ UNCHANGED listener
    /\ UNCHANGED <<role, ip, root, host, tasks, conn, req, stop, aborted, pending, unclean>>

StartControl ==
    /\ serve = "control"
    /\ \/ serve' = "run" /\ control' = TRUE /\ UNCHANGED <<todo, outcome, faults, listener>>
       \/ /\ Fails /\ Leave(AfterControlFailed) /\ outcome' = "error" /\ UNCHANGED control
          /\ listener' = [l \in Listeners |-> "none"]
    /\ UNCHANGED <<role, ip, root, host, bridge, metrics, conn, req, stop, aborted, pending,
                   unclean>>

Run ==
    /\ serve = "run"
    /\ serve' = "register"
    /\ listener' = [l \in Listeners |-> "running"]
    /\ UNCHANGED <<role, ip, root, todo, host, tasks, conn, req, stop, aborted, pending, outcome,
                   unclean, faults>>

(* The two signal() calls; on an error the JoinSet is dropped. *)
Register ==
    /\ serve = "register"
    /\ \/ serve' = "serving" /\ UNCHANGED <<todo, outcome, faults, aborted>>
       \/ /\ Fails /\ Leave(AfterServing) /\ outcome' = "error"
          /\ aborted' = aborted \cup {l \in Listeners : ListenerAlive(l)}
    /\ UNCHANGED <<role, ip, root, host, tasks, listener, conn, req, stop, pending, unclean>>

(* The select! loop of run_servers: the first listener to end ends all.  Its *)
(* own result is always Ok.                                                 *)
ListenerEnded ==
    /\ serve = "serving"
    /\ \E l \in Listeners : listener[l] = "done"
    /\ Leave(AfterServing) /\ outcome' = "ok"
    /\ pending' = {}
    /\ aborted' = aborted \cup {l \in Listeners : ListenerAlive(l)}
    /\ UNCHANGED <<role, ip, root, host, tasks, listener, conn, req, stop, unclean, faults>>

ShutDown ==
    /\ serve = "serving"
    /\ "term" \in pending
    /\ pending' = {}       \* the loop is left: nobody reads signals any more
    /\ serve' = "draining"
    /\ stop' = Listeners
    /\ UNCHANGED <<role, ip, root, todo, host, tasks, listener, conn, req, aborted, outcome,
                   unclean, faults>>

(* reload_config; what it does to the configuration is ControlPlane's. *)
ReloadOnHangUp ==
    /\ serve = "serving"
    /\ "hup" \in pending
    /\ pending' = pending \ {"hup"}
    /\ UNCHANGED <<role, ip, root, serve, todo, host, tasks, tree, outcome, unclean, faults>>

Drained ==
    /\ serve = "draining"
    /\ \A l \in Listeners : listener[l] = "done"
    /\ Leave(AfterServing) /\ outcome' = "ok"
    /\ UNCHANGED <<role, ip, root, host, tasks, tree, pending, unclean, faults>>

(* The worker was given no journal and leaves the host to its supervisor. *)
OwnsHost == role = "direct" /\ ip

(* resources::cleanup, which keeps its file, and so the record, if it fails. *)
CleanHost ==
    \/ host' = "clean" /\ UNCHANGED <<unclean, faults>>
    \/ host = "prepared" /\ Fails /\ unclean' = TRUE /\ UNCHANGED host

(* One step of the way out.  control.stop() ends with the removal of the     *)
(* socket; the result of the last cleanup, when nothing failed before it, is *)
(* the daemon's.                                                            *)
Undo ==
    /\ serve = "undo" /\ todo # <<>>
    /\ todo' = Tail(todo)
    /\ control' = (control /\ Head(todo) # "control")
    /\ metrics' = (metrics /\ Head(todo) # "metrics")
    /\ bridge' = (IF Head(todo) = "bridge" THEN "none" ELSE bridge)
    /\ IF Head(todo) = "host" /\ OwnsHost
       THEN /\ CleanHost
            /\ IF unclean' THEN outcome' = "error" ELSE UNCHANGED outcome
       ELSE UNCHANGED <<host, unclean, faults, outcome>>
    /\ UNCHANGED <<role, ip, root, serve, tree, pending>>

Exit ==
    /\ serve = "undo" /\ todo = <<>>
    /\ serve' = "ended"
    /\ AllTasksGone
    /\ UNCHANGED <<role, ip, root, todo, host, pending, outcome, unclean, faults>>

(* The device fails: the bridge's task ends with an error nobody reads. *)
BridgeFails ==
    /\ bridge = "running" /\ Fails
    /\ bridge' = "failed"
    /\ UNCHANGED <<role, ip, root, serve, todo, host, metrics, control, tree, pending, outcome,
                   unclean>>

ServeStep ==
    \/ Begin \/ Prepare \/ StartBridge \/ StartMetrics \/ Bind \/ StartControl \/ Run
    \/ Register \/ ListenerEnded \/ ShutDown \/ ReloadOnHangUp \/ Drained \/ Undo \/ Exit

----------------------------------------------------------------------------
(* TransportServer::run and its connections.  A task that ends on its own is *)
(* joined; told to abort, it ends when parked, and what it drops is aborted. *)

(* endpoint.accept(): a task is spawned, or the client refused when the      *)
(* endpoint counts too many connections.  It counts one when its task first  *)
(* runs, so that more may be let in.                                         *)
Accept(c) ==
    /\ listener[ListenerOf[c]] = "running" /\ conn[c] = "idle"
    /\ Cardinality({d \in ConnectionsOf(ListenerOf[c]) : ConnOpen(d)}) < MaxConnections
    /\ conn' = [conn EXCEPT ![c] = "incoming"]
    /\ UNCHANGED <<role, ip, root, serve, todo, host, tasks, listener, req, stop, aborted, pending,
                   outcome, unclean, faults>>

StartHandshake(c) ==
    /\ conn[c] = "incoming"
    /\ conn' = [conn EXCEPT ![c] = "handshake"]
    /\ UNCHANGED <<role, ip, root, serve, todo, host, tasks, listener, req, stop, aborted, pending,
                   outcome, unclean, faults>>

(* The shutdown channel says true, or the endpoint has lost its driver and   *)
(* accept() returns None: then run() raises the flag itself.                 *)
BeginListenerDrain(l) ==
    /\ listener[l] = "running"
    /\ \/ l \in stop /\ UNCHANGED faults
       \/ l \notin stop /\ Fails
    /\ stop' = stop \cup {l}
    /\ listener' = [listener EXCEPT ![l] = "draining"]
    /\ UNCHANGED <<role, ip, root, serve, todo, host, tasks, conn, req, aborted, pending, outcome,
                   unclean>>

JoinedConnections(l) == \A c \in ConnectionsOf(l) : ~ConnAlive(c)

(* Mutant: the drain of the connections has no deadline. *)
MutantDrainConnections(l) ==
    /\ listener[l] = "draining"
    /\ JoinedConnections(l)
    /\ listener' = [listener EXCEPT ![l] = "closing"]
    /\ UNCHANGED <<role, ip, root, serve, todo, host, tasks, conn, req, stop, aborted, pending,
                   outcome, unclean, faults>>

(* drain_connections: the drain, or its timeout followed by abort_all and    *)
(* the joining of what was aborted; then endpoint.close().                   *)
DrainConnections(l) ==
    /\ listener[l] \in {"draining", "aborting"}
    /\ \/ /\ JoinedConnections(l)
          /\ listener' = [listener EXCEPT ![l] = "closing"]
          /\ UNCHANGED aborted
       \/ /\ listener[l] = "draining" /\ ~JoinedConnections(l)
          /\ listener' = [listener EXCEPT ![l] = "aborting"]
          /\ aborted' = aborted \cup {c \in ConnectionsOf(l) : ConnAlive(c)}
    /\ UNCHANGED <<role, ip, root, serve, todo, host, tasks, conn, req, stop, pending, outcome,
                   unclean, faults>>

(* wait_idle() has seen every connection close. *)
CloseEndpoint(l) ==
    /\ listener[l] = "closing"
    /\ listener' = [listener EXCEPT ![l] = "done"]
    /\ UNCHANGED <<role, ip, root, serve, todo, host, tasks, conn, req, stop, aborted, pending,
                   outcome, unclean, faults>>

(* handle_connection until the HTTP/3 connection is built: the handshake may *)
(* fail, and a server that is stopping by then sends GOAWAY and is done.     *)
Establish(c) ==
    /\ conn[c] = "handshake"
    /\ conn' = [conn EXCEPT ![c] = IF ListenerOf[c] \in stop THEN "done" ELSE "live"]
    /\ UNCHANGED <<role, ip, root, serve, todo, host, tasks, listener, req, stop, aborted, pending,
                   outcome, unclean, faults>>

HandshakeFails(c) ==
    /\ conn[c] = "handshake"
    /\ conn' = [conn EXCEPT ![c] = "done"]
    /\ UNCHANGED <<role, ip, root, serve, todo, host, tasks, listener, req, stop, aborted, pending,
                   outcome, unclean, faults>>

AcceptRequest(r) ==
    /\ conn[ConnectionOf[r]] = "live" /\ req[r] = "idle"
    /\ req' = [req EXCEPT ![r] = "running"]
    /\ UNCHANGED <<role, ip, root, serve, todo, host, tasks, listener, conn, stop, aborted, pending,
                   outcome, unclean, faults>>

(* A request ends by itself: the client finishes, or its handler fails.  No  *)
(* request listens to the shutdown channel.                                  *)
FinishRequest(r) ==
    /\ req[r] = "running"
    /\ req' = [req EXCEPT ![r] = "done"]
    /\ UNCHANGED <<role, ip, root, serve, todo, host, tasks, listener, conn, stop, aborted, pending,
                   outcome, unclean, faults>>

(* drive_connection leaves its loop: the peer closed or failed, which is up  *)
(* to the peer, or the server stops and GOAWAY is sent.                      *)
PeerLeaves(c) ==
    /\ conn[c] = "live"
    /\ conn' = [conn EXCEPT ![c] = "draining"]
    /\ UNCHANGED <<role, ip, root, serve, todo, host, tasks, listener, req, stop, aborted, pending,
                   outcome, unclean, faults>>

GoAway(c) == ListenerOf[c] \in stop /\ PeerLeaves(c)

JoinedRequests(c) == \A r \in RequestsOf(c) : ~ReqAlive(r)

(* drain_request_tasks, with the same drain_timeout as drain_connections. *)
DrainRequests(c) ==
    /\ conn[c] \in {"draining", "aborting"}
    /\ \/ /\ JoinedRequests(c)
          /\ conn' = [conn EXCEPT ![c] = "done"]
          /\ UNCHANGED aborted
       \/ /\ conn[c] = "draining" /\ ~JoinedRequests(c)
          /\ conn' = [conn EXCEPT ![c] = "aborting"]
          /\ aborted' = aborted \cup {r \in RequestsOf(c) : ReqAlive(r)}
    /\ UNCHANGED <<role, ip, root, serve, todo, host, tasks, listener, req, stop, pending, outcome,
                   unclean, faults>>

(* An abort takes effect; the JoinSet the task owned is dropped with it. *)
AbortListener(l) ==
    /\ l \in aborted /\ ListenerAlive(l)
    /\ listener' = [listener EXCEPT ![l] = "done"]
    /\ aborted' = aborted \cup {c \in ConnectionsOf(l) : ConnAlive(c)}
    /\ UNCHANGED <<role, ip, root, serve, todo, host, tasks, conn, req, stop, pending, outcome,
                   unclean, faults>>

(* Mutant: requests are spawned on the runtime, not in the connection's set. *)
MutantAbortConnection(c) ==
    /\ c \in aborted /\ ConnAlive(c)
    /\ conn' = [conn EXCEPT ![c] = "done"]
    /\ UNCHANGED <<role, ip, root, serve, todo, host, tasks, listener, req, stop, aborted, pending,
                   outcome, unclean, faults>>

AbortConnection(c) ==
    /\ c \in aborted /\ ConnAlive(c)
    /\ conn' = [conn EXCEPT ![c] = "done"]
    /\ aborted' = aborted \cup {r \in RequestsOf(c) : ReqAlive(r)}
    /\ UNCHANGED <<role, ip, root, serve, todo, host, tasks, listener, req, stop, pending, outcome,
                   unclean, faults>>

AbortRequest(r) == r \in aborted /\ FinishRequest(r)

ListenerStep(l) == BeginListenerDrain(l) \/ DrainConnections(l) \/ CloseEndpoint(l)
                   \/ AbortListener(l)
ConnectionStep(c) == GoAway(c) \/ DrainRequests(c) \/ AbortConnection(c)

----------------------------------------------------------------------------
(* The supervisor: everything is prepared before the worker is spawned, and  *)
(* cleaned when it has exited.                                               *)

SupPrepare ==
    /\ sup = "prepare"
    /\ \/ /\ sup' = "spawn" /\ host' = (IF ip THEN "prepared" ELSE "clean")
          /\ UNCHANGED <<verdict, faults>>
       \/ Fails /\ sup' = "ended" /\ verdict' = "error" /\ UNCHANGED host
    /\ UNCHANGED <<role, ip, stopping, abandoned, serve, todo, tasks, tree, pending, outcome,
                   unclean>>

(* Descriptors, current_exe() and spawn_worker. *)
Spawn ==
    /\ sup = "spawn"
    /\ \/ sup' = "spawned" /\ serve' = "start" /\ UNCHANGED <<verdict, faults>>
       \/ Fails /\ sup' = "cleanup" /\ verdict' = "error" /\ UNCHANGED serve
    /\ UNCHANGED <<role, ip, stopping, abandoned, todo, host, tasks, tree, pending, outcome,
                   unclean>>

(* wait_for_worker's signal handlers.  When they, or later try_wait or kill, *)
(* fail, the supervisor cleans up and leaves the worker to itself.           *)
Watch ==
    /\ sup = "spawned"
    /\ sup' = "watch"
    /\ UNCHANGED <<role, ip, stopping, abandoned, verdict, serve, todo, host, tasks, tree, pending,
                   outcome, unclean, faults>>

GiveUpWorker ==
    /\ sup \in {"spawned", "watch"} /\ Fails
    /\ sup' = "cleanup" /\ verdict' = "error" /\ abandoned' = TRUE
    /\ UNCHANGED <<role, ip, stopping, serve, todo, host, tasks, tree, pending, outcome, unclean>>

(* SIGKILL more than five seconds after the request to stop. *)
KillWorker ==
    /\ sup = "watch" /\ stopping /\ ServeAlive
    /\ serve' = "killed"
    /\ AllTasksGone
    /\ UNCHANGED <<role, ip, root, todo, host, pending, outcome, unclean, faults>>

WorkerExited ==
    /\ sup = "watch" /\ ~ServeAlive
    /\ sup' = "cleanup"
    /\ verdict' = (IF serve = "ended" /\ outcome = "ok" THEN "ok" ELSE "error")
    /\ UNCHANGED <<role, ip, stopping, abandoned, serve, todo, host, tasks, tree, pending, outcome,
                   unclean, faults>>

SupCleanup ==
    /\ sup = "cleanup"
    /\ CleanHost
    /\ verdict' = (IF unclean' THEN "error" ELSE verdict)
    /\ sup' = "ended"
    /\ UNCHANGED <<role, ip, stopping, abandoned, serve, todo, tasks, tree, pending, outcome>>

SupStep == SupPrepare \/ Spawn \/ Watch \/ WorkerExited \/ SupCleanup

----------------------------------------------------------------------------
(* Signals.  Without a handler TERM and HUP end a process there and then,    *)
(* and leave the host as it is; the next start is ResourceJournal's.         *)

Deliver(signal) ==
    IF Handles
    THEN /\ pending' = (IF serve = "serving" THEN pending \cup {signal} ELSE pending)
         /\ UNCHANGED <<serve, tasks, tree>>
    ELSE /\ serve' = "killed"
         /\ AllTasksGone
         /\ UNCHANGED pending

Signal(signal) ==
    /\ role = "direct" /\ ServeAlive
    /\ Deliver(signal)
    /\ UNCHANGED <<role, ip, root, todo, host, outcome, unclean, faults>>

(* The supervisor's handlers are for TERM and INT; there is none for HUP. *)
StopSupervisor ==
    /\ sup = "watch" /\ ~stopping
    /\ stopping' = TRUE
    /\ IF ServeAlive THEN Deliver("term") ELSE UNCHANGED <<serve, tasks, tree, pending>>
    /\ UNCHANGED <<role, ip, sup, abandoned, verdict, todo, host, outcome, unclean, faults>>

SupHandles(signal) ==
    signal = "term" /\ (sup = "watch" \/ (sup = "cleanup" /\ serve # "none" /\ ~abandoned))

KillSupervisor(signal) ==
    /\ sup \in {"prepare", "spawn", "spawned", "watch", "cleanup"}
    /\ ~SupHandles(signal)
    /\ sup' = "killed"
    /\ UNCHANGED <<role, ip, stopping, abandoned, verdict, serve, todo, host, tasks, tree, pending,
                   outcome, unclean, faults>>

Next ==
    \/ ServeStep \/ BridgeFails \/ SupStep \/ GiveUpWorker \/ KillWorker \/ StopSupervisor
    \/ \E l \in Listeners : ListenerStep(l)
    \/ \E c \in Connections : Accept(c) \/ StartHandshake(c) \/ Establish(c)
                              \/ HandshakeFails(c) \/ PeerLeaves(c) \/ ConnectionStep(c)
    \/ \E r \in Requests : AcceptRequest(r) \/ FinishRequest(r) \/ AbortRequest(r)
    \/ \E signal \in {"term", "hup"} : Signal(signal) \/ KillSupervisor(signal)

Spec == Init /\ [][Next]_vars

(* The runtime runs a task that can go on, timers fire, an aborted task is   *)
(* parked in the end, and select! leaves no ready branch out for ever.       *)
Fairness ==
    /\ WF_vars(ServeStep) /\ WF_vars(ListenerEnded) /\ WF_vars(ShutDown)
    /\ WF_vars(SupStep)
    /\ \A l \in Listeners : WF_vars(ListenerStep(l))
    /\ \A c \in Connections : WF_vars(ConnectionStep(c))
    /\ \A r \in Requests : WF_vars(AbortRequest(r))

FairSpec == Spec /\ Fairness

----------------------------------------------------------------------------
(* A task outlives the one that spawned it only when it was told to end:     *)
(* whichever drain, timeout or abort ends a listener or a connection         *)
(* (transport.rs:211-225, 387-401, lib.rs:297-300), no request runs on with  *)
(* nobody to end it.                                                         *)
EveryTaskHasAnOwner ==
    /\ \A r \in Requests : ReqAlive(r) => ConnAlive(ConnectionOf[r]) \/ r \in aborted
    /\ \A c \in Connections : ConnAlive(c) => ListenerAlive(ListenerOf[c]) \/ c \in aborted
    /\ \A l \in Listeners :
          ListenerAlive(l) => serve \in {"register", "serving", "draining"} \/ l \in aborted

(* What the steps of a daemon rely on, and what EveryTaskHasAnOwner needs to *)
(* be inductive.  The worker is spawned once, and never prepares the host.   *)
WorkerByPhase ==
    /\ role = "direct" <=> sup = "absent"
    /\ role = "direct" => serve # "none"
    /\ role = "supervised" => serve # "prepare"
    /\ sup \in {"prepare", "spawn"} => serve = "none"
    /\ sup = "cleanup" => ~ServeAlive \/ abandoned

(* A listener has connections, and a connection requests, only while and     *)
(* after it runs; a listener that closes has joined its connections.         *)
TreeByPhase ==
    /\ \A l \in Listeners :
          /\ serve \in {"none", "start", "prepare", "bridge", "metrics", "bind"} => listener[l] = "none"
          /\ serve \in {"control", "run"} => listener[l] = "bound"
          /\ listener[l] = "closing" => \A c \in ConnectionsOf(l) : ~ConnAlive(c)
    /\ \A c \in Connections : conn[c] # "idle" => listener[ListenerOf[c]] \notin {"none", "bound"}
    /\ \A r \in Requests :
          req[r] # "idle" => conn[ConnectionOf[r]] \notin {"idle", "incoming", "handshake"}

HostLeft    == \E i \in DOMAIN todo : todo[i] = "host"
BridgeFirst == \A j \in DOMAIN todo : todo[j] = "host" => \E i \in 1..(j - 1) : todo[i] = "bridge"

(* On each way out the host comes after the bridge, and is not left out.     *)
HostByPhase ==
    /\ host = "prepared" => ip
    /\ serve \in {"start", "prepare"} /\ role = "direct" => host = "clean"
    /\ sup = "prepare" => host = "clean"
    /\ serve = "undo" =>
          /\ host = "prepared" /\ role = "direct" => HostLeft \/ (unclean /\ outcome = "error")
          /\ bridge # "none" => BridgeFirst

Inv == TypeOK /\ EveryTaskHasAnOwner /\ WorkerByPhase /\ TreeByPhase /\ HostByPhase

Ended   == (role = "direct" /\ serve = "ended") \/ sup = "ended"
Verdict == IF role = "direct" THEN outcome ELSE verdict

(* Whichever step of the start fails, however serving ends, a daemon that    *)
(* returns has cleaned the host, or says that it could not: every early      *)
(* return of serve_inner (lib.rs:196-263) and of the supervisor              *)
(* (supervisor.rs:32-81).                                                    *)
EndLeavesHostAsFound ==
    Ended => (host = "clean" \/ (unclean /\ Verdict = "error"))

(* The host is cleaned when nobody uses it any more: the bridge is gone and  *)
(* the listeners are told to end (lib.rs:272-280), or the worker has exited  *)
(* (supervisor.rs:11-13) but for one that the supervisor could not watch.    *)
CleanedAfterUse ==
    [][host = "prepared" /\ host' = "clean"
       => IF role = "direct"
          THEN bridge = "none" /\ \A l \in Listeners : ListenerAlive(l) => l \in aborted
          ELSE ~ServeAlive \/ abandoned]_vars

(* A daemon that is asked to stop, or loses a listener, ends, whatever its   *)
(* peers do: handshakes and requests that never end are aborted at the       *)
(* drain's deadline (transport.rs:191-195), and the supervisor follows.      *)
ServerEnds ==
    (\/ stopping
     \/ serve \in {"draining", "undo", "ended", "killed"}
     \/ serve = "serving" /\ \E l \in Listeners : listener[l] = "done")
    ~> (~ServeAlive /\ sup \in {"absent", "ended", "killed"})

(* A reload by SIGHUP does not end the service: architecture document,       *)
(* .agents/02-architecture.md:234, and ExecReload in service_systemd.rs:10.  *)
(* TERM and INT are handled while the worker is watched, so that HUP is the  *)
(* only signal of this model that can kill the supervisor here.              *)
ReloadKeepsService == [][sup = "watch" /\ serve = "serving" => sup' # "killed"]_vars
=============================================================================
