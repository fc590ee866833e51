------------------------- MODULE ServerLifecycleProofs -------------------------
(***************************************************************************)
(* Proofs about ServerLifecycle, for any number of listeners, connections, *)
(* requests and failures, in both roles.                                   *)
(***************************************************************************)
EXTENDS ServerLifecycle, TLAPS

IInv == Inv /\ EndLeavesHostAsFound

(* The steps of the tree of tasks, and those of supervisor and signals.      *)
TreeStep ==
    \/ \E l \in Listeners : ListenerStep(l)
    \/ \E c \in Connections : Accept(c) \/ StartHandshake(c) \/ Establish(c)
                              \/ HandshakeFails(c) \/ PeerLeaves(c) \/ ConnectionStep(c)
    \/ \E r \in Requests : AcceptRequest(r) \/ FinishRequest(r) \/ AbortRequest(r)

RootStep == SupStep \/ GiveUpWorker \/ KillWorker \/ StopSupervisor
            \/ \E signal \in {"term", "hup"} : Signal(signal) \/ KillSupervisor(signal)

----------------------------------------------------------------------------
(* Types, in the parts that one kind of step changes.                        *)

TreeTypes ==
    /\ listener \in [Listeners -> {"none", "bound", "running", "draining", "aborting", "closing", "done"}]
    /\ conn \in [Connections -> {"idle", "incoming", "handshake", "live", "draining", "aborting", "done"}]
    /\ req \in [Requests -> {"idle", "running", "done"}]
    /\ stop \subseteq Listeners
    /\ aborted \subseteq Listeners \cup Connections \cup Requests
FlagTypes  == /\ ip \in BOOLEAN /\ stopping \in BOOLEAN /\ abandoned \in BOOLEAN
              /\ metrics \in BOOLEAN /\ control \in BOOLEAN /\ unclean \in BOOLEAN
PhaseTypes ==
    /\ role \in {"direct", "supervised"}
    /\ sup \in {"absent", "prepare", "spawn", "spawned", "watch", "cleanup", "ended", "killed"}
    /\ serve \in ServerPhases
    /\ host \in {"clean", "prepared"} /\ bridge \in {"none", "running", "failed"}
    /\ pending \subseteq {"term", "hup"}
    /\ outcome \in {"none", "ok", "error"} /\ verdict \in {"none", "ok", "error"}
CountTypes == todo \in Seq({"control", "bridge", "metrics", "host"}) /\ faults \in 0..MaxFaults

LEMMA TypesInParts ==
    /\ TypeOK <=> TreeTypes /\ FlagTypes /\ PhaseTypes /\ CountTypes
    /\ TypeOK' <=> TreeTypes' /\ FlagTypes' /\ PhaseTypes' /\ CountTypes'
BY DEF TypeOK, TreeTypes, FlagTypes, PhaseTypes, CountTypes

(* The ways out are sequences of steps.                                      *)
LEMMA WaysOut ==
    /\ AfterMetricsFailed \in Seq({"control", "bridge", "metrics", "host"})
    /\ AfterBindFailed \in Seq({"control", "bridge", "metrics", "host"})
    /\ AfterControlFailed \in Seq({"control", "bridge", "metrics", "host"})
    /\ AfterServing \in Seq({"control", "bridge", "metrics", "host"})
BY DEF AfterMetricsFailed, AfterBindFailed, AfterControlFailed, AfterServing

(* The end of a process.                                                     *)
LEMMA GoneTypes ==
    ASSUME TypeOK, AllTasksGone
    PROVE  /\ TreeTypes'
           /\ bridge' = "none" /\ metrics' = FALSE /\ control' = FALSE
           /\ \A l \in Listeners : listener'[l] = "done"
           /\ \A c \in Connections : conn'[c] = "done"
           /\ \A r \in Requests : req'[r] = "done"
BY DEF AllTasksGone, TypeOK, TreeTypes

LEMMA ServeTreeTypes ==
    ASSUME TypeOK, ServeStep
    PROVE  TreeTypes'
<1>0. TreeTypes
  BY TypesInParts
<1>1. CASE UNCHANGED tree
  BY <1>0, <1>1 DEF TreeTypes, tree
<1>2. CASE Bind \/ StartControl \/ Run
  BY <1>0, <1>2 DEF Bind, StartControl, Run, TreeTypes, tree
<1>3. CASE UNCHANGED <<listener, conn, req, stop>>
           /\ aborted' = aborted \cup {l \in Listeners : ListenerAlive(l)}
  BY <1>0, <1>3 DEF TreeTypes
<1>4. CASE ShutDown
  BY <1>0, <1>4 DEF ShutDown, TreeTypes
<1>5. CASE Exit
  BY <1>5, GoneTypes DEF Exit
<1>6. ASSUME Begin \/ Prepare \/ StartBridge \/ StartMetrics \/ ReloadOnHangUp \/ Drained \/ Undo
      PROVE  UNCHANGED tree
  BY <1>6 DEF Begin, Prepare, StartBridge, StartMetrics, ReloadOnHangUp, Drained, Undo
<1>7. CASE Register \/ ListenerEnded
  BY <1>1, <1>3, <1>7 DEF Register, ListenerEnded, tree
<1> QED BY <1>1, <1>2, <1>4, <1>5, <1>6, <1>7 DEF ServeStep

LEMMA ServeFlagTypes ==
    ASSUME TypeOK, ServeStep
    PROVE  FlagTypes'
<1>0. FlagTypes
  BY TypesInParts
<1>1. UNCHANGED <<ip, stopping, abandoned>>
  BY DEF ServeStep, Begin, Prepare, StartBridge, StartMetrics, Bind, StartControl, Run, Register,
     ListenerEnded, ShutDown, ReloadOnHangUp, Drained, Undo, Exit, root
<1>2. unclean' = unclean \/ unclean' = TRUE
  BY DEF ServeStep, Begin, Prepare, StartBridge, StartMetrics, Bind, StartControl, Run, Register,
     ListenerEnded, ShutDown, ReloadOnHangUp, Drained, Undo, Exit, CleanHost
<1>3. CASE Undo
  <2>1. /\ metrics' = (metrics /\ Head(todo) # "metrics")
        /\ control' = (control /\ Head(todo) # "control")
    BY <1>3 DEF Undo
  <2> QED BY <1>0, <1>1, <1>2, <2>1, Zenon DEF FlagTypes
<1>4. CASE Exit
  BY <1>0, <1>1, <1>2, <1>4, GoneTypes DEF Exit, FlagTypes
<1>5. CASE ~Undo /\ ~Exit
  <2>1. metrics' = metrics \/ metrics' = TRUE
    BY <1>5 DEF ServeStep, Begin, Prepare, StartBridge, StartMetrics, Bind, StartControl, Run,
       Register, ListenerEnded, ShutDown, ReloadOnHangUp, Drained, tasks
  <2>2. control' = control \/ control' = TRUE
    BY <1>5 DEF ServeStep, Begin, Prepare, StartBridge, StartMetrics, Bind, StartControl, Run,
       Register, ListenerEnded, ShutDown, ReloadOnHangUp, Drained, tasks
  <2> QED BY <1>0, <1>1, <1>2, <2>1, <2>2 DEF FlagTypes
<1> QED BY <1>3, <1>4, <1>5

LEMMA ServeTypes ==
    ASSUME TypeOK, ServeStep
    PROVE  TypeOK'
<1>0. PhaseTypes /\ CountTypes
  BY TypesInParts
<1>1. CountTypes'
  <2>1. faults' \in 0..MaxFaults
    BY <1>0, LimitsAssumption DEF CountTypes, ServeStep, Begin, Prepare, StartBridge, StartMetrics,
       Bind, StartControl, Run, Register, ListenerEnded, ShutDown, ReloadOnHangUp, Drained, Undo,
       Exit, CleanHost, Fails
  <2>2. \/ UNCHANGED todo
        \/ (todo # <<>> /\ todo' = Tail(todo))
        \/ todo' = AfterMetricsFailed \/ todo' = AfterBindFailed
        \/ todo' = AfterControlFailed \/ todo' = AfterServing
    <3>1. CASE Begin \/ Prepare \/ StartBridge \/ Run \/ ShutDown \/ ReloadOnHangUp \/ Exit
      BY <3>1 DEF Begin, Prepare, StartBridge, Run, ShutDown, ReloadOnHangUp, Exit
    <3>2. CASE StartMetrics \/ Bind \/ StartControl
      BY <3>2 DEF StartMetrics, Bind, StartControl, Leave
    <3>3. CASE Register \/ ListenerEnded \/ Drained
      BY <3>3 DEF Register, ListenerEnded, Drained, Leave
    <3>4. CASE Undo
      BY <3>4 DEF Undo
    <3> QED BY <3>1, <3>2, <3>3, <3>4 DEF ServeStep
  <2>3. todo' \in Seq({"control", "bridge", "metrics", "host"})
    <3>1. CASE todo # <<>> /\ todo' = Tail(todo)
      BY <1>0, <3>1 DEF CountTypes
    <3> QED BY <1>0, <2>2, <3>1, WaysOut DEF CountTypes
  <2> QED BY <2>1, <2>3 DEF CountTypes
<1>2. PhaseTypes'
  <2>1. CASE Begin \/ Prepare \/ StartBridge \/ StartMetrics
    BY <1>0, <2>1 DEF PhaseTypes, ServerPhases, Begin, Prepare, StartBridge, StartMetrics, Leave,
       root, tasks
  <2>2. CASE Bind \/ StartControl \/ Run \/ Register
    BY <1>0, <2>2 DEF PhaseTypes, ServerPhases, Bind, StartControl, Run, Register, Leave, root, tasks
  <2>3. CASE ListenerEnded \/ ShutDown \/ ReloadOnHangUp \/ Drained
    <3>1. /\ UNCHANGED <<role, sup, host, bridge, verdict>>
          /\ serve' \in {serve, "undo", "draining"} /\ pending' \subseteq pending
          /\ outcome' \in {outcome, "ok"}
      BY <2>3 DEF ListenerEnded, ShutDown, ReloadOnHangUp, Drained, Leave, root, tasks
    <3> QED BY <1>0, <3>1 DEF PhaseTypes, ServerPhases
  <2>4. CASE Undo
    <3>1. /\ UNCHANGED <<role, sup, serve, pending, verdict>>
          /\ host' \in {host, "clean"} /\ bridge' \in {bridge, "none"}
          /\ outcome' \in {outcome, "error"}
      BY <2>4 DEF Undo, CleanHost, root
    <3> QED BY <1>0, <3>1 DEF PhaseTypes
  <2>5. CASE Exit
    BY <1>0, <2>5, GoneTypes DEF Exit, PhaseTypes, ServerPhases, root
  <2> QED BY <2>1, <2>2, <2>3, <2>4, <2>5 DEF ServeStep
<1> QED BY <1>1, <1>2, ServeTreeTypes, ServeFlagTypes, TypesInParts

(* The supervisor and the signals (supervisor.rs, lib.rs).                   *)
LEMMA RootTypes ==
    ASSUME TypeOK, RootStep \/ BridgeFails
    PROVE  TypeOK'
<1>0. TreeTypes /\ FlagTypes /\ PhaseTypes /\ CountTypes
  BY TypesInParts
<1>1. ASSUME NEW signal \in {"term", "hup"}, Deliver(signal)
      PROVE  /\ TreeTypes' /\ metrics' \in BOOLEAN /\ control' \in BOOLEAN
             /\ serve' \in ServerPhases /\ bridge' \in {"none", "running", "failed"}
             /\ pending' \subseteq {"term", "hup"}
  <2>1. CASE Handles
    BY <1>0, <1>1, <2>1 DEF Deliver, tasks, tree, TreeTypes, FlagTypes, PhaseTypes
  <2>2. CASE ~Handles
    BY <1>0, <1>1, <2>2, GoneTypes DEF Deliver, PhaseTypes, ServerPhases
  <2> QED BY <2>1, <2>2
<1>2. CASE SupStep \/ GiveUpWorker \/ BridgeFails
  <2>1. TreeTypes'
    BY <1>0, <1>2 DEF SupStep, SupPrepare, Spawn, Watch, WorkerExited, SupCleanup, GiveUpWorker,
       BridgeFails, tree, TreeTypes
  <2>2. FlagTypes'
    <3>1. UNCHANGED <<ip, stopping, metrics, control>>
      BY <1>2 DEF SupStep, SupPrepare, Spawn, Watch, WorkerExited, SupCleanup, GiveUpWorker,
         BridgeFails, tasks, root
    <3>2. abandoned' \in {abandoned, TRUE} /\ unclean' \in {unclean, TRUE}
      BY <1>2 DEF SupStep, SupPrepare, Spawn, Watch, WorkerExited, SupCleanup, GiveUpWorker,
         BridgeFails, CleanHost, root
    <3> QED BY <1>0, <3>1, <3>2 DEF FlagTypes
  <2>3. PhaseTypes'
    <3>1. CASE SupPrepare \/ Spawn \/ Watch \/ GiveUpWorker \/ BridgeFails
      BY <1>0, <3>1 DEF SupPrepare, Spawn, Watch, GiveUpWorker, BridgeFails, PhaseTypes,
         ServerPhases, tasks, root
    <3>2. CASE WorkerExited \/ SupCleanup
      BY <1>0, <3>2 DEF WorkerExited, SupCleanup, CleanHost, PhaseTypes, tasks
    <3> QED BY <1>2, <3>1, <3>2 DEF SupStep
  <2>4. CountTypes'
    BY <1>0, <1>2, LimitsAssumption DEF SupStep, SupPrepare, Spawn, Watch, WorkerExited, SupCleanup,
       CleanHost, GiveUpWorker, BridgeFails, Fails, CountTypes
  <2> QED BY <2>1, <2>2, <2>3, <2>4, TypesInParts
<1>3. CASE KillWorker
  <2>1. UNCHANGED <<role, ip, root, todo, host, pending, outcome, unclean, faults>> /\ serve' = "killed"
    BY <1>3 DEF KillWorker
  <2>2. /\ TreeTypes' /\ bridge' = "none" /\ metrics' = FALSE /\ control' = FALSE
    BY <1>3, GoneTypes DEF KillWorker
  <2> QED BY <1>0, <2>1, <2>2, TypesInParts DEF root, FlagTypes, PhaseTypes, ServerPhases, CountTypes
<1>4. CASE StopSupervisor
  <2>1. /\ UNCHANGED <<role, ip, sup, abandoned, verdict, todo, host, outcome, unclean, faults>>
        /\ stopping' = TRUE
        /\ Deliver("term") \/ UNCHANGED <<serve, tasks, tree, pending>>
    BY <1>4 DEF StopSupervisor
  <2>2. /\ TreeTypes' /\ metrics' \in BOOLEAN /\ control' \in BOOLEAN
        /\ serve' \in ServerPhases /\ bridge' \in {"none", "running", "failed"}
        /\ pending' \subseteq {"term", "hup"}
    BY <1>0, <1>1, <2>1 DEF tree, tasks, TreeTypes, FlagTypes, PhaseTypes
  <2> QED BY <1>0, <2>1, <2>2, TypesInParts DEF FlagTypes, PhaseTypes, CountTypes
<1>5. ASSUME NEW signal \in {"term", "hup"}, Signal(signal)
      PROVE  TypeOK'
  <2>1. /\ UNCHANGED <<role, ip, root, todo, host, outcome, unclean, faults>> /\ Deliver(signal)
    BY <1>5 DEF Signal
  <2>2. /\ TreeTypes' /\ metrics' \in BOOLEAN /\ control' \in BOOLEAN
        /\ serve' \in ServerPhases /\ bridge' \in {"none", "running", "failed"}
        /\ pending' \subseteq {"term", "hup"}
    BY <1>1, <2>1
  <2> QED BY <1>0, <2>1, <2>2, TypesInParts DEF root, FlagTypes, PhaseTypes, CountTypes
<1>6. ASSUME NEW signal \in {"term", "hup"}, KillSupervisor(signal)
      PROVE  TypeOK'
  BY <1>0, <1>6, TypesInParts DEF KillSupervisor, tree, tasks, TreeTypes, FlagTypes, PhaseTypes,
     CountTypes
<1> QED BY <1>2, <1>3, <1>4, <1>5, <1>6 DEF RootStep

(* The tree of tasks (transport.rs).                                         *)
LEMMA TreeEffect ==
    ASSUME TypeOK, TreeStep
    PROVE  /\ UNCHANGED <<role, ip, root, serve, todo, host, tasks, pending, outcome, unclean>>
           /\ faults' \in 0..MaxFaults
           /\ aborted \subseteq aborted' /\ stop \subseteq stop'
<1> USE LimitsAssumption DEF TypeOK
<1>1. ASSUME NEW l \in Listeners, ListenerStep(l)
      PROVE  /\ UNCHANGED <<role, ip, root, serve, todo, host, tasks, pending, outcome, unclean>>
             /\ faults' \in 0..MaxFaults
             /\ aborted \subseteq aborted' /\ stop \subseteq stop'
  BY <1>1 DEF ListenerStep, BeginListenerDrain, DrainConnections, CloseEndpoint, AbortListener, Fails
<1>2. ASSUME NEW c \in Connections,
             \/ Accept(c) \/ StartHandshake(c) \/ Establish(c)
             \/ HandshakeFails(c) \/ PeerLeaves(c) \/ ConnectionStep(c)
      PROVE  /\ UNCHANGED <<role, ip, root, serve, todo, host, tasks, pending, outcome, unclean>>
             /\ UNCHANGED faults
             /\ aborted \subseteq aborted' /\ stop \subseteq stop'
  BY <1>2 DEF Accept, StartHandshake, Establish, HandshakeFails, PeerLeaves, ConnectionStep, GoAway,
     DrainRequests, AbortConnection
<1>3. ASSUME NEW r \in Requests, AcceptRequest(r) \/ FinishRequest(r) \/ AbortRequest(r)
      PROVE  /\ UNCHANGED <<role, ip, root, serve, todo, host, tasks, pending, outcome, unclean>>
             /\ UNCHANGED faults
             /\ aborted \subseteq aborted' /\ stop \subseteq stop'
  BY <1>3 DEF AcceptRequest, FinishRequest, AbortRequest
<1> QED BY <1>1, <1>2, <1>3 DEF TreeStep

LEMMA TreeStepTypes ==
    ASSUME TypeOK, TreeStep
    PROVE  TypeOK'
<1>0. TreeTypes /\ FlagTypes /\ PhaseTypes /\ CountTypes
  BY TypesInParts
<1>1. FlagTypes' /\ PhaseTypes' /\ CountTypes'
  <2>1. /\ UNCHANGED <<role, ip, sup, stopping, abandoned, verdict, serve, todo, host, bridge,
                      metrics, control, pending, outcome, unclean>>
        /\ faults' \in 0..MaxFaults
    BY TreeEffect DEF root, tasks
  <2> QED BY <1>0, <2>1 DEF FlagTypes, PhaseTypes, CountTypes
<1>2. ASSUME NEW l \in Listeners, ListenerStep(l)
      PROVE  TreeTypes'
  BY <1>0, <1>2 DEF ListenerStep, BeginListenerDrain, DrainConnections, CloseEndpoint, AbortListener,
     ConnectionsOf, TreeTypes
<1>3. ASSUME NEW c \in Connections,
             \/ Accept(c) \/ StartHandshake(c) \/ Establish(c)
             \/ HandshakeFails(c) \/ PeerLeaves(c)
      PROVE  TreeTypes'
  BY <1>0, <1>3 DEF Accept, StartHandshake, Establish, HandshakeFails, PeerLeaves, TreeTypes
<1>4. ASSUME NEW c \in Connections, ConnectionStep(c)
      PROVE  TreeTypes'
  BY <1>0, <1>4 DEF ConnectionStep, GoAway, PeerLeaves, DrainRequests, AbortConnection, RequestsOf,
     TreeTypes
<1>5. ASSUME NEW r \in Requests, AcceptRequest(r) \/ FinishRequest(r) \/ AbortRequest(r)
      PROVE  TreeTypes'
  BY <1>0, <1>5 DEF AcceptRequest, FinishRequest, AbortRequest, TreeTypes
<1> QED BY <1>1, <1>2, <1>3, <1>4, <1>5, TypesInParts DEF TreeStep

----------------------------------------------------------------------------
(* The worker and its supervisor.                                            *)

(* What a step of serve_inner does to its place (lib.rs).                    *)
LEMMA ServePlace ==
    ASSUME ServeStep
    PROVE  /\ UNCHANGED <<role, ip, sup, stopping, abandoned, verdict>>
           /\ ServeAlive /\ serve' # "none" /\ serve' \notin {"start", "killed"}
           /\ serve' = "prepare" => role = "direct"
<1> USE DEF root, ServeAlive
<1>1. CASE Begin \/ Prepare \/ StartBridge \/ StartMetrics \/ Bind \/ StartControl \/ Run
  BY <1>1 DEF Begin, Prepare, StartBridge, StartMetrics, Bind, StartControl, Run, Leave
<1>2. CASE Register \/ ListenerEnded \/ ShutDown \/ ReloadOnHangUp \/ Drained \/ Undo \/ Exit
  BY <1>2 DEF Register, ListenerEnded, ShutDown, ReloadOnHangUp, Drained, Undo, Exit, Leave
<1> QED BY <1>1, <1>2 DEF ServeStep

LEMMA DeliverPlace ==
    ASSUME NEW signal, Deliver(signal)
    PROVE  serve' = serve \/ serve' = "killed"
BY DEF Deliver

LEMMA WorkerStep ==
    ASSUME Inv, [Next]_vars
    PROVE  WorkerByPhase'
<1> USE DEF WorkerByPhase, ServeAlive
<1>0. WorkerByPhase
  BY DEF Inv
<1>1. CASE ServeStep
  BY <1>0, <1>1, ServePlace
<1>2. CASE BridgeFails \/ Watch \/ KillWorker \/ (\E signal \in {"term", "hup"} : KillSupervisor(signal))
  BY <1>0, <1>2 DEF BridgeFails, Watch, KillWorker, KillSupervisor, root
<1>3. CASE SupPrepare \/ Spawn \/ WorkerExited \/ SupCleanup \/ GiveUpWorker
  BY <1>0, <1>3 DEF SupPrepare, Spawn, WorkerExited, SupCleanup, GiveUpWorker, root
<1>4. CASE StopSupervisor \/ (\E signal \in {"term", "hup"} : Signal(signal))
  <2>1. /\ UNCHANGED <<role, sup, abandoned>>
        /\ ServeAlive \/ serve' = serve
        /\ serve' = serve \/ serve' = "killed"
    BY <1>4, DeliverPlace DEF StopSupervisor, Signal, root
  <2> QED BY <1>0, <2>1
<1>5. CASE TreeStep
  BY <1>0, <1>5, TreeEffect DEF Inv, root
<1>6. CASE UNCHANGED vars
  BY <1>0, <1>6 DEF vars, root
<1> QED BY <1>1, <1>2, <1>3, <1>4, <1>5, <1>6 DEF Next, TreeStep, SupStep

----------------------------------------------------------------------------
(* The tree of tasks.                                                        *)

Owned == EveryTaskHasAnOwner /\ TreeByPhase

(* With no task left there is nothing to own.                                *)
LEMMA GoneOwned ==
    ASSUME TypeOK, AllTasksGone, serve' \in {"ended", "killed"}
    PROVE  Owned'
BY GoneTypes, TreeAssumption DEF Owned, EveryTaskHasAnOwner, TreeByPhase, ReqAlive, ConnAlive,
   ListenerAlive, ConnectionsOf

(* The same tree, with serve_inner in a phase that may have it.              *)
LEMMA SameTreeOwned ==
    ASSUME Inv, UNCHANGED tree,
           \/ serve' \in {serve, "undo", "ended"} /\ \A l \in Listeners : ~ListenerAlive(l)
           \/ /\ serve' \in {"start", "prepare", "bridge", "metrics", "bind"}
              /\ serve \in {"none", "start", "prepare", "bridge", "metrics", "bind"}
           \/ serve' \in {serve, "killed"} /\ serve \notin {"register", "serving", "draining"}
           \/ serve' = serve
           \/ serve = "register" /\ serve' = "serving"
    PROVE  Owned'
BY DEF Inv, tree, Owned, EveryTaskHasAnOwner, TreeByPhase, ReqAlive, ConnAlive, ListenerAlive,
   ConnectionsOf

LEMMA ServeOwned ==
    ASSUME Inv, ServeStep
    PROVE  Owned'
<1> USE DEF Inv
<1>0. TypeOK /\ Owned
  BY DEF Owned
<1>1. CASE Begin \/ Prepare \/ StartBridge \/ StartMetrics \/ ReloadOnHangUp \/ Undo
  <2>1. \A l \in Listeners : serve \in {"start", "prepare", "bridge", "metrics"} => ~ListenerAlive(l)
    BY <1>0 DEF Owned, TreeByPhase, ListenerAlive
  <2> QED BY <1>1, <2>1, SameTreeOwned
          DEF Begin, Prepare, StartBridge, StartMetrics, ReloadOnHangUp, Undo, Leave
<1>2. CASE Bind
  <2>1. \A l \in Listeners : listener[l] = "none" /\ ~ListenerAlive(l)
    BY <1>0, <1>2 DEF Bind, Owned, TreeByPhase, ListenerAlive
  <2>2. CASE serve' = "undo" /\ UNCHANGED listener
    BY <1>2, <2>1, <2>2, SameTreeOwned DEF Bind, tree
  <2>3. CASE serve' = "control" /\ listener' = [l \in Listeners |-> "bound"]
    <3>1. /\ UNCHANGED <<conn, req, aborted>>
          /\ \A l \in Listeners : listener'[l] = "bound" /\ ~ListenerAlive(l)'
      BY <1>2, <2>3 DEF Bind, ListenerAlive
    <3>2. \A c \in Connections : conn[c] = "idle"
      BY <1>0, <2>1, TreeAssumption DEF Owned, TreeByPhase
    <3>3. \A r \in Requests : req[r] = "idle"
      BY <1>0, <3>2, TreeAssumption DEF Owned, TreeByPhase
    <3> QED BY <2>3, <3>1, <3>2, <3>3
            DEF Owned, EveryTaskHasAnOwner, TreeByPhase, ReqAlive, ConnAlive
  <2> QED BY <1>2, <2>2, <2>3 DEF Bind, Leave
<1>3. CASE StartControl
  BY <1>0, <1>3, TreeAssumption DEF StartControl, Leave, Owned, EveryTaskHasAnOwner, TreeByPhase,
     ReqAlive, ConnAlive, ListenerAlive, ConnectionsOf
<1>4. CASE Run
  BY <1>0, <1>4, TreeAssumption DEF Run, Owned, EveryTaskHasAnOwner, TreeByPhase, ReqAlive,
     ConnAlive, ListenerAlive, ConnectionsOf
<1>5. CASE /\ serve \in {"register", "serving"} /\ serve' = "undo"
           /\ UNCHANGED <<listener, conn, req, stop>>
           /\ aborted' = aborted \cup {l \in Listeners : ListenerAlive(l)}
  BY <1>0, <1>5 DEF Owned, EveryTaskHasAnOwner, TreeByPhase, ReqAlive, ConnAlive, ListenerAlive,
     ConnectionsOf
<1>6. CASE Register \/ ListenerEnded
  BY <1>5, <1>6, SameTreeOwned DEF Register, ListenerEnded, Leave, tree
<1>7. CASE ShutDown
  BY <1>0, <1>7 DEF ShutDown, Owned, EveryTaskHasAnOwner, TreeByPhase, ReqAlive, ConnAlive,
     ListenerAlive, ConnectionsOf
<1>8. CASE Drained
  BY <1>8, SameTreeOwned DEF Drained, Leave, ListenerAlive
<1>9. CASE Exit
  BY <1>9, GoneOwned DEF Exit
<1> QED BY <1>1, <1>2, <1>3, <1>4, <1>6, <1>7, <1>8, <1>9 DEF ServeStep

LEMMA RootOwned ==
    ASSUME Inv, RootStep \/ BridgeFails
    PROVE  Owned'
<1> USE DEF Inv
<1>1. ASSUME NEW signal, Deliver(signal) PROVE Owned'
  BY <1>1, GoneOwned, SameTreeOwned DEF Deliver
<1>2. CASE SupStep \/ GiveUpWorker \/ BridgeFails
  BY <1>2, SameTreeOwned DEF SupStep, SupPrepare, Spawn, Watch, WorkerExited, SupCleanup,
     GiveUpWorker, BridgeFails, WorkerByPhase
<1>3. CASE KillWorker
  BY <1>3, GoneOwned DEF KillWorker
<1>4. CASE StopSupervisor
  BY <1>1, <1>4, SameTreeOwned DEF StopSupervisor
<1>5. ASSUME NEW signal \in {"term", "hup"}, Signal(signal) \/ KillSupervisor(signal)
      PROVE  Owned'
  BY <1>1, <1>5, SameTreeOwned DEF Signal, KillSupervisor
<1> QED BY <1>2, <1>3, <1>4, <1>5 DEF RootStep

(* A listener that ends has joined its connections or aborts them.           *)
LEMMA ListenerOwned ==
    ASSUME Inv, NEW l \in Listeners, ListenerStep(l)
    PROVE  Owned'
<1> USE DEF Inv
<1>0. /\ TypeOK /\ Owned /\ UNCHANGED <<serve, conn, req>>
      /\ aborted \subseteq aborted'
  BY DEF Owned, ListenerStep, BeginListenerDrain, DrainConnections, CloseEndpoint, AbortListener
<1>1. /\ \A x \in Listeners \ {l} : listener'[x] = listener[x]
      /\ listener[l] \in {"running", "draining", "aborting", "closing"}
      /\ listener'[l] \in {"draining", "aborting", "closing", "done"}
  BY <1>0 DEF ListenerStep, BeginListenerDrain, DrainConnections, CloseEndpoint, AbortListener,
     ListenerAlive, TypeOK
<1>2. listener'[l] = "closing" => \A c \in ConnectionsOf(l) : ~ConnAlive(c)
  BY <1>0 DEF ListenerStep, BeginListenerDrain, DrainConnections, CloseEndpoint, AbortListener,
     TypeOK, JoinedConnections
<1>3. listener'[l] = "done" => \A c \in ConnectionsOf(l) : ConnAlive(c) => c \in aborted'
  BY <1>0 DEF ListenerStep, BeginListenerDrain, DrainConnections, CloseEndpoint, AbortListener,
     TypeOK, Owned, TreeByPhase
<1>4. TreeByPhase'
  <2>1. serve \notin {"none", "start", "prepare", "bridge", "metrics", "bind", "control", "run"}
    BY <1>0, <1>1 DEF Owned, TreeByPhase
  <2>2. \A x \in Listeners : listener'[x] = "closing" => \A c \in ConnectionsOf(x) : ~ConnAlive(c)'
    BY <1>0, <1>1, <1>2 DEF Owned, TreeByPhase, ConnAlive
  <2>3. \A c \in Connections : conn'[c] # "idle" => listener'[ListenerOf[c]] \notin {"none", "bound"}
    BY <1>0, <1>1, TreeAssumption DEF Owned, TreeByPhase
  <2> QED BY <1>0, <2>1, <2>2, <2>3 DEF Owned, TreeByPhase, ConnectionsOf
<1>5. EveryTaskHasAnOwner'
  <2>1. \A r \in Requests : ReqAlive(r)' => ConnAlive(ConnectionOf[r])' \/ r \in aborted'
    BY <1>0 DEF Owned, EveryTaskHasAnOwner, ReqAlive, ConnAlive
  <2>2. \A x \in Listeners :
           ListenerAlive(x)' => serve' \in {"register", "serving", "draining"} \/ x \in aborted'
    BY <1>0, <1>1 DEF Owned, EveryTaskHasAnOwner, ListenerAlive
  <2>3. ASSUME NEW c \in Connections, ConnAlive(c)'
        PROVE  ListenerAlive(ListenerOf[c])' \/ c \in aborted'
    <3>1. ConnAlive(c) /\ ListenerOf[c] \in Listeners
      BY <1>0, <2>3, TreeAssumption DEF ConnAlive
    <3>2. CASE ListenerOf[c] # l
      BY <1>0, <1>1, <3>1, <3>2 DEF Owned, EveryTaskHasAnOwner, ListenerAlive
    <3>3. CASE ListenerOf[c] = l
      BY <1>1, <1>3, <3>1, <3>3 DEF ConnectionsOf, ListenerAlive
    <3> QED BY <3>2, <3>3
  <2> QED BY <2>1, <2>2, <2>3 DEF EveryTaskHasAnOwner
<1> QED BY <1>4, <1>5 DEF Owned

(* A connection that ends has joined its requests, has none, or aborts them. *)
LEMMA ConnectionOwned ==
    ASSUME Inv, NEW c \in Connections,
           \/ Accept(c) \/ StartHandshake(c) \/ Establish(c)
           \/ HandshakeFails(c) \/ PeerLeaves(c) \/ ConnectionStep(c)
    PROVE  Owned'
<1> USE DEF Inv
<1>0. /\ TypeOK /\ Owned /\ UNCHANGED <<serve, listener, req>>
      /\ aborted \subseteq aborted'
  BY DEF Owned, Accept, StartHandshake, Establish, HandshakeFails, PeerLeaves, ConnectionStep,
     GoAway, DrainRequests, AbortConnection
<1>1. /\ \A x \in Connections \ {c} : conn'[x] = conn[x]
      /\ \/ /\ conn[c] = "idle" /\ conn'[c] = "incoming"
            /\ listener[ListenerOf[c]] = "running"
         \/ conn[c] = "incoming" /\ conn'[c] = "handshake"
         \/ conn[c] = "handshake" /\ conn'[c] \in {"live", "done"}
         \/ conn[c] = "live" /\ conn'[c] = "draining"
         \/ conn[c] = "draining" /\ conn'[c] = "aborting"
         \/ conn[c] \notin {"idle", "done"} /\ conn'[c] = "done"
            /\ \A r \in RequestsOf(c) : ReqAlive(r) => r \in aborted'
  BY <1>0 DEF Accept, StartHandshake, Establish, HandshakeFails, PeerLeaves, ConnectionStep,
     GoAway, DrainRequests, AbortConnection, JoinedRequests, ConnAlive, TypeOK
<1>2. TreeByPhase'
  <2>1. \A l \in Listeners : listener'[l] = "closing" => \A x \in ConnectionsOf(l) : ~ConnAlive(x)'
    BY <1>0, <1>1 DEF Owned, TreeByPhase, ConnectionsOf, ConnAlive
  <2>2. \A x \in Connections : conn'[x] # "idle" => listener'[ListenerOf[x]] \notin {"none", "bound"}
    BY <1>0, <1>1 DEF Owned, TreeByPhase
  <2>3. \A r \in Requests :
           req'[r] # "idle" => conn'[ConnectionOf[r]] \notin {"idle", "incoming", "handshake"}
    BY <1>0, <1>1, TreeAssumption DEF Owned, TreeByPhase
  <2> QED BY <1>0, <2>1, <2>2, <2>3 DEF Owned, TreeByPhase, ConnectionsOf
<1>3. EveryTaskHasAnOwner'
  <2>1. ASSUME NEW r \in Requests, ReqAlive(r)'
        PROVE  ConnAlive(ConnectionOf[r])' \/ r \in aborted'
    <3>1. ReqAlive(r) /\ req[r] # "idle" /\ ConnectionOf[r] \in Connections
      BY <1>0, <2>1, TreeAssumption DEF ReqAlive
    <3>2. CASE ConnectionOf[r] # c
      BY <1>0, <1>1, <3>1, <3>2 DEF Owned, EveryTaskHasAnOwner, ConnAlive
    <3>3. CASE ConnectionOf[r] = c
      BY <1>0, <1>1, <3>1, <3>3 DEF Owned, EveryTaskHasAnOwner, TreeByPhase, ConnAlive, RequestsOf
    <3> QED BY <3>2, <3>3
  <2>2. \A x \in Connections : ConnAlive(x)' => ListenerAlive(ListenerOf[x])' \/ x \in aborted'
    BY <1>0, <1>1 DEF Owned, EveryTaskHasAnOwner, ConnAlive, ListenerAlive
  <2>3. \A x \in Listeners :
           ListenerAlive(x)' => serve' \in {"register", "serving", "draining"} \/ x \in aborted'
    BY <1>0 DEF Owned, EveryTaskHasAnOwner, ListenerAlive
  <2> QED BY <2>1, <2>2, <2>3 DEF EveryTaskHasAnOwner
<1> QED BY <1>2, <1>3 DEF Owned

LEMMA RequestOwned ==
    ASSUME Inv, NEW r \in Requests, AcceptRequest(r) \/ FinishRequest(r) \/ AbortRequest(r)
    PROVE  Owned'
BY DEF Inv, TypeOK, Owned, AcceptRequest, FinishRequest, AbortRequest, EveryTaskHasAnOwner,
   TreeByPhase, ReqAlive, ConnAlive, ListenerAlive, ConnectionsOf

LEMMA OwnedStep ==
    ASSUME Inv, [Next]_vars
    PROVE  Owned'
<1>1. CASE UNCHANGED vars
  BY <1>1, SameTreeOwned DEF vars
<1> QED BY <1>1, ServeOwned, RootOwned, ListenerOwned, ConnectionOwned, RequestOwned DEF Next, RootStep

----------------------------------------------------------------------------
(* The host.                                                                 *)

Steps == {"control", "bridge", "metrics", "host"}

(* Every way out cleans the host, after the bridge (lib.rs).                 *)
LEMMA EveryWayCleans ==
    ASSUME NEW s, \/ s = AfterMetricsFailed \/ s = AfterBindFailed
                  \/ s = AfterControlFailed \/ s = AfterServing
    PROVE  /\ \E i \in DOMAIN s : s[i] = "host"
           /\ \A j \in DOMAIN s : s[j] = "host" => \E i \in 1..(j - 1) : s[i] = "bridge"
<1>1. CASE s = AfterMetricsFailed
  <2>1. DOMAIN s = 1..2 /\ s[1] = "bridge" /\ s[2] = "host"
    BY <1>1 DEF AfterMetricsFailed
  <2> QED BY <2>1
<1>2. CASE s = AfterBindFailed
  <2>1. DOMAIN s = 1..3 /\ s[1] = "bridge" /\ s[2] = "host" /\ s[3] = "metrics"
    BY <1>2 DEF AfterBindFailed
  <2> QED BY <2>1
<1>3. CASE s = AfterControlFailed
  <2>1. DOMAIN s = 1..3 /\ s[1] = "metrics" /\ s[2] = "bridge" /\ s[3] = "host"
    BY <1>3 DEF AfterControlFailed
  <2> QED BY <2>1
<1>4. CASE s = AfterServing
  <2>1. DOMAIN s = 1..4 /\ s[1] = "control" /\ s[2] = "bridge" /\ s[3] = "metrics" /\ s[4] = "host"
    BY <1>4 DEF AfterServing
  <2> QED BY <2>1
<1> QED BY <1>1, <1>2, <1>3, <1>4

(* A step of the way out leaves the others to do, in their order.            *)
LEMMA WayShortens ==
    ASSUME todo \in Seq(Steps), todo # <<>>, todo' = Tail(todo)
    PROVE  /\ HostLeft /\ Head(todo) # "host" => HostLeft'
           /\ BridgeFirst /\ Head(todo) # "bridge" => BridgeFirst' /\ Head(todo) # "host"
<1>1. /\ Len(todo) \in Nat /\ Len(todo) > 0 /\ DOMAIN todo = 1..Len(todo) /\ Head(todo) = todo[1]
      /\ DOMAIN todo' = 1..(Len(todo) - 1)
      /\ \A i \in 1..(Len(todo) - 1) : todo'[i] = todo[i + 1]
  OBVIOUS
<1>2. ASSUME HostLeft, Head(todo) # "host" PROVE HostLeft'
  <2>1. PICK i \in 1..Len(todo) : todo[i] = "host" /\ i # 1
    BY <1>1, <1>2 DEF HostLeft
  <2>2. i - 1 \in 1..(Len(todo) - 1) /\ todo'[i - 1] = "host"
    BY <1>1, <2>1
  <2> QED BY <1>1, <2>2 DEF HostLeft
<1>3. ASSUME BridgeFirst, Head(todo) # "bridge" PROVE BridgeFirst' /\ Head(todo) # "host"
  <2>1. Head(todo) # "host"
    BY <1>1, <1>3 DEF BridgeFirst
  <2>2. ASSUME NEW j \in DOMAIN todo', todo'[j] = "host"
        PROVE  \E i \in 1..(j - 1) : todo'[i] = "bridge"
    <3>1. j + 1 \in DOMAIN todo /\ todo[j + 1] = "host"
      BY <1>1, <2>2
    <3>2. PICK i \in 1..j : todo[i] = "bridge"
      BY <1>1, <1>3, <3>1 DEF BridgeFirst
    <3>3. i - 1 \in 1..(j - 1) /\ todo'[i - 1] = "bridge"
      BY <1>1, <1>3, <2>2, <3>2
    <3> QED BY <3>3
  <2> QED BY <2>1, <2>2 DEF BridgeFirst
<1> QED BY <1>2, <1>3

(* The host's record is lost by no step but a failure of its cleanup.        *)
LEMMA CleanHostEffect ==
    ASSUME TypeOK, CleanHost
    PROVE  \/ host' = "clean" /\ UNCHANGED unclean
           \/ host' = host /\ unclean'
BY DEF CleanHost

HostParts == HostByPhase /\ EndLeavesHostAsFound

LEMMA UndoHost ==
    ASSUME IInv, Undo
    PROVE  HostParts'
<1> USE DEF IInv, Inv
<1>0. /\ serve = "undo" /\ serve' = "undo" /\ todo' = Tail(todo) /\ todo # <<>>
      /\ UNCHANGED <<role, ip, sup, verdict>> /\ todo \in Seq(Steps)
      /\ bridge' = (IF Head(todo) = "bridge" THEN "none" ELSE bridge)
  BY DEF Undo, root, TypeOK, Steps
<1>1. CASE Head(todo) = "host" /\ OwnsHost
  <2>1. /\ CleanHost /\ role = "direct"
        /\ unclean' => outcome' = "error"
    BY <1>1 DEF Undo, OwnsHost
  <2>2. host' = "clean" \/ (host' = host /\ unclean' /\ outcome' = "error")
    BY <2>1, CleanHostEffect
  <2>3. bridge' # "none" => BridgeFirst'
    BY <1>0, WayShortens DEF HostByPhase
  <2> QED BY <1>0, <2>1, <2>2, <2>3
          DEF HostParts, HostByPhase, WorkerByPhase, EndLeavesHostAsFound, Ended
<1>2. CASE ~(Head(todo) = "host" /\ OwnsHost)
  <2>1. UNCHANGED <<host, unclean, outcome>>
    BY <1>2 DEF Undo
  <2>2. bridge' # "none" => BridgeFirst'
    BY <1>0, WayShortens DEF HostByPhase
  <2>3. host = "prepared" /\ role = "direct" => HostLeft' \/ (unclean /\ outcome = "error")
    BY <1>0, <1>2, WayShortens DEF HostByPhase, OwnsHost
  <2> QED BY <1>0, <2>1, <2>2, <2>3
          DEF HostParts, HostByPhase, WorkerByPhase, EndLeavesHostAsFound, Ended, Verdict
<1> QED BY <1>1, <1>2

LEMMA ServeHost ==
    ASSUME IInv, ServeStep
    PROVE  HostParts'
<1> USE DEF IInv, Inv
<1>1. CASE Begin \/ Prepare
  <2>1. /\ UNCHANGED <<role, ip, sup, verdict, unclean>> /\ serve \in {"start", "prepare"}
        /\ serve' \in {"prepare", "bridge", "ended"}
        /\ \/ serve' \in {"prepare", "ended"} /\ host' = host
           \/ serve' = "bridge" /\ host' \in {host, IF ip THEN "prepared" ELSE "clean"}
    BY <1>1 DEF Begin, Prepare, root
  <2>2. sup \notin {"prepare", "ended"} \/ host' = host
    <3>1. role \in {"direct", "supervised"}
      BY DEF TypeOK
    <3>2. serve = "prepare" => sup = "absent"
      BY <3>1 DEF WorkerByPhase
    <3> QED BY <1>1, <3>2 DEF Begin, Prepare
  <2>3. HostByPhase'
    BY <2>1, <2>2 DEF HostByPhase, WorkerByPhase
  <2>4. EndLeavesHostAsFound'
    <3>1. CASE role = "direct"
      BY <2>1, <3>1 DEF EndLeavesHostAsFound, Ended, HostByPhase, WorkerByPhase, TypeOK
    <3>2. CASE role # "direct"
      BY <2>1, <2>2, <3>2 DEF EndLeavesHostAsFound, Ended, Verdict
    <3> QED BY <3>1, <3>2
  <2> QED BY <2>3, <2>4 DEF HostParts
<1>2. CASE Run \/ ShutDown \/ ReloadOnHangUp \/ StartBridge
  BY <1>2 DEF Run, ShutDown, ReloadOnHangUp, StartBridge, root, HostParts, HostByPhase,
     WorkerByPhase, EndLeavesHostAsFound, Ended, Verdict
<1>3. CASE StartMetrics \/ Bind \/ StartControl \/ Register \/ ListenerEnded \/ Drained
  <2>1. /\ UNCHANGED <<role, ip, sup, verdict, host, unclean>>
        /\ serve # "undo" /\ serve' \notin {"start", "prepare", "ended"}
    BY <1>3 DEF StartMetrics, Bind, StartControl, Register, ListenerEnded, Drained, Leave, root
  <2>2. serve' = "undo" => \/ todo' = AfterMetricsFailed \/ todo' = AfterBindFailed
                           \/ todo' = AfterControlFailed \/ todo' = AfterServing
    BY <1>3 DEF StartMetrics, Bind, StartControl, Register, ListenerEnded, Drained, Leave
  <2>3. serve' = "undo" => HostLeft' /\ BridgeFirst'
    BY <2>2, EveryWayCleans DEF HostLeft, BridgeFirst
  <2>4. sup = "ended" => role # "direct"
    BY DEF WorkerByPhase
  <2> QED BY <2>1, <2>3, <2>4
          DEF HostParts, HostByPhase, EndLeavesHostAsFound, Ended, Verdict
<1>4. CASE Undo
  BY <1>4, UndoHost
<1>5. CASE Exit
  <2>1. /\ UNCHANGED <<role, ip, sup, verdict, todo, host, unclean, outcome>>
        /\ serve = "undo" /\ serve' = "ended" /\ todo = <<>>
    BY <1>5 DEF Exit, root
  <2>2. ~HostLeft
    BY <2>1 DEF HostLeft
  <2>3. HostByPhase'
    BY <2>1 DEF HostByPhase
  <2>4. EndLeavesHostAsFound'
    <3>1. CASE role = "direct"
      BY <2>1, <2>2, <3>1 DEF EndLeavesHostAsFound, Verdict, HostByPhase, TypeOK
    <3>2. CASE role # "direct"
      BY <2>1, <3>2 DEF EndLeavesHostAsFound, Ended, Verdict
    <3> QED BY <3>1, <3>2
  <2> QED BY <2>3, <2>4 DEF HostParts
<1> QED BY <1>1, <1>2, <1>3, <1>4, <1>5 DEF ServeStep

LEMMA DeliverHost ==
    ASSUME NEW signal, Deliver(signal)
    PROVE  \/ serve' = serve /\ UNCHANGED bridge
           \/ serve' = "killed"
BY DEF Deliver, tasks

LEMMA RootHost ==
    ASSUME IInv, RootStep \/ BridgeFails
    PROVE  HostParts'
<1> USE DEF IInv, Inv
<1>1. CASE SupPrepare \/ Spawn \/ Watch \/ WorkerExited \/ GiveUpWorker
  BY <1>1 DEF SupPrepare, Spawn, Watch, WorkerExited, GiveUpWorker, root, tasks, HostParts,
     HostByPhase, WorkerByPhase, EndLeavesHostAsFound, Ended, Verdict, HostLeft, BridgeFirst
<1>2. CASE SupCleanup
  <2>1. /\ UNCHANGED <<role, ip, serve, todo, bridge, outcome>> /\ CleanHost
        /\ sup = "cleanup" /\ sup' = "ended" /\ role # "direct"
        /\ unclean' => verdict' = "error"
    BY <1>2 DEF SupCleanup, tasks, WorkerByPhase
  <2>2. host' = "clean" \/ (host' = host /\ unclean' /\ verdict' = "error")
    BY <2>1, CleanHostEffect
  <2> QED BY <2>1, <2>2 DEF HostParts, HostByPhase, EndLeavesHostAsFound, Ended, Verdict, BridgeFirst
<1>3. CASE BridgeFails
  BY <1>3 DEF BridgeFails, root, HostParts, HostByPhase, EndLeavesHostAsFound, Ended, Verdict,
     HostLeft, BridgeFirst
<1>4. CASE \/ KillWorker \/ StopSupervisor
           \/ \E signal \in {"term", "hup"} : Signal(signal) \/ KillSupervisor(signal)
  <2>1. /\ UNCHANGED <<role, ip, verdict, todo, host, outcome, unclean>>
        /\ sup' \in {sup, "killed"}
        /\ (serve' = serve /\ UNCHANGED bridge) \/ serve' = "killed"
    BY <1>4, DeliverHost DEF KillWorker, StopSupervisor, Signal, KillSupervisor, root, tasks
  <2> QED BY <2>1 DEF HostParts, HostByPhase, EndLeavesHostAsFound, Ended, Verdict, HostLeft,
          BridgeFirst
<1> QED BY <1>1, <1>2, <1>3, <1>4 DEF RootStep, SupStep

LEMMA HostStep ==
    ASSUME IInv, [Next]_vars
    PROVE  HostParts'
<1>1. CASE TreeStep \/ UNCHANGED vars
  <2>1. UNCHANGED <<role, ip, sup, verdict, serve, todo, host, bridge, outcome, unclean>>
    BY <1>1, TreeEffect DEF IInv, Inv, vars, root, tasks
  <2> QED BY <2>1 DEF IInv, Inv, HostParts, HostByPhase, EndLeavesHostAsFound, Ended, Verdict,
          HostLeft, BridgeFirst
<1> QED BY <1>1, ServeHost, RootHost DEF Next, TreeStep, RootStep

----------------------------------------------------------------------------
LEMMA InitInv == Init => IInv
<1> SUFFICES ASSUME Init PROVE IInv
  OBVIOUS
<1>1. TypeOK
  <2>1. TreeTypes /\ FlagTypes
    BY DEF Init, TreeTypes, FlagTypes
  <2>2. PhaseTypes
    BY DEF Init, PhaseTypes, ServerPhases
  <2>3. CountTypes
    BY LimitsAssumption DEF Init, CountTypes
  <2> QED BY <2>1, <2>2, <2>3, TypesInParts
<1>2. EveryTaskHasAnOwner
  BY DEF Init, EveryTaskHasAnOwner, ReqAlive, ConnAlive, ListenerAlive
<1>3. WorkerByPhase
  BY DEF Init, WorkerByPhase, ServeAlive
<1>4. TreeByPhase
  BY TreeAssumption DEF Init, TreeByPhase
<1>5. HostByPhase /\ EndLeavesHostAsFound
  BY DEF Init, HostByPhase, EndLeavesHostAsFound
<1> QED BY <1>1, <1>2, <1>3, <1>4, <1>5 DEF Inv, IInv

(* Inv and EndLeavesHostAsFound together are inductive.                      *)
THEOREM IInvCorrect == Spec => []IInv
<1>1. IInv /\ [Next]_vars => IInv'
  <2> SUFFICES ASSUME IInv, [Next]_vars PROVE IInv'
    OBVIOUS
  <2>1. TypeOK'
    <3>1. CASE UNCHANGED vars
      BY <3>1 DEF IInv, Inv, vars, root, tasks, tree, TypeOK
    <3> QED BY <3>1, ServeTypes, RootTypes, TreeStepTypes DEF IInv, Inv, Next, TreeStep, RootStep
  <2> QED BY <2>1, WorkerStep, OwnedStep, HostStep DEF IInv, Inv, Owned, HostParts
<1> QED BY InitInv, <1>1, PTL DEF Spec

(* Whichever drain, timeout, abort or signal ends a listener or a connection *)
(* of however many, no request runs on with nobody to end it (transport.rs). *)
THEOREM InvCorrect == Spec => []Inv
<1>1. IInv => Inv
  BY DEF IInv
<1> QED BY <1>1, IInvCorrect, PTL

(* A daemon that returns has cleaned the host, or says that it could not     *)
(* (lib.rs, supervisor.rs).                                                  *)
THEOREM EndLeavesHostHolds == Spec => []EndLeavesHostAsFound
<1>1. IInv => EndLeavesHostAsFound
  BY DEF IInv
<1> QED BY <1>1, IInvCorrect, PTL

(* The host is cleaned when nobody uses it any more (lib.rs, supervisor.rs). *)
THEOREM CleanedAfterUseHolds == Spec => CleanedAfterUse
<1> DEFINE Used == host = "prepared" /\ host' = "clean"
                   => IF role = "direct"
                      THEN bridge = "none" /\ \A l \in Listeners : ListenerAlive(l) => l \in aborted
                      ELSE ~ServeAlive \/ abandoned
<1>1. IInv /\ [Next]_vars => Used
  <2> SUFFICES ASSUME IInv, [Next]_vars, host = "prepared", host' = "clean" PROVE Used
    OBVIOUS
  <2> USE DEF IInv, Inv
  <2>1. CASE ServeStep
    <3>1. Undo /\ Head(todo) = "host" /\ OwnsHost
      BY <2>1 DEF ServeStep, Begin, Prepare, StartBridge, StartMetrics, Bind, StartControl, Run,
         Register, ListenerEnded, ShutDown, ReloadOnHangUp, Drained, Undo, Exit, WorkerByPhase,
         HostByPhase
    <3>2. bridge = "none"
      BY <3>1, WayShortens DEF Undo, TypeOK, Steps, HostByPhase
    <3>3. \A l \in Listeners : ListenerAlive(l) => l \in aborted
      BY <3>1 DEF Undo, EveryTaskHasAnOwner
    <3> QED BY <3>1, <3>2, <3>3 DEF OwnsHost
  <2>2. CASE RootStep \/ BridgeFails
    <3>1. SupCleanup \/ SupPrepare
      BY <2>2 DEF RootStep, SupStep, Spawn, Watch, WorkerExited, GiveUpWorker, BridgeFails,
         KillWorker, StopSupervisor, Signal, KillSupervisor
    <3> QED BY <3>1 DEF SupCleanup, SupPrepare, HostByPhase, WorkerByPhase
  <2>3. CASE TreeStep \/ UNCHANGED vars
    BY <2>3, TreeEffect DEF vars
  <2> QED BY <2>1, <2>2, <2>3 DEF Next, TreeStep, RootStep
<1> QED BY <1>1, IInvCorrect, PTL DEF Spec, CleanedAfterUse

----------------------------------------------------------------------------
(* The way of each task and process, on which nothing goes back.             *)
ServeRank ==
    [none |-> 0, start |-> 1, prepare |-> 2, bridge |-> 3, metrics |-> 4, bind |-> 5,
     control |-> 6, run |-> 7, register |-> 8, serving |-> 9, draining |-> 10, undo |-> 11,
     ended |-> 12, killed |-> 12]
SupRank ==
    [absent |-> 0, prepare |-> 0, spawn |-> 1, spawned |-> 2, watch |-> 3, cleanup |-> 4,
     ended |-> 5, killed |-> 5]
ListenerRank ==
    [none |-> 0, bound |-> 0, running |-> 1, draining |-> 2, aborting |-> 3, closing |-> 4,
     done |-> 5]
ConnRank ==
    [idle |-> 0, incoming |-> 1, handshake |-> 2, live |-> 3, draining |-> 4, aborting |-> 5,
     done |-> 6]
ReqRank == [idle |-> 0, running |-> 1, done |-> 2]

TreeKept ==
    /\ \A l \in Listeners   : ListenerRank[listener[l]] <= ListenerRank[listener'[l]]
    /\ \A c \in Connections : ConnRank[conn[c]] <= ConnRank[conn'[c]]
    /\ \A r \in Requests    : ReqRank[req[r]] <= ReqRank[req'[r]]
    /\ stop \subseteq stop' /\ aborted \subseteq aborted'
NothingBack ==
    /\ ServeRank[serve] <= ServeRank[serve'] /\ SupRank[sup] <= SupRank[sup']
    /\ TreeKept

TreeRises ==
    \/ \E l \in Listeners   : ListenerRank[listener[l]] < ListenerRank[listener'[l]]
    \/ \E c \in Connections : ConnRank[conn[c]] < ConnRank[conn'[c]]
    \/ \E r \in Requests    : ReqRank[req[r]] < ReqRank[req'[r]]
Rises ==
    \/ ServeRank[serve] < ServeRank[serve'] \/ SupRank[sup] < SupRank[sup']
    \/ TreeRises
    \/ todo # <<>> /\ todo' = Tail(todo)

(* A failure is counted, and a signal comes from outside or is read.         *)
Outside == faults < faults' \/ pending' # pending \/ stopping' # stopping

Onward == NothingBack /\ (Rises \/ Outside)

(* A rank is a number; in the tree, one up to the rank of what is done.      *)
LEMMA Ranks ==
    ASSUME TypeOK
    PROVE  /\ ServeRank[serve] \in Nat /\ SupRank[sup] \in Nat
           /\ \A l \in Listeners : ListenerRank[listener[l]] \in 0..5
           /\ \A c \in Connections : ConnRank[conn[c]] \in 0..6
           /\ \A r \in Requests : ReqRank[req[r]] \in 0..2
BY DEF TypeOK, ServerPhases, ServeRank, SupRank, ListenerRank, ConnRank, ReqRank

(* A tree that is left alone, or ends with its process.                      *)
LEMMA TreeStays ==
    ASSUME TypeOK, UNCHANGED tree
    PROVE  TreeKept
BY Ranks DEF TreeKept, tree

(* The end of the process is the last rank of each.                          *)
LEMMA TreeGone ==
    ASSUME TypeOK, AllTasksGone
    PROVE  TreeKept
<1>1. ListenerRank["done"] = 5 /\ ConnRank["done"] = 6 /\ ReqRank["done"] = 2
  BY DEF ListenerRank, ConnRank, ReqRank
<1> QED BY <1>1, Ranks DEF TreeKept, AllTasksGone

(* A step of one task of the tree.                                           *)
LEMMA ListenerMoves ==
    ASSUME TypeOK, NEW l \in Listeners,
           \A k \in Listeners \ {l} : listener'[k] = listener[k],
           ListenerRank[listener'[l]] \in Nat,
           ListenerRank[listener[l]] < ListenerRank[listener'[l]],
           UNCHANGED <<conn, req>>,
           stop \subseteq stop', aborted \subseteq aborted'
    PROVE  TreeKept /\ TreeRises
<1>1. ASSUME NEW k \in Listeners
      PROVE  ListenerRank[listener[k]] <= ListenerRank[listener'[k]]
  <2>1. ListenerRank[listener[k]] \in 0..5
    BY Ranks
  <2>2. CASE k = l
    BY <2>1, <2>2
  <2>3. CASE k # l
    BY <2>1, <2>3
  <2> QED BY <2>2, <2>3
<1>2. /\ \A c \in Connections : ConnRank[conn[c]] <= ConnRank[conn'[c]]
      /\ \A r \in Requests : ReqRank[req[r]] <= ReqRank[req'[r]]
  BY Ranks
<1> QED BY <1>1, <1>2 DEF TreeKept, TreeRises

LEMMA ConnMoves ==
    ASSUME TypeOK, NEW c \in Connections,
           \A k \in Connections \ {c} : conn'[k] = conn[k],
           ConnRank[conn'[c]] \in Nat, ConnRank[conn[c]] < ConnRank[conn'[c]],
           UNCHANGED <<listener, req, stop>>,
           aborted \subseteq aborted'
    PROVE  TreeKept /\ TreeRises
<1>1. ASSUME NEW k \in Connections
      PROVE  ConnRank[conn[k]] <= ConnRank[conn'[k]]
  <2>1. ConnRank[conn[k]] \in 0..6
    BY Ranks
  <2>2. CASE k = c
    BY <2>1, <2>2
  <2>3. CASE k # c
    BY <2>1, <2>3
  <2> QED BY <2>2, <2>3
<1>2. /\ \A l \in Listeners : ListenerRank[listener[l]] <= ListenerRank[listener'[l]]
      /\ \A r \in Requests : ReqRank[req[r]] <= ReqRank[req'[r]]
  BY Ranks
<1> QED BY <1>1, <1>2 DEF TreeKept, TreeRises

(* Each step of the tree is a step of one task.                              *)
LEMMA TreeOnward ==
    ASSUME TypeOK, TreeStep
    PROVE  TreeKept /\ TreeRises
<1>1. ASSUME NEW l \in Listeners, ListenerStep(l)
      PROVE  TreeKept /\ TreeRises
  <2>1. /\ UNCHANGED <<conn, req>> /\ stop \subseteq stop' /\ aborted \subseteq aborted'
        /\ \A k \in Listeners \ {l} : listener'[k] = listener[k]
    BY <1>1 DEF ListenerStep, BeginListenerDrain, DrainConnections, CloseEndpoint, AbortListener,
       TypeOK
  <2>2. \/ listener[l] = "running" /\ listener'[l] = "draining"
        \/ listener[l] = "draining" /\ listener'[l] = "aborting"
        \/ listener[l] \in {"draining", "aborting"} /\ listener'[l] = "closing"
        \/ listener[l] \in {"running", "draining", "aborting", "closing"} /\ listener'[l] = "done"
    BY <1>1 DEF ListenerStep, BeginListenerDrain, DrainConnections, CloseEndpoint, AbortListener,
       ListenerAlive, TypeOK
  <2>3. ListenerRank[listener'[l]] \in Nat /\ ListenerRank[listener[l]] < ListenerRank[listener'[l]]
    BY <2>2 DEF ListenerRank
  <2> QED BY <2>1, <2>3, ListenerMoves
<1>2. ASSUME NEW c \in Connections,
             \/ Accept(c) \/ StartHandshake(c) \/ Establish(c)
             \/ HandshakeFails(c) \/ PeerLeaves(c) \/ ConnectionStep(c)
      PROVE  TreeKept /\ TreeRises
  <2>1. /\ UNCHANGED <<listener, req, stop>> /\ aborted \subseteq aborted'
        /\ \A k \in Connections \ {c} : conn'[k] = conn[k]
    BY <1>2 DEF Accept, StartHandshake, Establish, HandshakeFails, PeerLeaves, ConnectionStep, GoAway,
       DrainRequests, AbortConnection, TypeOK
  <2>2. \/ conn[c] = "idle" /\ conn'[c] = "incoming"
        \/ conn[c] = "incoming" /\ conn'[c] = "handshake"
        \/ conn[c] = "handshake" /\ conn'[c] = "live"
        \/ conn[c] = "live" /\ conn'[c] = "draining"
        \/ conn[c] = "draining" /\ conn'[c] = "aborting"
        \/ conn[c] \in {"incoming", "handshake", "live", "draining", "aborting"} /\ conn'[c] = "done"
    BY <1>2 DEF Accept, StartHandshake, Establish, HandshakeFails, PeerLeaves, ConnectionStep, GoAway,
       DrainRequests, AbortConnection, ConnAlive, TypeOK
  <2>3. ConnRank[conn'[c]] \in Nat /\ ConnRank[conn[c]] < ConnRank[conn'[c]]
    BY <2>2 DEF ConnRank
  <2> QED BY <2>1, <2>3, ConnMoves
<1>3. ASSUME NEW r \in Requests, AcceptRequest(r) \/ FinishRequest(r) \/ AbortRequest(r)
      PROVE  TreeKept /\ TreeRises
  <2>1. /\ UNCHANGED <<listener, conn, stop, aborted>>
        /\ \A k \in Requests \ {r} : req'[k] = req[k]
        /\ \/ req[r] = "idle" /\ req'[r] = "running"
           \/ req[r] = "running" /\ req'[r] = "done"
    BY <1>3 DEF AcceptRequest, FinishRequest, AbortRequest, TypeOK
  <2>2. ReqRank["idle"] = 0 /\ ReqRank["running"] = 1 /\ ReqRank["done"] = 2
    BY DEF ReqRank
  <2> QED BY <2>1, <2>2, Ranks DEF TreeKept, TreeRises
<1> QED BY <1>1, <1>2, <1>3 DEF TreeStep

(* The steps of serve_inner (lib.rs).                                        *)
LEMMA ServeOnward ==
    ASSUME IInv, ServeStep
    PROVE  Onward
<1>0. TypeOK /\ TreeByPhase
  BY DEF IInv, Inv
<1>1. SupRank[sup] <= SupRank[sup']
  BY <1>0, ServePlace, Ranks
<1>2. TreeKept
  <2>1. CASE UNCHANGED tree
    BY <1>0, <2>1, TreeStays
  <2>2. CASE Exit
    BY <1>0, <2>2, TreeGone DEF Exit
  <2>3. CASE Bind \/ StartControl \/ Run
    <3>1. \A l \in Listeners : ListenerRank[listener[l]] <= ListenerRank[listener'[l]]
      BY <1>0, <2>3 DEF Bind, StartControl, Run, TreeByPhase, ListenerRank
    <3>2. UNCHANGED <<conn, req, stop, aborted>>
      BY <2>3 DEF Bind, StartControl, Run
    <3> QED BY <1>0, <3>1, <3>2, Ranks DEF TreeKept
  <2>4. CASE Register \/ ListenerEnded \/ ShutDown
    <3>1. UNCHANGED <<listener, conn, req>> /\ aborted \subseteq aborted' /\ stop \subseteq stop'
      BY <1>0, <2>4 DEF Register, ListenerEnded, ShutDown, TypeOK
    <3> QED BY <1>0, <3>1, Ranks DEF TreeKept
  <2> QED
    BY <2>1, <2>2, <2>3, <2>4 DEF ServeStep, Begin, Prepare, StartBridge, StartMetrics,
       ReloadOnHangUp, Drained, Undo
<1>3. \/ ServeRank[serve] < ServeRank[serve']
      \/ serve' = serve /\ todo # <<>> /\ todo' = Tail(todo)
      \/ serve' = serve /\ pending' # pending
  <2>1. CASE Begin \/ Prepare \/ StartBridge \/ StartMetrics \/ Bind \/ StartControl \/ Run
    BY <2>1 DEF Begin, Prepare, StartBridge, StartMetrics, Bind, StartControl, Run, Leave, ServeRank
  <2>2. CASE Register \/ ListenerEnded \/ ShutDown \/ Drained \/ Exit
    BY <2>2 DEF Register, ListenerEnded, ShutDown, Drained, Exit, Leave, ServeRank
  <2>3. CASE ReloadOnHangUp \/ Undo
    BY <2>3 DEF ReloadOnHangUp, Undo
  <2> QED BY <2>1, <2>2, <2>3 DEF ServeStep
<1>4. ServeRank[serve] <= ServeRank[serve']
  <2>1. CASE ServeRank[serve] < ServeRank[serve']
    <3>1. ServeRank[serve'] \in Nat
      BY <1>0, ServeTypes DEF TypeOK, ServerPhases, ServeRank
    <3> QED BY <1>0, <2>1, <3>1, Ranks
  <2>2. CASE serve' = serve
    BY <1>0, <2>2, Ranks
  <2> QED BY <1>3, <2>1, <2>2
<1> QED BY <1>1, <1>2, <1>3, <1>4 DEF Onward, NothingBack, Rises, Outside

(* The supervisor and the signals (supervisor.rs).                           *)
LEMMA DeliverOnward ==
    ASSUME TypeOK, ServeAlive, NEW signal, Deliver(signal)
    PROVE  /\ TreeKept /\ ServeRank[serve] <= ServeRank[serve']
           /\ ServeRank[serve] < ServeRank[serve'] \/ UNCHANGED <<serve, tasks, tree>>
<1>1. CASE Handles
  <2>1. UNCHANGED <<serve, tasks, tree>>
    BY <1>1 DEF Deliver
  <2> QED BY <2>1, TreeStays, Ranks
<1>2. CASE ~Handles
  <2>1. TreeKept
    BY <1>2, TreeGone DEF Deliver
  <2>2. ServeRank[serve] < ServeRank[serve'] /\ ServeRank[serve] <= ServeRank[serve']
    BY <1>2 DEF Deliver, ServeAlive, TypeOK, ServerPhases, ServeRank
  <2> QED BY <2>1, <2>2
<1> QED BY <1>1, <1>2

(* The steps of the supervisor and of those who end it or its worker.        *)
LEMMA RootOnward ==
    ASSUME IInv, RootStep
    PROVE  Onward \/ UNCHANGED vars
<1>0. TypeOK /\ WorkerByPhase
  BY DEF IInv, Inv
<1>1. CASE SupStep \/ GiveUpWorker \/ \E signal \in {"term", "hup"} : KillSupervisor(signal)
  <2>1. TreeKept
    <3>1. UNCHANGED tree
      BY <1>1 DEF SupStep, SupPrepare, Spawn, Watch, WorkerExited, SupCleanup, GiveUpWorker,
         KillSupervisor
    <3> QED BY <1>0, <3>1, TreeStays
  <2>2. SupRank[sup] < SupRank[sup'] /\ SupRank[sup] <= SupRank[sup']
    BY <1>1 DEF SupStep, SupPrepare, Spawn, Watch, WorkerExited, SupCleanup, GiveUpWorker,
       KillSupervisor, SupRank
  <2>3. ServeRank[serve] <= ServeRank[serve']
    <3>1. serve' = serve \/ (serve = "none" /\ serve' = "start")
      BY <1>0, <1>1 DEF SupStep, SupPrepare, Spawn, Watch, WorkerExited, SupCleanup, GiveUpWorker,
         KillSupervisor, WorkerByPhase
    <3>2. ServeRank["none"] = 0 /\ ServeRank["start"] = 1
      BY DEF ServeRank
    <3> QED BY <1>0, <3>1, <3>2, Ranks
  <2> QED BY <2>1, <2>2, <2>3 DEF Onward, NothingBack, Rises
<1>2. CASE KillWorker
  <2>1. TreeKept
    BY <1>0, <1>2, TreeGone DEF KillWorker
  <2>2. ServeRank[serve] < ServeRank[serve'] /\ ServeRank[serve] <= ServeRank[serve']
    BY <1>0, <1>2 DEF KillWorker, ServeAlive, TypeOK, ServerPhases, ServeRank
  <2>3. SupRank[sup] <= SupRank[sup']
    BY <1>0, <1>2, Ranks DEF KillWorker, root
  <2> QED BY <2>1, <2>2, <2>3 DEF Onward, NothingBack, Rises
<1>3. CASE StopSupervisor
  <2>1. TreeKept /\ ServeRank[serve] <= ServeRank[serve']
    <3>1. CASE ServeAlive
      <4>1. Deliver("term")
        BY <1>3, <3>1 DEF StopSupervisor
      <4> QED BY <1>0, <3>1, <4>1, DeliverOnward
    <3>2. CASE ~ServeAlive
      BY <1>0, <1>3, <3>2, TreeStays, Ranks DEF StopSupervisor
    <3> QED BY <3>1, <3>2
  <2>2. sup' = sup /\ stopping' # stopping
    BY <1>3 DEF StopSupervisor
  <2>3. SupRank[sup] <= SupRank[sup']
    BY <1>0, <2>2, Ranks
  <2> QED BY <2>1, <2>2, <2>3 DEF Onward, NothingBack, Outside
<1>4. ASSUME NEW signal \in {"term", "hup"}, Signal(signal)
      PROVE  Onward \/ UNCHANGED vars
  <2>1. TreeKept /\ ServeRank[serve] <= ServeRank[serve']
    <3>1. ServeAlive /\ Deliver(signal)
      BY <1>4 DEF Signal
    <3> QED BY <1>0, <3>1, DeliverOnward
  <2>2. SupRank[sup] <= SupRank[sup']
    BY <1>0, <1>4, Ranks DEF Signal, root
  <2>3. CASE ServeRank[serve] < ServeRank[serve']
    BY <2>1, <2>2, <2>3 DEF Onward, NothingBack, Rises
  <2>4. CASE pending' # pending
    BY <2>1, <2>2, <2>4 DEF Onward, NothingBack, Outside
  <2>5. CASE UNCHANGED <<serve, tasks, tree, pending>>
    BY <1>4, <2>5 DEF Signal, vars
  <2>6. ServeRank[serve] < ServeRank[serve'] \/ UNCHANGED <<serve, tasks, tree>>
    BY <1>0, <1>4, DeliverOnward DEF Signal
  <2> QED BY <2>3, <2>4, <2>5, <2>6
<1> QED BY <1>1, <1>2, <1>3, <1>4 DEF RootStep

(* No listener, connection, request or process takes a step back, no stop    *)
(* and no abort is taken back, and every step moves one of them on, unless   *)
(* it is a failure or a signal: each deadline passes once, and a daemon that *)
(* gets no more clients and signals comes to rest (lib.rs:196-300,           *)
(* transport.rs:160-225, 369-401, supervisor.rs:32-130).                     *)
THEOREM TasksGoOnward == Spec => [][Onward]_vars
<1>1. IInv /\ [Next]_vars => [Onward]_vars
  <2> SUFFICES ASSUME IInv, Next PROVE [Onward]_vars
    OBVIOUS
  <2>0. TypeOK
    BY DEF IInv, Inv
  <2>1. CASE ServeStep
    BY <2>1, ServeOnward
  <2>2. CASE BridgeFails
    BY <2>0, <2>2, Ranks, TreeStays DEF BridgeFails, Fails, Onward, NothingBack, Outside, root,
       TypeOK
  <2>3. CASE RootStep
    BY <2>3, RootOnward
  <2>4. CASE TreeStep
    <3>1. serve' = serve /\ sup' = sup
      BY <2>0, <2>4, TreeEffect DEF root
    <3> QED BY <2>0, <2>4, <3>1, TreeOnward, Ranks DEF Onward, NothingBack, Rises
  <2> QED BY <2>1, <2>2, <2>3, <2>4 DEF Next, TreeStep, RootStep
<1> QED BY <1>1, IInvCorrect, PTL DEF Spec
=============================================================================
