----------------------------- MODULE IpSessions ------------------------------
(***************************************************************************)
(* The life of CONNECT-IP requests in maskman-server: admission against    *)
(* the principal's quota (session.rs), address leases from the shared      *)
(* pools (proxy/address_pool.rs), the session and its queue (proxy/ip.rs), *)
(* the destination registry (proxy/ip_registry.rs), the request task that  *)
(* owns them and gives them back (request_ip.rs), the drain and abort of a *)
(* connection's tasks (transport.rs) and the TUN bridge that dispatches    *)
(* packets to sessions (tun_bridge.rs).                                    *)
(*                                                                         *)
(* Request tasks and the TUN bridge run on a multi-threaded runtime.  One  *)
(* action is one critical section of one mutex, or one step outside any    *)
(* mutex that another task can observe, so that every interleaving of the  *)
(* tasks between two lock acquisitions is a behaviour.                     *)
(***************************************************************************)
EXTENDS AddressPool, Sequences

CONSTANTS
  Requests,          \* the CONNECT-IP requests; their order is that of SessionKey
  Principals,        \* the authenticated principals
  Connections,       \* the QUIC connections
  PrincipalOf,       \* [Requests -> Principals]
  ConnectionOf,      \* [Requests -> Connections]
  ScopeOf,           \* the families of the target each request asks for
  PoolOf,            \* the network of each family that has a pool
  ActiveLimit,       \* limits.active_tunnels
  NewTunnelLimit,    \* limits.new_tunnels_per_minute
  RouteAds,          \* the ROUTE_ADVERTISEMENTs clients send: sets of ranges
  PermittedRanges,   \* the ranges the clients' policies authorize
  MaxSessionRoutes,  \* MAX_SESSION_ROUTES
  MaxRegistryRoutes, \* MAX_REGISTRY_ROUTES
  QueueCapacity,     \* QUEUE_CAPACITY
  Packets,           \* the packets the TUN device delivers
  None               \* no session, no packet

ConfiguredFamilies == DOMAIN PoolOf

Address == Families \X Nat

(* The addresses the configured pools may lease.                           *)
PoolAddresses ==
  UNION {{<<f, n>> : n \in Usable(PoolOf[f])} : f \in ConfiguredFamilies}

AddressRange == [family : Families, start : Nat, end : Nat, protocol : Nat]

(* An invoking packet is the one an ICMP error quotes.                     *)
Invoking == [source : Address, destination : Address, protocol : Nat]
Packet ==
  [destination : Address, protocol : Nat, invoking : Invoking \cup {None}]

ASSUME RequestsAssumption ==
  /\ Requests \subseteq Nat /\ IsFiniteSet(Requests)
  /\ PrincipalOf \in [Requests -> Principals]
  /\ ConnectionOf \in [Requests -> Connections]
  /\ ScopeOf \in [Requests -> SUBSET Families]
  /\ None \notin Requests

ASSUME PoolsAssumption ==
  /\ ConfiguredFamilies \subseteq Families
  /\ \A f \in ConfiguredFamilies :
       PoolOf[f] \in Network /\ PoolOf[f].family = f /\ PoolOf[f].first <= PoolOf[f].last

ASSUME LimitsAssumption ==
  /\ ActiveLimit \in Nat /\ NewTunnelLimit \in Nat
  /\ MaxSessionRoutes \in Nat /\ MaxRegistryRoutes \in Nat
  /\ QueueCapacity \in Nat

ASSUME InputsAssumption ==
  /\ RouteAds \subseteq SUBSET AddressRange
  /\ \A ad \in RouteAds : IsFiniteSet(ad)
  /\ PermittedRanges \subseteq AddressRange
  /\ Packets \subseteq Packet /\ None \notin Packets

VARIABLES
  conn,       \* each connection's loop: "open", "draining", "aborted"
  pc,         \* where each request's task is
  active,     \* QuotaState.active: tunnels each principal is charged for
  window,     \* QuotaState.new_tunnels: count, and whether 60 s have passed
  pool,       \* AddressPoolSet: a pool per configured family
  lease,      \* the AddressLease values each request's task owns
  assigned,   \* IpSessionHandle.assigned, which never changes
  receiver,   \* the session's end of its queue: "none", "open", "closed"
  toClient,   \* the queue of packets for each session's client
  routes,     \* IpSessionHandle.routes
  next,       \* the validated advertisement replace_routes holds between its locks
  streams,    \* IpRegistryState.streams: the registered sessions
  addresses,  \* IpRegistryState.addresses: the session of each address, or None
  registered, \* IpRegistryState.routes
  tun         \* the TUN bridge: the packet in its hands and the handle it cloned

quotaVars    == <<active, window>>
sessionVars  == <<assigned, receiver, toClient, routes, next>>
registryVars == <<streams, addresses, registered>>
vars == <<conn, pc, quotaVars, pool, lease, sessionVars, registryVars, tun>>

(* Where a request's task is.                                              *)
Phases ==
  {"idle", "resolving", "window", "rollback", "lease4", "lease6", "start",
   "provisioned", "accepted", "active", "replacing",
   "unregister", "close", "release4", "release6", "unquota", "done"}

(* Mutant: a task waiting for the resolver does not see its abort.         *)
AwaitingAfterResolving == {"provisioned", "active"}

(* Only in these phases is the task parked at an await, the one place      *)
(* where an abort takes effect.                                            *)
Awaiting == {"resolving", "provisioned", "active"}

(* The phases in which the task owns an IpSession with an open receiver.   *)
Serving == {"provisioned", "accepted", "active", "replacing", "unregister", "close"}

(* The phases in which the registry holds the session.                     *)
Mapped == {"active", "replacing", "unregister"}

------------------------------------------------------------------------------
(* Ranges and packets.                                                     *)

(* is_icmp_protocol.                                                       *)
Icmp == {1, 58}

Contains(range, address) ==
  range.family = address[1] /\ range.start <= address[2] /\ address[2] <= range.end

Permits(range, address, protocol) ==
  /\ Contains(range, address)
  /\ range.protocol = 0 \/ range.protocol = protocol \/ protocol \in Icmp

(* Mutant: ranges that share one address at their ends do not overlap.     *)
OverlapsStrictly(a, b) == a.family = b.family /\ a.start < b.end /\ b.start < a.end

Overlaps(a, b) == a.family = b.family /\ a.start <= b.end /\ b.start <= a.end

ConflictsWith(a, b) ==
  Overlaps(a, b) /\ (a.protocol = 0 \/ b.protocol = 0 \/ a.protocol = b.protocol)

(* The order sort_routes gives the routes that can permit one packet.      *)
Precedes(x, y) ==
  LET a == x.range  b == y.range IN
  \/ a.protocol < b.protocol
  \/ a.protocol = b.protocol /\ a.start < b.start
  \/ a.protocol = b.protocol /\ a.start = b.start /\ a.end < b.end
  \/ a.protocol = b.protocol /\ a.start = b.start /\ a.end = b.end /\ x.session < y.session

(* An ICMP error is routed by the packet it quotes.                        *)
RoutePermits(route, packet) ==
  IF packet.protocol \in Icmp /\ packet.invoking # None
    THEN Permits(route.range, packet.invoking.destination, packet.invoking.protocol)
    ELSE Permits(route.range, packet.destination, packet.protocol)

FirstRoute(route, packet) ==
  /\ route \in registered
  /\ RoutePermits(route, packet)
  /\ \A other \in registered : RoutePermits(other, packet) => ~Precedes(other, route)

Owner(address) == IF address \in PoolAddresses THEN addresses[address] ELSE None

(* select_session: the owner of the destination, else the first route.     *)
Selects(packet, r) ==
  IF Owner(packet.destination) # None
    THEN r = Owner(packet.destination)
    ELSE \E route \in registered : FirstRoute(route, packet) /\ r = route.session

(* reverse_destination_matches, and the source of a quoted packet.         *)
AcceptsFromTun(r, packet) ==
  /\ \/ packet.destination \in assigned[r]
     \/ \E range \in routes[r] : Permits(range, packet.destination, packet.protocol)
  /\ packet.protocol \in Icmp /\ packet.invoking # None
       => packet.invoking.source \in assigned[r]

(* has_compatible_assignment.                                              *)
Compatible(r) == \E a \in lease[r] : a[1] \in ScopeOf[r]

(* registry.insert refuses a session it holds or an address it maps.       *)
Conflict(r) == r \in streams \/ \E a \in assigned[r] : Owner(a) # None

------------------------------------------------------------------------------
Init ==
  /\ conn = [c \in Connections |-> "open"]
  /\ pc = [r \in Requests |-> "idle"]
  /\ active = [p \in Principals |-> 0]
  /\ window = [p \in Principals |-> [count |-> 0, elapsed |-> FALSE]]
  /\ pool = [f \in ConfiguredFamilies |-> NewPool(PoolOf[f])]
  /\ lease = [r \in Requests |-> {}]
  /\ assigned = [r \in Requests |-> {}]
  /\ receiver = [r \in Requests |-> "none"]
  /\ toClient = [r \in Requests |-> <<>>]
  /\ routes = [r \in Requests |-> {}]
  /\ next = [r \in Requests |-> {}]
  /\ streams = {}
  /\ addresses = [a \in PoolAddresses |-> None]
  /\ registered = {}
  /\ tun = [stage |-> "idle", packet |-> None, session |-> None]

(* The request's task goes from one phase to another.                      *)
Goto(r, from, to) == pc[r] = from /\ pc' = [pc EXCEPT ![r] = to]

------------------------------------------------------------------------------
(* Connections (transport.rs).                                             *)

(* drive_connection leaves its loop: shutdown, GOAWAY or a lost connection. *)
StopConnection(c) ==
  /\ conn[c] = "open"
  /\ conn' = [conn EXCEPT ![c] = "draining"]
  /\ UNCHANGED <<pc, quotaVars, pool, lease, sessionVars, registryVars, tun>>

(* drain_request_tasks gives up after drain_timeout and aborts its tasks.  *)
DrainTimeout(c) ==
  /\ conn[c] = "draining"
  /\ conn' = [conn EXCEPT ![c] = "aborted"]
  /\ UNCHANGED <<pc, quotaVars, pool, lease, sessionVars, registryVars, tun>>

(* The connection's loop accepts a request and spawns its task.            *)
Accept(r) ==
  /\ conn[ConnectionOf[r]] = "open"
  /\ Goto(r, "idle", "resolving")
  /\ UNCHANGED <<conn, quotaVars, pool, lease, sessionVars, registryVars, tun>>

(* Mutant: a task aborted in send_response leaves its session behind.      *)
TeardownFromForgetsSession(phase) == IF phase = "active" THEN "unregister" ELSE "done"

(* The phase a task goes to when its future fails or is dropped: what it   *)
(* owns at an await decides where the teardown starts.                     *)
TeardownFrom(phase) ==
  CASE phase = "resolving"   -> "done"
    [] phase = "provisioned" -> "close"
    [] OTHER                 -> "unregister"

(* An aborted task is dropped at the await it is parked at.                *)
Cancel(r) ==
  /\ conn[ConnectionOf[r]] = "aborted"
  /\ pc[r] \in Awaiting
  /\ pc' = [pc EXCEPT ![r] = TeardownFrom(pc[r])]
  /\ UNCHANGED <<conn, quotaVars, pool, lease, sessionVars, registryVars, tun>>

------------------------------------------------------------------------------
(* Quota (session.rs).                                                     *)

(* Authentication, policy or the resolver refuses the request, or          *)
(* QuotaState::acquire finds the principal at its limit.                   *)
Reject(r) ==
  /\ Goto(r, "resolving", "done")
  /\ UNCHANGED <<conn, quotaVars, pool, lease, sessionVars, registryVars, tun>>

(* The first critical section of acquire.                                  *)
AcquireActive(r) ==
  /\ Goto(r, "resolving", "window")
  /\ active[PrincipalOf[r]] < ActiveLimit
  /\ active' = [active EXCEPT ![PrincipalOf[r]] = @ + 1]
  /\ UNCHANGED <<conn, window, pool, lease, sessionVars, registryVars, tun>>

(* Sixty seconds have passed since the principal's window began.           *)
WindowElapses(p) ==
  /\ ~window[p].elapsed
  /\ window' = [window EXCEPT ![p].elapsed = TRUE]
  /\ UNCHANGED <<conn, pc, active, pool, lease, sessionVars, registryVars, tun>>

(* The second: a new window starts when the old one has elapsed.           *)
AcquireWindow(r) ==
  LET p == PrincipalOf[r]
      count == IF window[p].elapsed THEN 0 ELSE window[p].count
      granted == count < NewTunnelLimit
  IN  /\ Goto(r, "window", IF granted THEN "lease4" ELSE "rollback")
      /\ window' = [window EXCEPT ![p] =
           [count |-> IF granted THEN count + 1 ELSE count, elapsed |-> FALSE]]
      /\ UNCHANGED <<conn, active, pool, lease, sessionVars, registryVars, tun>>

(* saturating_sub, as both the rollback and QuotaPermit::drop do it; an    *)
(* entry that is absent counts 0.                                          *)
Discharge(p) == active' = [active EXCEPT ![p] = IF @ > 0 THEN @ - 1 ELSE 0]

(* The third, after a refusal by the window.                               *)
Rollback(r) ==
  /\ Goto(r, "rollback", "done")
  /\ Discharge(PrincipalOf[r])
  /\ UNCHANGED <<conn, window, pool, lease, sessionVars, registryVars, tun>>

------------------------------------------------------------------------------
(* Leases and the session (proxy/address_pool.rs, proxy/ip.rs).            *)

(* One arm of AddressPoolSet::lease: the pool's mutex is held.             *)
LeaseFamily(r, family, from, to) ==
  /\ Goto(r, from, to)
  /\ IF family \in ConfiguredFamilies /\ ~Exhausted(pool[family])
       THEN \E n \in Free(pool[family]) :
              /\ IsNextFree(pool[family], n)
              /\ pool' = [pool EXCEPT ![family] = Lease(@, n)]
              /\ lease' = [lease EXCEPT ![r] = @ \cup {<<family, n>>}]
       ELSE UNCHANGED <<pool, lease>>
  /\ UNCHANGED <<conn, quotaVars, sessionVars, registryVars, tun>>

LeaseIpv4(r) == LeaseFamily(r, "ipv4", "lease4", "lease6")
LeaseIpv6(r) == LeaseFamily(r, "ipv6", "lease6", "start")

(* Mutant: a refused session keeps its leases.                             *)
StartLeaksLease(r) ==
  IF Compatible(r)
    THEN /\ Goto(r, "start", "provisioned")
         /\ assigned' = [assigned EXCEPT ![r] = lease[r]]
         /\ receiver' = [receiver EXCEPT ![r] = "open"]
         /\ UNCHANGED <<conn, quotaVars, pool, lease, toClient, routes, next, registryVars, tun>>
    ELSE /\ Goto(r, "start", "unquota")
         /\ UNCHANGED <<conn, quotaVars, pool, lease, sessionVars, registryVars, tun>>

(* start_with_stats: without an address of a family the target has, the    *)
(* leases are dropped and the request is refused.                          *)
Start(r) ==
  IF Compatible(r)
    THEN /\ Goto(r, "start", "provisioned")
         /\ assigned' = [assigned EXCEPT ![r] = lease[r]]
         /\ receiver' = [receiver EXCEPT ![r] = "open"]
         /\ UNCHANGED <<conn, quotaVars, pool, lease, toClient, routes, next, registryVars, tun>>
    ELSE /\ Goto(r, "start", "release4")
         /\ UNCHANGED <<conn, quotaVars, pool, lease, sessionVars, registryVars, tun>>

(* Encoding, the IPv6 datagram size or the response fails before insert.   *)
FailBeforeInsert(r) ==
  /\ Goto(r, "provisioned", "close")
  /\ UNCHANGED <<conn, quotaVars, pool, lease, sessionVars, registryVars, tun>>

(* send_response completes: the client has its 2xx.                        *)
Respond(r) ==
  /\ Goto(r, "provisioned", "accepted")
  /\ UNCHANGED <<conn, quotaVars, pool, lease, sessionVars, registryVars, tun>>

------------------------------------------------------------------------------
(* Registration (proxy/ip_registry.rs) and the stream (request_ip.rs).     *)

Insert(r) ==
  IF Conflict(r)
    THEN /\ Goto(r, "accepted", "close")
         /\ UNCHANGED <<conn, quotaVars, pool, lease, sessionVars, registryVars, tun>>
    ELSE /\ Goto(r, "accepted", "active")
         /\ streams' = streams \cup {r}
         /\ addresses' = [a \in PoolAddresses |-> IF a \in assigned[r] THEN r ELSE addresses[a]]
         /\ UNCHANGED <<conn, quotaVars, pool, lease, sessionVars, registered, tun>>

(* The stream ends, a capsule is malformed or refused, or a send fails.    *)
FinishStream(r) ==
  /\ Goto(r, "active", "unregister")
  /\ UNCHANGED <<conn, quotaVars, pool, lease, sessionVars, registryVars, tun>>

(* validate_routes.                                                        *)
RoutesValid(ad) == Cardinality(ad) <= MaxSessionRoutes /\ ad \subseteq PermittedRanges

(* replace_routes up to its second lock: the handle is cloned under the    *)
(* first one, the advertisement validated under none.                      *)
BeginReplace(r) ==
  \E ad \in RouteAds :
    IF r \in streams /\ RoutesValid(ad)
      THEN /\ Goto(r, "active", "replacing")
           /\ next' = [next EXCEPT ![r] = ad]
           /\ UNCHANGED <<conn, quotaVars, pool, lease, assigned, receiver, toClient, routes,
                          registryVars, tun>>
      ELSE /\ Goto(r, "active", "unregister")
           /\ UNCHANGED <<conn, quotaVars, pool, lease, sessionVars, registryVars, tun>>

RoutesOfOthers(r) == {route \in registered : route.session # r}

(* Mutant: the capacity is checked before the new routes are counted.      *)
ReplaceableUncounted(r, ad) ==
  /\ Cardinality(RoutesOfOthers(r)) < MaxRegistryRoutes
  /\ \A range \in ad, route \in RoutesOfOthers(r) : ~ConflictsWith(range, route.range)

(* Mutant: conflicts are looked for under the first lock only.             *)
ReplaceableUnchecked(r, ad) ==
  Cardinality(RoutesOfOthers(r)) + Cardinality(ad) <= MaxRegistryRoutes

(* validate_replacement.                                                   *)
Replaceable(r, ad) ==
  /\ Cardinality(RoutesOfOthers(r)) + Cardinality(ad) <= MaxRegistryRoutes
  /\ \A range \in ad, route \in RoutesOfOthers(r) : ~ConflictsWith(range, route.range)

(* replace_routes from its second lock: the registry's routes and the      *)
(* session's change under it together.                                     *)
CommitReplace(r) ==
  IF r \in streams /\ Replaceable(r, next[r])
    THEN /\ Goto(r, "replacing", "active")
         /\ registered' = RoutesOfOthers(r) \cup {[range |-> range, session |-> r] : range \in next[r]}
         /\ routes' = [routes EXCEPT ![r] = next[r]]
         /\ next' = [next EXCEPT ![r] = {}]
         /\ UNCHANGED <<conn, quotaVars, pool, lease, assigned, receiver, toClient, streams,
                        addresses, tun>>
    ELSE /\ Goto(r, "replacing", "unregister")
         /\ next' = [next EXCEPT ![r] = {}]
         /\ UNCHANGED <<conn, quotaVars, pool, lease, assigned, receiver, toClient, routes,
                        registryVars, tun>>

(* drive_stream takes a packet from the queue and sends it to the client.  *)
SendToClient(r) ==
  /\ pc[r] = "active"
  /\ toClient[r] # <<>>
  /\ toClient' = [toClient EXCEPT ![r] = Tail(@)]
  /\ UNCHANGED <<conn, pc, quotaVars, pool, lease, assigned, receiver, routes, next,
                 registryVars, tun>>

------------------------------------------------------------------------------
(* Teardown: the drops at the end of handle(), or of its aborted future.   *)

(* Mutant: the leases are dropped before the receiver.                     *)
AfterLeaseFirst(phase) ==
  CASE phase = "unregister" -> "release4"
    [] phase = "release4"   -> "release6"
    [] phase = "release6"   -> "close"
    [] phase = "close"      -> "unquota"

(* The registration goes first, then the session's fields in the order of  *)
(* their declaration, then the quota permit.                               *)
After(phase) ==
  CASE phase = "unregister" -> "close"
    [] phase = "close"      -> "release4"
    [] phase = "release4"   -> "release6"
    [] phase = "release6"   -> "unquota"

(* Mutant: the addresses stay mapped to a session that is gone.            *)
UnregisterKeepsAddresses(r) ==
  /\ Goto(r, "unregister", After("unregister"))
  /\ streams' = streams \ {r}
  /\ registered' = RoutesOfOthers(r)
  /\ UNCHANGED <<conn, quotaVars, pool, lease, sessionVars, addresses, tun>>

(* IpRegistration::drop.                                                   *)
Unregister(r) ==
  /\ Goto(r, "unregister", After("unregister"))
  /\ IF r \in streams
       THEN /\ streams' = streams \ {r}
            /\ addresses' = [a \in PoolAddresses |-> IF addresses[a] = r THEN None ELSE addresses[a]]
            /\ registered' = RoutesOfOthers(r)
       ELSE UNCHANGED registryVars
  /\ UNCHANGED <<conn, quotaVars, pool, lease, sessionVars, tun>>

(* Mutant: the queue is closed, but what it holds can still be read.       *)
CloseReceiverKeepsQueue(r) ==
  /\ Goto(r, "close", After("close"))
  /\ receiver' = [receiver EXCEPT ![r] = "closed"]
  /\ UNCHANGED <<conn, quotaVars, pool, lease, assigned, toClient, routes, next,
                 registryVars, tun>>

(* The queue's receiver is dropped, with the packets still in it.          *)
CloseReceiver(r) ==
  /\ Goto(r, "close", After("close"))
  /\ receiver' = [receiver EXCEPT ![r] = "closed"]
  /\ toClient' = [toClient EXCEPT ![r] = <<>>]
  /\ UNCHANGED <<conn, quotaVars, pool, lease, assigned, routes, next, registryVars, tun>>

(* AddressLease::drop for the lease of one family, if there is one.        *)
ReleaseFamily(r, family, phase) ==
  /\ Goto(r, phase, After(phase))
  /\ IF \E a \in lease[r] : a[1] = family
       THEN \E a \in lease[r] :
              /\ a[1] = family
              /\ pool' = [pool EXCEPT ![family] = Release(@, a[2])]
              /\ lease' = [lease EXCEPT ![r] = @ \ {a}]
       ELSE UNCHANGED <<pool, lease>>
  /\ UNCHANGED <<conn, quotaVars, sessionVars, registryVars, tun>>

ReleaseIpv4(r) == ReleaseFamily(r, "ipv4", "release4")
ReleaseIpv6(r) == ReleaseFamily(r, "ipv6", "release6")

(* QuotaPermit::drop.                                                      *)
DropQuota(r) ==
  /\ Goto(r, "unquota", "done")
  /\ Discharge(PrincipalOf[r])
  /\ UNCHANGED <<conn, window, pool, lease, sessionVars, registryVars, tun>>

------------------------------------------------------------------------------
(* The TUN bridge (tun_bridge.rs): one task, one packet at a time.         *)

TunIdle == [stage |-> "idle", packet |-> None, session |-> None]

(* dispatch_tun under the registry's lock: the handle is cloned, and the   *)
(* lock released before the session is asked.                              *)
TunSelect ==
  /\ tun.stage = "idle"
  /\ \E packet \in Packets, r \in streams :
       /\ Selects(packet, r)
       /\ tun' = [stage |-> "validate", packet |-> packet, session |-> r]
  /\ UNCHANGED <<conn, pc, quotaVars, pool, lease, sessionVars, registryVars>>

(* validate_from_tun, on the handle's addresses and its current routes.    *)
TunValidate ==
  /\ tun.stage = "validate"
  /\ AcceptsFromTun(tun.session, tun.packet)
  /\ tun' = [tun EXCEPT !.stage = "enqueue"]
  /\ UNCHANGED <<conn, pc, quotaVars, pool, lease, sessionVars, registryVars>>

(* The packet is dropped: refused by a check, the limiter, a full queue or *)
(* a receiver that is gone.                                                *)
TunDrop ==
  /\ tun.stage # "idle"
  /\ tun' = TunIdle
  /\ UNCHANGED <<conn, pc, quotaVars, pool, lease, sessionVars, registryVars>>

TunEnqueue ==
  /\ tun.stage = "enqueue"
  /\ receiver[tun.session] = "open"
  /\ Len(toClient[tun.session]) < QueueCapacity
  /\ toClient' = [toClient EXCEPT ![tun.session] = Append(@, tun.packet)]
  /\ tun' = TunIdle
  /\ UNCHANGED <<conn, pc, quotaVars, pool, lease, assigned, receiver, routes, next, registryVars>>

Tun == TunSelect \/ TunValidate \/ TunDrop \/ TunEnqueue

------------------------------------------------------------------------------
(* What a request's task does by itself, once it is past an await.         *)
Run(r) ==
  \/ AcquireWindow(r) \/ Rollback(r)
  \/ LeaseIpv4(r) \/ LeaseIpv6(r) \/ Start(r)
  \/ Insert(r) \/ CommitReplace(r)
  \/ Unregister(r) \/ CloseReceiver(r) \/ ReleaseIpv4(r) \/ ReleaseIpv6(r) \/ DropQuota(r)

(* What the peer, the resolver or the network decides.                     *)
Peer(r) ==
  \/ Accept(r) \/ Reject(r) \/ AcquireActive(r)
  \/ FailBeforeInsert(r) \/ Respond(r)
  \/ FinishStream(r) \/ BeginReplace(r) \/ SendToClient(r)

Next ==
  \/ \E c \in Connections : StopConnection(c) \/ DrainTimeout(c)
  \/ \E r \in Requests : Run(r) \/ Peer(r) \/ Cancel(r)
  \/ \E p \in Principals : WindowElapses(p)
  \/ Tun

(* The runtime keeps running a task that is not parked, and the drain's    *)
(* timer fires.  A task with data to read may pass its awaits many times   *)
(* without being parked; the runtime's cooperative budget makes it yield,  *)
(* and an abort takes effect there: hence strong fairness of Cancel.       *)
Fairness ==
  /\ \A c \in Connections : WF_vars(DrainTimeout(c))
  /\ \A r \in Requests : WF_vars(Run(r)) /\ SF_vars(Cancel(r))

Spec == Init /\ [][Next]_vars

FairSpec == Spec /\ Fairness

------------------------------------------------------------------------------
ControlTypeOK ==
  /\ conn \in [Connections -> {"open", "draining", "aborted"}]
  /\ pc \in [Requests -> Phases]

QuotaTypeOK ==
  /\ active \in [Principals -> Nat]
  /\ window \in [Principals -> [count : Nat, elapsed : BOOLEAN]]

(* A pool of the family: its bounds are those of the configured network,   *)
(* and its cursor and leases stay among the usable addresses.              *)
PoolOK(f, p) ==
  /\ p \in [first : Nat, last : Nat, next : Nat, leased : SUBSET Nat]
  /\ p.first = UsableBounds(PoolOf[f]).first
  /\ p.last = UsableBounds(PoolOf[f]).last
  /\ p.next \in Usable(PoolOf[f])
  /\ p.leased \subseteq Usable(PoolOf[f])

PoolTypeOK ==
  /\ DOMAIN pool = ConfiguredFamilies
  /\ \A f \in ConfiguredFamilies : PoolOK(f, pool[f])
  /\ lease \in [Requests -> SUBSET PoolAddresses]

SessionTypeOK ==
  /\ assigned \in [Requests -> SUBSET PoolAddresses]
  /\ receiver \in [Requests -> {"none", "open", "closed"}]
  /\ toClient \in [Requests -> Seq(Packets)]
  /\ routes \in [Requests -> SUBSET AddressRange]
  /\ next \in [Requests -> SUBSET AddressRange]

RegistryTypeOK ==
  /\ streams \subseteq Requests
  /\ addresses \in [PoolAddresses -> Requests \cup {None}]
  /\ registered \subseteq [range : AddressRange, session : Requests]

TunTypeOK ==
  \/ tun = TunIdle
  \/ tun \in [stage : {"validate", "enqueue"}, packet : Packets, session : Requests]

(* Every variable has its type; the cursor and the leases of a pool stay   *)
(* among its usable addresses.                                             *)
TypeOK ==
  /\ ControlTypeOK
  /\ QuotaTypeOK
  /\ PoolTypeOK
  /\ SessionTypeOK
  /\ RegistryTypeOK
  /\ TunTypeOK

(* Every leased address has exactly one owner, the task that will give it  *)
(* back: no address is leased twice, and none stays leased when its owner  *)
(* is gone (AddressPoolSet::lease, AddressLease::drop).                    *)
LeaseOwnership ==
  /\ \A r, s \in Requests : r # s => lease[r] \cap lease[s] = {}
  /\ \A f \in ConfiguredFamilies : \A n \in Usable(PoolOf[f]) :
       n \in pool[f].leased <=> \E r \in Requests : <<f, n>> \in lease[r]
  /\ \A r \in Requests : pc[r] \in {"idle", "resolving", "done"} => lease[r] = {}

(* The registry maps an address to a session exactly while that session is *)
(* registered with it, and its lease outlives the mapping.                 *)
RegistryMatchesLeases ==
  /\ \A a \in PoolAddresses, r \in Requests :
       addresses[a] = r <=> r \in streams /\ a \in assigned[r]
  /\ \A r \in streams : assigned[r] = lease[r] /\ assigned[r] # {}

(* insert() never refuses a session: SessionRegistryConflict is            *)
(* unreachable, because a lease is given back after its address is         *)
(* unmapped.                                                               *)
NoRegistryConflict == \A r \in Requests : pc[r] = "accepted" => ~Conflict(r)

(* Whether some client's policy lets it advertise a route to the address.  *)
Routable(address) == \E range \in PermittedRanges : Contains(range, address)

(* A packet for an address that no policy lets a client route waits only   *)
(* in the queue of the session that holds the lease of the address, for    *)
(* all the stale handles the TUN bridge may hold.                          *)
QueueOwnership ==
  \A r \in Requests : \A i \in DOMAIN toClient[r] :
    LET address == toClient[r][i].destination
    IN  ~Routable(address) => address \in lease[r]

(* No two sessions hold routes that conflict, although each checked its    *)
(* advertisement before it took the lock it commits under; the registry    *)
(* and the sessions agree on the routes, and no route outlives its         *)
(* session's registration.                                                 *)
RoutesExclusive ==
  /\ \A x, y \in registered : x.session # y.session => ~ConflictsWith(x.range, y.range)
  /\ registered = UNION {{[range |-> range, session |-> r] : range \in routes[r]} : r \in streams}

(* A packet that is not ICMP is permitted by the routes of at most one     *)
(* session, so that the order of the routes never decides where it goes.   *)
RouteSelectionUnambiguous ==
  \A x, y \in registered : x.session # y.session =>
    \A n \in x.range.start..x.range.end, protocol \in (0..255) \ Icmp :
      ~(Permits(x.range, <<x.range.family, n>>, protocol)
        /\ Permits(y.range, <<x.range.family, n>>, protocol))

(* Neither the registry nor a session ever holds more routes than its      *)
(* limit, although the registry's is checked against routes that other     *)
(* sessions replace meanwhile.                                             *)
RouteTablesBounded ==
  /\ Cardinality(registered) <= MaxRegistryRoutes
  /\ \A r \in Requests : Cardinality(routes[r]) <= MaxSessionRoutes

------------------------------------------------------------------------------
(* The inductive invariant behind the properties above: what a request's   *)
(* task owns in each phase, and what a stale handle still guarantees.      *)

(* The phases before a session exists.                                     *)
Preparing == {"idle", "resolving", "window", "rollback", "lease4", "lease6", "start"}

LeaseByPhase ==
  \A r \in Requests :
    /\ pc[r] \in {"idle", "resolving", "window", "rollback", "lease4", "unquota", "done"}
         => lease[r] = {}
    /\ pc[r] = "lease6" => \A a \in lease[r] : a[1] = "ipv4"
    /\ pc[r] = "release6" => \A a \in lease[r] : a[1] = "ipv6"
    /\ \A a, b \in lease[r] : a[1] = b[1] => a = b

SessionByPhase ==
  \A r \in Requests :
    /\ pc[r] \in Serving => assigned[r] = lease[r] /\ lease[r] # {} /\ receiver[r] = "open"
    /\ pc[r] \notin Serving => receiver[r] # "open" /\ toClient[r] = <<>>
    /\ r \in streams <=> pc[r] \in Mapped
    /\ pc[r] \in Preparing \cup {"provisioned", "accepted"} => routes[r] = {}
    /\ routes[r] \subseteq PermittedRanges /\ next[r] \subseteq PermittedRanges

QueueByHandle ==
  \A r \in Requests : \A i \in DOMAIN toClient[r] :
    LET address == toClient[r][i].destination
    IN  ~Routable(address) => address \in assigned[r]

TunByHandle ==
  tun.stage # "idle" =>
    /\ pc[tun.session] \notin Preparing
    /\ tun.stage = "enqueue" /\ ~Routable(tun.packet.destination)
         => tun.packet.destination \in assigned[tun.session]

(* The routes a session holds, and those it waits to commit, were one      *)
(* advertisement of a length that was checked.                             *)
RoutesByAdvertisement ==
  \A r \in Requests :
    /\ routes[r] = {} \/ (routes[r] \in RouteAds /\ RoutesValid(routes[r]))
    /\ next[r] = {} \/ (next[r] \in RouteAds /\ RoutesValid(next[r]))

Inv ==
  /\ TypeOK
  /\ LeaseOwnership
  /\ LeaseByPhase
  /\ SessionByPhase
  /\ RoutesByAdvertisement
  /\ RegistryMatchesLeases
  /\ RoutesExclusive
  /\ QueueByHandle
  /\ TunByHandle

------------------------------------------------------------------------------
(* Once a connection is told to stop, every request it accepted comes to   *)
(* its end, by itself or by the abort that follows drain_timeout.          *)
DrainCompletes ==
  \A r \in Requests :
    conn[ConnectionOf[r]] # "open" ~> pc[r] \in {"idle", "done"}

(* Once all connections are told to stop, everything that was taken is     *)
(* eventually given back: the pools are whole, the registry is empty, the  *)
(* quotas are unused and no queue is left open.                            *)
AllReturned ==
  /\ \A f \in ConfiguredFamilies : pool[f].leased = {}
  /\ streams = {} /\ registered = {}
  /\ \A a \in PoolAddresses : addresses[a] = None
  /\ \A p \in Principals : active[p] = 0
  /\ \A r \in Requests : receiver[r] # "open" /\ toClient[r] = <<>>

ShutdownReturnsEverything == (\A c \in Connections : conn[c] # "open") ~> []AllReturned

(* Who may read the packets for each address: whoever holds its lease.     *)
LeaseOwner ==
  [a \in PoolAddresses |->
    IF \E r \in Requests : a \in lease[r]
      THEN CHOOSE r \in Requests : a \in lease[r] ELSE None]

(* The sessions implement the abstract ownership of addresses: an address  *)
(* changes hands only after its owner's queue is gone.                     *)
Ownership == INSTANCE AddressOwnership WITH
  Sessions <- Requests, Addresses <- PoolAddresses, Routed <- Routable,
  owner <- LeaseOwner, inbox <- toClient
ImplementsOwnership == Ownership!Spec

==============================================================================
