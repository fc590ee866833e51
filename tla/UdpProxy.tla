------------------------------ MODULE UdpProxy ------------------------------
(***************************************************************************)
(* A CONNECT-UDP request from its admission to the return of what it took  *)
(* (request.rs, auth.rs, policy.rs, proxy/resolver.rs, session.rs,         *)
(* proxy/udp.rs): many requests on several connections, one limit per      *)
(* principal, and a configuration that a reload swaps under them.          *)
(*                                                                         *)
(* A step is what a task does under one mutex or between two awaits.  What *)
(* a request holds goes back in the step that ends it, whether the code    *)
(* drops it by name or the future is dropped: the locals go with it.       *)
(***************************************************************************)
EXTENDS Naturals, FiniteSets, Sequences, FiniteSetsExt

CONSTANTS Requests, ConnectionOf,  \* [Requests -> connections]
          Asks,          \* what a request presents: [credential, certificate, host]
          Names, Addresses,        \* hosts of a target: a name, or the address itself
          Private,       \* the addresses that classify_address finds not global
          Ipv6,          \* the addresses of that family
          Configs,       \* the configurations a reload may bring, a sequence of records
          MaxPendingDns, \* MAX_PENDING_DNS
          EgressQueue,   \* EGRESS_QUEUE
          Window,        \* sixty seconds, in ticks of the clock
          MaxTime,       \* a bound on the clock
          Datagrams,     \* the connections whose peer takes QUIC datagrams
          None

ASSUME UdpAssumption ==
    /\ Names \cap Addresses = {} /\ None \notin Addresses
    /\ None \notin [started : 0..MaxTime, count : Nat]
    /\ MaxPendingDns \in Nat \ {0} /\ EgressQueue \in Nat \ {0} /\ Window \in Nat \ {0}
    /\ MaxTime \in Nat
ASSUME RequestsAssumption ==
    /\ IsFiniteSet(Requests) /\ 1 \in DOMAIN Configs
    /\ \A r \in Requests : Asks[r].host \in Names \cup Addresses
    /\ \A v \in DOMAIN Configs : Configs[v].mode \in {"none", "bearer", "mtls", "either"}
(* validate_policy: no limit of a role is zero.  With one of zero new tunnels *)
(* a refusal could begin a window, and two full ones could follow it.         *)
ASSUME LimitsAssumption ==
    \A v \in DOMAIN Configs : \A n \in DOMAIN Configs[v].roles :
        /\ Configs[v].roles[n].tunnels \in Nat \ {0}
        /\ Configs[v].roles[n].new \in Nat \ {0}

VARIABLES now,
          version,    \* the configuration in force
          snap,       \* the one a request was accepted under
          pc,         \* where a request is
          who, dest,  \* its principal and its target's address
          active, window,  \* QuotaState
          admitted,   \* whom the windows have let in, for which request, and when
          fwd,        \* the forwarder's task, which owns the socket
          egress,     \* packets queued for a client without QUIC datagrams
          registry    \* the streams in their connections' SessionRegistry

vars == <<now, version, snap, pc, who, dest, active, window, admitted, fwd,
          egress, registry>>
request == <<snap, who, dest>>
quota   == <<active, window, admitted>>
tunnel  == <<fwd, egress, registry>>

Config(r)  == Configs[snap[r]]
Principals == (UNION {DOMAIN Configs[v].principals : v \in DOMAIN Configs}) \cup {"anonymous"}

TypeOK ==
    /\ now \in 0..MaxTime /\ version \in DOMAIN Configs
    /\ snap \in [Requests -> DOMAIN Configs]
    /\ pc \in [Requests -> {"idle", "accepted", "lookup", "charge", "window", "refund", "open",
                            "respond", "driving", "writing", "done"}]
    /\ who \in [Requests -> Principals \cup {None}] /\ dest \in [Requests -> Addresses \cup {None}]
    /\ active \in [Principals -> Nat] /\ window \in [Principals -> [started : 0..MaxTime, count : Nat] \cup {None}]
    /\ admitted \subseteq [request : Requests, principal : Principals, at : 0..MaxTime]
    /\ fwd \in [Requests -> {"none", "running", "ended"}]
    /\ egress \in [Requests -> 0..EgressQueue] /\ registry \subseteq Requests

Init ==
    /\ now = 0 /\ version = 1
    /\ snap = [r \in Requests |-> 1]
    /\ pc = [r \in Requests |-> "idle"]
    /\ who = [r \in Requests |-> None] /\ dest = [r \in Requests |-> None]
    /\ active = [p \in Principals |-> 0]
    /\ window = [p \in Principals |-> None]
    /\ admitted = {}
    /\ fwd = [r \in Requests |-> "none"]
    /\ egress = [r \in Requests |-> 0] /\ registry = {}

----------------------------------------------------------------------------
(* Who asks, and what for (auth.rs, policy.rs).  A credential is a token with *)
(* its secret right or wrong; a token that is disabled was never compiled.    *)

Failed(error) == [ok |-> FALSE, error |-> error, principal |-> None]
Known(c, p)   == IF p \in DOMAIN c.principals
                 THEN [ok |-> TRUE, error |-> None, principal |-> p]
                 ELSE Failed("unknown principal")

Token(c, credential) ==
    IF credential = None THEN Failed("missing")
    ELSE IF credential.token \notin DOMAIN c.tokens \/ ~credential.secret THEN Failed("invalid")
    ELSE IF c.tokens[credential.token].expires <= now THEN Failed("expired")
    ELSE Known(c, c.tokens[credential.token].principal)

Certificate(c, certificate) ==
    IF certificate \in DOMAIN c.certificates THEN Known(c, c.certificates[certificate])
    ELSE Failed("missing")

(* With both allowed, a certificate stands in for a credential that fails.   *)
Authenticate(c, ask) ==
    LET token == Token(c, ask.credential)
        cert  == Certificate(c, ask.certificate)
    IN CASE c.mode = "none"   -> IF c.required THEN Failed("missing")
                                 ELSE [ok |-> TRUE, error |-> None, principal |-> "anonymous"]
         [] c.mode = "bearer" -> token
         [] c.mode = "mtls"   -> cert
         [] c.mode = "either" -> IF token.ok \/ ~cert.ok THEN token ELSE cert

(* The roles of a principal add up, but for the limits, where the least of   *)
(* each counts, and none at all is a limit of nothing.                       *)
Roles(c, p) ==
    {c.roles[n] : n \in DOMAIN c.roles \cap (IF p = "anonymous" THEN DOMAIN c.roles
                                             ELSE c.principals[p])}

Capable(c, p) == \E role \in Roles(c, p) : "connect-udp" \in role.capabilities

DestinationAllowed(role, a) ==
    ~(role.denyPrivate /\ a \in Private) /\ a \in role.allow /\ a \notin role.deny

Authorized(c, p, a) == \E role \in Roles(c, p) : DestinationAllowed(role, a)

LimitsOf(c, p) ==
    IF Roles(c, p) = {} THEN [tunnels |-> 0, new |-> 0]
    ELSE [tunnels |-> Min({role.tunnels : role \in Roles(c, p)}),
          new     |-> Min({role.new : role \in Roles(c, p)})]

(* Of the addresses of a name, the allowed ones of the preferred family      *)
(* first, in the order of a sorted set.                                      *)
Candidates(c, p, answers) ==
    LET allowed   == {a \in answers : Authorized(c, p, a)}
        preferred == {a \in allowed : (a \in Ipv6) = c.preferIpv6}
    IN IF preferred # {} THEN preferred ELSE allowed

----------------------------------------------------------------------------
(* The request's task. *)

Tick ==
    /\ now < MaxTime /\ now' = now + 1
    /\ UNCHANGED <<version, request, pc, quota, tunnel>>

(* TransportContext::reload, of a configuration it may swap in. *)
Reload ==
    /\ version' \in DOMAIN Configs \ {version}
    /\ UNCHANGED <<now, request, pc, quota, tunnel>>

(* drive_connection: http3.accept(), with a snapshot of the configuration. *)
Accept(r) ==
    /\ pc[r] = "idle"
    /\ pc' = [pc EXCEPT ![r] = "accepted"] /\ snap' = [snap EXCEPT ![r] = version]
    /\ UNCHANGED <<now, version, who, dest, quota, tunnel>>

Move(r, from, to) == pc[r] = from /\ pc' = [pc EXCEPT ![r] = to]

(* The end of the future: its principal, target and snapshot go with it. *)
Ends(r, from) ==
    /\ Move(r, from, "done")
    /\ snap' = [snap EXCEPT ![r] = 1]
    /\ who' = [who EXCEPT ![r] = None] /\ dest' = [dest EXCEPT ![r] = None]

(* The drop of a QuotaPermit. *)
PermitReturned(r) == active' = [active EXCEPT ![who[r]] = @ - 1]

Rejected(r, from) == Ends(r, from) /\ UNCHANGED active

(* The drop of a tunnel: its permit, its registration and its queue.  Its    *)
(* forwarder is told to end, and ends when it next awaits.                   *)
Leaves(r, from) ==
    /\ Ends(r, from) /\ PermitReturned(r)
    /\ registry' = registry \ {r} /\ egress' = [egress EXCEPT ![r] = 0]

Lookups == {r \in Requests : pc[r] = "lookup"}

(* handle_udp() up to the resolver: no await, nothing held. *)
Admit(r) ==
    LET c    == Config(r)
        auth == Authenticate(c, Asks[r])
        host == Asks[r].host
        allowed == /\ c.enabled /\ auth.ok /\ Capable(c, auth.principal)
                   /\ IF host \in Names THEN Cardinality(Lookups) < MaxPendingDns
                      ELSE Authorized(c, auth.principal, host)
    IN /\ pc[r] = "accepted"
       /\ \/ ~allowed /\ Rejected(r, "accepted")
          \/ /\ allowed
             /\ Move(r, "accepted", IF host \in Names THEN "lookup" ELSE "charge")
             /\ who' = [who EXCEPT ![r] = auth.principal]
             /\ dest' = [dest EXCEPT ![r] = IF host \in Names THEN None ELSE host]
             /\ UNCHANGED <<snap, active>>
       /\ UNCHANGED <<now, version, window, admitted, tunnel>>

(* lookup_addresses(): the permit is given back with whatever comes first, an *)
(* answer, an error, too many addresses or five seconds.                      *)
Resolve(r) ==
    /\ pc[r] = "lookup"
    /\ \/ Rejected(r, "lookup")
       \/ \E answers \in SUBSET Addresses \ {{}} :
             \E a \in Candidates(Config(r), who[r], answers) :
                /\ Move(r, "lookup", "charge")
                /\ dest' = [dest EXCEPT ![r] = a] /\ UNCHANGED <<snap, who, active>>
    /\ UNCHANGED <<now, version, window, admitted, tunnel>>

(* QuotaState::acquire, one step per mutex. *)
Charge(r) ==
    LET p == who[r]
    IN /\ pc[r] = "charge"
       /\ \/ /\ active[p] < LimitsOf(Config(r), p).tunnels
             /\ Move(r, "charge", "window") /\ active' = [active EXCEPT ![p] = @ + 1]
             /\ UNCHANGED request
          \/ /\ active[p] >= LimitsOf(Config(r), p).tunnels
             /\ Rejected(r, "charge")
       /\ UNCHANGED <<now, version, window, admitted, tunnel>>

Fresh == [started |-> now, count |-> 0]

(* Mutant: a new window forgets the count and not the start. *)
MutantCurrent(w) ==
    IF w = None THEN Fresh ELSE IF now - w.started >= Window THEN [w EXCEPT !.count = 0] ELSE w

Current(w) == IF w = None THEN Fresh ELSE IF now - w.started >= Window THEN Fresh ELSE w

EnterWindow(r) ==
    LET p == who[r]
        w == Current(window[p])
    IN /\ pc[r] = "window"
       /\ IF w.count < LimitsOf(Config(r), p).new
          THEN /\ Move(r, "window", "open")
               /\ window' = [window EXCEPT ![p] = [w EXCEPT !.count = @ + 1]]
               /\ admitted' = admitted \cup {[request |-> r, principal |-> p, at |-> now]}
          ELSE /\ Move(r, "window", "refund")
               /\ window' = [window EXCEPT ![p] = w] /\ UNCHANGED admitted
       /\ UNCHANGED <<now, version, request, active, tunnel>>

(* Mutant: a request refused by its window is not taken off the count. *)
MutantRefund(r) ==
    Rejected(r, "refund") /\ UNCHANGED <<now, version, window, admitted, tunnel>>

(* The refusal takes the charge back, under the first mutex again. *)
Refund(r) ==
    /\ Ends(r, "refund") /\ PermitReturned(r)
    /\ UNCHANGED <<now, version, window, admitted, tunnel>>

(* udp::start_with_stats: the socket is the forwarder's from here on. *)
Open(r) ==
    /\ \/ /\ Move(r, "open", "respond") /\ fwd' = [fwd EXCEPT ![r] = "running"]
          /\ UNCHANGED <<request, active>>
       \/ Ends(r, "open") /\ PermitReturned(r) /\ UNCHANGED fwd
    /\ UNCHANGED <<now, version, window, admitted, egress, registry>>

(* Only after the response has left is the stream in the registry. *)
Respond(r) ==
    /\ \/ /\ Move(r, "respond", "driving") /\ registry' = registry \cup {r}
          /\ UNCHANGED <<request, active, egress>>
       \/ Leaves(r, "respond")
    /\ UNCHANGED <<now, version, window, admitted, fwd>>

(* drive_proxy_stream: the peer ends the stream or sends what no capsule may *)
(* hold, or the stream does not take what is written.                        *)
PeerEnds(r) ==
    /\ Leaves(r, "driving") \/ Leaves(r, "writing")
    /\ UNCHANGED <<now, version, window, admitted, fwd>>

(* Mutant: the branch for the end of the queue never matches. *)
MutantForwarderGone(r) == FALSE /\ UNCHANGED vars

ForwarderGone(r) ==
    /\ fwd[r] = "ended" /\ egress[r] = 0
    /\ Leaves(r, "driving")
    /\ UNCHANGED <<now, version, window, admitted, fwd>>

(* A payload goes out as a capsule, and the loop waits until the stream has  *)
(* room for it, for as long as the peer likes.                               *)
TakeEgress(r) ==
    /\ egress[r] > 0 /\ Move(r, "driving", "writing")
    /\ egress' = [egress EXCEPT ![r] = @ - 1]
    /\ UNCHANGED <<now, version, request, quota, fwd, registry>>

PeerReads(r) ==
    /\ Move(r, "writing", "driving")
    /\ UNCHANGED <<now, version, request, quota, tunnel>>

(* The connection's drain, or its end, drops the future where it awaits. *)
Cancel(r) ==
    /\ \/ /\ pc[r] \in {"idle", "accepted", "lookup"} /\ Rejected(r, pc[r])
          /\ UNCHANGED <<egress, registry>>
       \/ pc[r] \in {"open", "respond", "driving", "writing"} /\ Leaves(r, pc[r])
    /\ UNCHANGED <<now, version, window, admitted, fwd>>

----------------------------------------------------------------------------
(* The forwarder. *)

(* A packet of the target: the client's rate allows it, and it leaves as a   *)
(* QUIC datagram, or into the queue if there is room.                        *)
Receive(r) ==
    /\ fwd[r] = "running" /\ ConnectionOf[r] \notin Datagrams
    /\ pc[r] \in {"respond", "driving", "writing"} /\ egress[r] < EgressQueue
    /\ egress' = [egress EXCEPT ![r] = @ + 1]
    /\ UNCHANGED <<now, version, request, pc, quota, fwd, registry>>

(* Idle for too long, an error of the socket, or the abort. *)
ForwarderEnds(r) ==
    /\ fwd[r] = "running"
    /\ fwd' = [fwd EXCEPT ![r] = "ended"]
    /\ UNCHANGED <<now, version, request, pc, quota, egress, registry>>

Drive(r) == ForwarderGone(r) \/ TakeEgress(r)

Next ==
    \/ Tick \/ Reload
    \/ \E r \in Requests :
          \/ Accept(r) \/ Admit(r) \/ Resolve(r) \/ Charge(r) \/ EnterWindow(r) \/ Refund(r)
          \/ Open(r) \/ Respond(r) \/ PeerEnds(r) \/ Drive(r) \/ PeerReads(r)
          \/ Cancel(r) \/ Receive(r) \/ ForwarderEnds(r)

Spec == Init /\ [][Next]_vars

(* The loop of drive_proxy_stream is run when a branch of it is ready;       *)
(* nothing is asked of the peer, of the network or of other tasks.           *)
Fairness == \A r \in Requests : WF_vars(Drive(r))

FairSpec == Spec /\ Fairness

----------------------------------------------------------------------------
Holds(r) == pc[r] \in {"window", "refund", "open", "respond", "driving", "writing"}

(* The count of a principal's tunnels is that of the requests that hold a    *)
(* permit: the roll-back in acquire, and every drop, on whichever path the   *)
(* request ends (session.rs:45-83, request.rs:237-307).                      *)
QuotaConserved ==
    \A p \in Principals : active[p] = Cardinality({r \in Requests : who[r] = p /\ Holds(r)})

(* A socket lives no longer than its request, but for the moment an aborted  *)
(* task needs, and sends where the roles of its principal allow, in the      *)
(* configuration it was accepted under: the address that was checked is the  *)
(* one connected to (request.rs:209-263, resolver.rs:49-73).                 *)
SocketAuthorized ==
    \A r \in Requests : fwd[r] # "none" =>
        \/ pc[r] = "done"
        \/ /\ pc[r] \in {"respond", "driving", "writing"}
           /\ Authorized(Config(r), who[r], dest[r])

(* A stream's datagrams find their session exactly while it is driven. *)
RegistryFollowsRequests == registry = {r \in Requests : pc[r] \in {"driving", "writing"}}

(* What is decided at the admission, and about the address, stays decided to  *)
(* the end of the request: nothing reads the configuration in force again.    *)
DecidedOnce ==
    \A r \in Requests :
        /\ pc[r] \notin {"idle", "accepted", "done"} => who[r] \in Principals
        /\ pc[r] \notin {"idle", "accepted", "lookup", "done"} =>
              dest[r] \in Addresses /\ Authorized(Config(r), who[r], dest[r])

TaskInv == TypeOK /\ QuotaConserved /\ SocketAuthorized /\ RegistryFollowsRequests /\ DecidedOnce

(* The configurations that know a principal.                                 *)
Knowing(p) ==
    {Configs[v] : v \in {u \in DOMAIN Configs :
                            p \in DOMAIN Configs[u].principals \cup {"anonymous"}}}

(* Who is past the admission is known to its configuration, with a role.     *)
KnownPrincipals ==
    \A r \in Requests : pc[r] \notin {"idle", "accepted", "done"} =>
        Config(r) \in Knowing(who[r]) /\ Roles(Config(r), who[r]) # {}

(* A request is let in once, and goes on to its tunnel.                      *)
AdmittedOnce ==
    /\ IsFiniteSet(admitted)
    /\ \A a \in admitted :
          a.at <= now /\ pc[a.request] \in {"open", "respond", "driving", "writing", "done"}

Admissions(p) == {a \in admitted : a.principal = p}

(* Those of the window that began at s, and those of the sixty seconds       *)
(* before it.                                                                *)
Since(p, s)  == {a \in Admissions(p) : a.at >= s}
Before(p, s) == {a \in Admissions(p) : a.at < s /\ s < a.at + Window}

(* A window begins with a tunnel and counts the tunnels since; of the window *)
(* before it, that first tunnel is at least sixty seconds old.               *)
WindowBegins(p, s, count) ==
    /\ s <= now
    /\ \E a \in Admissions(p) : a.at = s
    /\ \A a \in Admissions(p) : a.at < s + Window
    /\ count = Cardinality(Since(p, s))
    /\ \E c \in Knowing(p) : count <= LimitsOf(c, p).new
    /\ \/ Before(p, s) = {}
       \/ \E c \in Knowing(p) : Cardinality(Before(p, s)) < LimitsOf(c, p).new

WindowsCount ==
    \A p \in Principals :
        IF window[p] = None THEN Admissions(p) = {}
        ELSE WindowBegins(p, window[p].started, window[p].count)

Inv == TaskInv /\ KnownPrincipals /\ AdmittedOnce /\ WindowsCount

(* A window is fixed and not sliding, but it begins with a tunnel: within    *)
(* any sixty seconds a principal starts fewer than twice the                 *)
(* new_tunnels_per_minute of some configuration, whichever mutex, request or *)
(* reload comes between (session.rs:46-64).                                  *)
NeverTwiceTheLimit ==
    \A p \in Principals, t \in 0..MaxTime :
        LET started == {a \in admitted : a.principal = p /\ a.at \in t..(t + Window - 1)}
        IN  started # {} =>
              \E c \in Knowing(p) : Cardinality(started) < 2 * LimitsOf(c, p).new

(* When the forwarder has ended, idle or by an error, the tunnel's permit    *)
(* and its registration come back, unless the peer stops reading its stream  *)
(* for ever: drive_proxy_stream (request.rs:285-301) and the drops after it. *)
EndedTunnelIsReturned ==
    \A r \in Requests :
        \/ <>[](pc[r] \in {"respond", "writing"})
        \/ (fwd[r] = "ended" ~> pc[r] = "done" /\ ~Holds(r) /\ r \notin registry)
=============================================================================
