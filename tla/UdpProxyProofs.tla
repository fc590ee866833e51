---------------------------- MODULE UdpProxyProofs ----------------------------
(***************************************************************************)
(* Proofs about UdpProxy, for any finite number of requests on any         *)
(* connections, any configurations and any length of time.                 *)
(***************************************************************************)
EXTENDS UdpProxy, FiniteSetTheorems, TLAPS

Phases == {"idle", "accepted", "lookup", "charge", "window", "refund", "open",
           "respond", "driving", "writing", "done"}
Entry  == [started : 0..MaxTime, count : Nat]

(* The step of one request leaves the others where they are.                 *)
Alone(r) == \A x \in Requests \ {r} : /\ pc'[x] = pc[x] /\ who'[x] = who[x] /\ dest'[x] = dest[x]
                                       /\ snap'[x] = snap[x]

(* A move of a request's task.                                               *)
LEMMA MoveEffect ==
    ASSUME TypeOK, NEW r \in Requests, NEW from, NEW to \in Phases, Move(r, from, to)
    PROVE  /\ pc[r] = from /\ pc'[r] = to /\ pc' \in [Requests -> Phases]
           /\ \A x \in Requests \ {r} : pc'[x] = pc[x]
BY DEF Move, TypeOK, Phases

(* The end of a request's future: principal, target and snapshot go with it. *)
LEMMA EndsEffect ==
    ASSUME TypeOK, NEW r \in Requests, NEW from, Ends(r, from)
    PROVE  /\ pc[r] = from /\ pc'[r] = "done" /\ pc' \in [Requests -> Phases]
           /\ snap' \in [Requests -> DOMAIN Configs]
           /\ who' \in [Requests -> Principals \cup {None}] /\ who'[r] = None
           /\ dest' \in [Requests -> Addresses \cup {None}]
           /\ Alone(r)
<1>1. pc[r] = from /\ pc'[r] = "done" /\ pc' \in [Requests -> Phases]
      /\ \A x \in Requests \ {r} : pc'[x] = pc[x]
  BY MoveEffect DEF Ends, Phases
<1> QED BY <1>1, RequestsAssumption DEF Ends, TypeOK, Alone

(* Whatever is presented, who is authenticated is known to the configuration *)
(* (auth.rs).                                                                *)
LEMMA AuthenticatedKnown ==
    ASSUME NEW v \in DOMAIN Configs, NEW ask, Authenticate(Configs[v], ask).ok
    PROVE  Configs[v] \in Knowing(Authenticate(Configs[v], ask).principal)
<1> DEFINE c == Configs[v]
<1>0. \A p \in DOMAIN c.principals \cup {"anonymous"} : c \in Knowing(p)
  BY DEF Knowing
<1>1. ASSUME NEW p, Known(c, p).ok PROVE c \in Knowing(Known(c, p).principal)
  BY <1>0, <1>1 DEF Known, Failed
<1>2. ASSUME NEW e PROVE ~Failed(e).ok
  BY DEF Failed
<1>3. ASSUME NEW credential, Token(c, credential).ok
      PROVE  c \in Knowing(Token(c, credential).principal)
  <2>1. Token(c, credential) = Known(c, c.tokens[credential.token].principal)
    BY <1>2, <1>3 DEF Token
  <2> QED BY <1>1, <1>3, <2>1
<1>4. ASSUME NEW certificate, Certificate(c, certificate).ok
      PROVE  c \in Knowing(Certificate(c, certificate).principal)
  <2>1. Certificate(c, certificate) = Known(c, c.certificates[certificate])
    BY <1>2, <1>4 DEF Certificate
  <2> QED BY <1>1, <1>4, <2>1
<1>5. CASE c.mode = "none"
  <2>1. Authenticate(c, ask) = [ok |-> TRUE, error |-> None, principal |-> "anonymous"]
    BY <1>2, <1>5 DEF Authenticate
  <2> QED BY <1>0, <2>1
<1>6. CASE c.mode = "bearer"
  BY <1>3, <1>6 DEF Authenticate
<1>7. CASE c.mode = "mtls"
  BY <1>4, <1>7 DEF Authenticate
<1>8. CASE c.mode = "either"
  BY <1>3, <1>4, <1>8 DEF Authenticate
<1> QED BY <1>5, <1>6, <1>7, <1>8, RequestsAssumption

LEMMA Authenticated ==
    ASSUME NEW v \in DOMAIN Configs, NEW ask, Authenticate(Configs[v], ask).ok
    PROVE  Authenticate(Configs[v], ask).principal \in Principals
BY AuthenticatedKnown DEF Knowing, Principals

----------------------------------------------------------------------------
(* The count of a principal's tunnels (session.rs).                          *)

HoldersOf(p) == {r \in Requests : who[r] = p /\ Holds(r)}

LEMMA HoldersFinite ==
    ASSUME NEW p
    PROVE  IsFiniteSet(HoldersOf(p)) /\ Cardinality(HoldersOf(p)) \in Nat
BY RequestsAssumption, FS_Subset, FS_CardinalityType DEF HoldersOf

(* A step that moves no permit.                                              *)
LEMMA PermitsStay ==
    ASSUME QuotaConserved, UNCHANGED active,
           \A x \in Requests : \/ (Holds(x)' = Holds(x) /\ who'[x] = who[x])
                               \/ (~Holds(x)' /\ ~Holds(x))
    PROVE  QuotaConserved'
<1>1. \A p \in Principals : HoldersOf(p)' = HoldersOf(p)
  BY DEF HoldersOf
<1> QED BY <1>1 DEF QuotaConserved, HoldersOf

(* A step that takes one (Charge).                                           *)
LEMMA PermitTaken ==
    ASSUME TypeOK, QuotaConserved, NEW r \in Requests, who[r] \in Principals,
           ~Holds(r), Holds(r)', who'[r] = who[r],
           active' = [active EXCEPT ![who[r]] = @ + 1],
           \A x \in Requests \ {r} : Holds(x)' = Holds(x) /\ who'[x] = who[x]
    PROVE  QuotaConserved' /\ active' \in [Principals -> Nat]
<1>1. active' \in [Principals -> Nat]
  BY DEF TypeOK
<1>2. ASSUME NEW p \in Principals PROVE active'[p] = Cardinality(HoldersOf(p)')
  <2>1. CASE p = who[r]
    <3>1. HoldersOf(p)' = HoldersOf(p) \cup {r} /\ r \notin HoldersOf(p)
      BY <2>1 DEF HoldersOf
    <3>2. Cardinality(HoldersOf(p)') = Cardinality(HoldersOf(p)) + 1
      BY <3>1, HoldersFinite, FS_AddElement
    <3> QED BY <2>1, <3>2 DEF QuotaConserved, HoldersOf, TypeOK
  <2>2. CASE p # who[r]
    <3>1. HoldersOf(p)' = HoldersOf(p)
      BY <2>2 DEF HoldersOf
    <3> QED BY <2>2, <3>1 DEF QuotaConserved, HoldersOf, TypeOK
  <2> QED BY <2>1, <2>2
<1> QED BY <1>1, <1>2 DEF QuotaConserved, HoldersOf

(* A step that gives one back: the drop of a QuotaPermit.                    *)
LEMMA PermitGiven ==
    ASSUME TypeOK, QuotaConserved, NEW r \in Requests, who[r] \in Principals,
           Holds(r), ~Holds(r)', PermitReturned(r),
           \A x \in Requests \ {r} : Holds(x)' = Holds(x) /\ who'[x] = who[x]
    PROVE  QuotaConserved' /\ active' \in [Principals -> Nat]
<1>0. active' = [active EXCEPT ![who[r]] = active[who[r]] - 1]
  BY DEF PermitReturned
<1>1. ASSUME NEW p \in Principals
      PROVE  active'[p] = Cardinality(HoldersOf(p)') /\ active'[p] \in Nat
  <2>1. CASE p = who[r]
    <3>1. HoldersOf(p)' = HoldersOf(p) \ {r} /\ r \in HoldersOf(p)
      BY <2>1 DEF HoldersOf
    <3>2. /\ Cardinality(HoldersOf(p)') = Cardinality(HoldersOf(p)) - 1
          /\ Cardinality(HoldersOf(p)') \in Nat
      BY <3>1, HoldersFinite, FS_RemoveElement, FS_CardinalityType
    <3> QED BY <1>0, <2>1, <3>2 DEF QuotaConserved, HoldersOf, TypeOK
  <2>2. CASE p # who[r]
    <3>1. HoldersOf(p)' = HoldersOf(p)
      BY <2>2 DEF HoldersOf
    <3> QED BY <1>0, <2>2, <3>1 DEF QuotaConserved, HoldersOf, TypeOK
  <2> QED BY <2>1, <2>2
<1>2. active' \in [Principals -> Nat]
  BY <1>0, <1>1 DEF TypeOK
<1> QED BY <1>1, <1>2 DEF QuotaConserved, HoldersOf

----------------------------------------------------------------------------
(* The steps.  A request's end, wherever it comes from: what it took is      *)
(* given back in the same step, but for the forwarder's socket.              *)

LEMMA EndStep ==
    ASSUME TaskInv, NEW r \in Requests, NEW from, Ends(r, from),
           \/ (UNCHANGED active /\ from \in {"idle", "accepted", "lookup", "charge"})
           \/ (PermitReturned(r) /\ from \in {"refund", "open", "respond", "driving", "writing"}),
           registry' = registry \ {r}, egress' \in [Requests -> 0..EgressQueue],
           UNCHANGED <<now, version, window, admitted, fwd>>
    PROVE  TaskInv'
<1> USE DEF TaskInv
<1>1. /\ pc[r] = from /\ pc'[r] = "done" /\ pc' \in [Requests -> Phases]
      /\ snap' \in [Requests -> DOMAIN Configs]
      /\ who' \in [Requests -> Principals \cup {None}] /\ who'[r] = None
      /\ dest' \in [Requests -> Addresses \cup {None}] /\ Alone(r)
  BY EndsEffect
<1>2. ~Holds(r)' /\ \A x \in Requests \ {r} : Holds(x)' = Holds(x) /\ who'[x] = who[x]
  BY <1>1 DEF Holds, Alone
<1>3. QuotaConserved' /\ active' \in [Principals -> Nat]
  <2>1. CASE UNCHANGED active /\ from \in {"idle", "accepted", "lookup", "charge"}
    <3>1. ~Holds(r)
      BY <1>1, <2>1 DEF Holds
    <3>2. \A x \in Requests : \/ (Holds(x)' = Holds(x) /\ who'[x] = who[x])
                               \/ (~Holds(x)' /\ ~Holds(x))
      BY <1>2, <3>1
    <3> QED BY <2>1, <3>2, PermitsStay DEF TypeOK
  <2>2. CASE PermitReturned(r) /\ from \in {"refund", "open", "respond", "driving", "writing"}
    <3>1. Holds(r) /\ who[r] \in Principals
      BY <1>1, <2>2 DEF Holds, DecidedOnce
    <3> QED BY <1>2, <2>2, <3>1, PermitGiven
  <2> QED BY <2>1, <2>2
<1>4. TypeOK'
  BY <1>1, <1>3 DEF TypeOK, Phases
<1>5. SocketAuthorized'
  BY <1>1 DEF SocketAuthorized, Alone, Config
<1>6. RegistryFollowsRequests'
  BY <1>1 DEF RegistryFollowsRequests, Alone
<1>7. DecidedOnce'
  BY <1>1 DEF DecidedOnce, Alone, Config
<1> QED BY <1>3, <1>4, <1>5, <1>6, <1>7

(* A future dropped before it holds a permit, and a tunnel dropped.          *)
LEMMA RejectedStep ==
    ASSUME TaskInv, NEW r \in Requests, NEW from \in {"idle", "accepted", "lookup", "charge"},
           Rejected(r, from), UNCHANGED <<now, version, window, admitted, tunnel>>
    PROVE  TaskInv'
<1>1. registry' = registry \ {r}
  BY DEF TaskInv, RegistryFollowsRequests, Rejected, Ends, Move, tunnel
<1> QED BY <1>1, EndStep DEF Rejected, tunnel, TaskInv, TypeOK

LEMMA LeavesStep ==
    ASSUME TaskInv, NEW r \in Requests, NEW from \in {"open", "respond", "driving", "writing"},
           Leaves(r, from), UNCHANGED <<now, version, window, admitted, fwd>>
    PROVE  TaskInv'
<1>1. egress' \in [Requests -> 0..EgressQueue]
  BY UdpAssumption DEF Leaves, TaskInv, TypeOK
<1> QED BY <1>1, EndStep DEF Leaves

(* A step that keeps the count: the request goes on as it was decided.       *)
LEMMA GoOnStep ==
    ASSUME TaskInv, NEW r \in Requests, NEW from, NEW to \in Phases, Move(r, from, to),
           UNCHANGED <<active, request>>,
           {from, to} \subseteq {"window", "refund", "open", "respond", "driving", "writing"}
    PROVE  QuotaConserved' /\ DecidedOnce'
<1>1. pc[r] = from /\ pc'[r] = to /\ \A x \in Requests \ {r} : pc'[x] = pc[x]
  BY MoveEffect DEF TaskInv
<1>2. \A x \in Requests : Holds(x)' = Holds(x) /\ who'[x] = who[x]
  BY <1>1 DEF Holds, request
<1>3. QuotaConserved'
  BY <1>2, PermitsStay DEF TaskInv
<1>4. DecidedOnce'
  BY <1>1 DEF TaskInv, DecidedOnce, Config, request
<1> QED BY <1>3, <1>4

(* The request's task, step by step (request.rs handle_udp).                 *)
LEMMA AcceptStep ==
    ASSUME TaskInv, NEW r \in Requests, Accept(r)
    PROVE  TaskInv'
<1> USE DEF TaskInv
<1>1. /\ pc' = [pc EXCEPT ![r] = "accepted"] /\ pc[r] = "idle"
      /\ snap' = [snap EXCEPT ![r] = version]
      /\ UNCHANGED <<now, version, who, dest, active, window, admitted, fwd, egress, registry>>
  BY DEF Accept, quota, tunnel
<1>2. TypeOK'
  BY <1>1 DEF TypeOK
<1>3. \A x \in Requests : /\ Holds(x)' = Holds(x) /\ who'[x] = who[x]
                          /\ x # r => pc'[x] = pc[x] /\ snap'[x] = snap[x]
  BY <1>1 DEF Holds, TypeOK
<1>4. QuotaConserved'
  BY <1>1, <1>3, PermitsStay
<1>5. SocketAuthorized' /\ RegistryFollowsRequests' /\ DecidedOnce'
  BY <1>1, <1>3 DEF SocketAuthorized, RegistryFollowsRequests, DecidedOnce, Config, TypeOK
<1> QED BY <1>2, <1>4, <1>5

LEMMA AdmitStep ==
    ASSUME TaskInv, NEW r \in Requests, Admit(r)
    PROVE  TaskInv'
<1> USE DEF TaskInv
<1> DEFINE auth == Authenticate(Config(r), Asks[r])
           host == Asks[r].host
<1>1. CASE Rejected(r, "accepted")
  BY <1>1, RejectedStep DEF Admit
<1>2. CASE /\ auth.ok /\ (host \notin Names => Authorized(Config(r), auth.principal, host))
           /\ Move(r, "accepted", IF host \in Names THEN "lookup" ELSE "charge")
           /\ who' = [who EXCEPT ![r] = auth.principal]
           /\ dest' = [dest EXCEPT ![r] = IF host \in Names THEN None ELSE host]
           /\ UNCHANGED <<snap, active>>
  <2>0. UNCHANGED <<now, version, window, admitted, fwd, egress, registry>>
    BY DEF Admit, tunnel
  <2>1. auth.principal \in Principals
    BY <1>2, Authenticated DEF Config, TypeOK
  <2>2. host \in Names \cup Addresses
    BY RequestsAssumption
  <2> HIDE DEF auth, host
  <2>3. /\ pc[r] = "accepted" /\ pc'[r] = (IF host \in Names THEN "lookup" ELSE "charge")
        /\ pc' \in [Requests -> Phases] /\ \A x \in Requests \ {r} : pc'[x] = pc[x]
    BY <1>2, MoveEffect DEF Phases
  <2>4. /\ who'[r] = auth.principal /\ dest'[r] = (IF host \in Names THEN None ELSE host)
        /\ who' \in [Requests -> Principals \cup {None}]
        /\ dest' \in [Requests -> Addresses \cup {None}]
        /\ \A x \in Requests \ {r} : who'[x] = who[x] /\ dest'[x] = dest[x]
    BY <1>2, <2>1, <2>2 DEF TypeOK
  <2>5. TypeOK'
    BY <1>2, <2>0, <2>3, <2>4 DEF TypeOK, Phases
  <2>6. QuotaConserved'
    <3>1. ~Holds(r)' /\ ~Holds(r) /\ \A x \in Requests \ {r} : Holds(x)' = Holds(x)
      BY <2>3 DEF Holds
    <3> QED BY <1>2, <2>4, <3>1, PermitsStay
  <2>7. SocketAuthorized'
    BY <1>2, <2>0, <2>3, <2>4 DEF SocketAuthorized, Config
  <2>8. RegistryFollowsRequests'
    BY <2>0, <2>3 DEF RegistryFollowsRequests
  <2>9. DecidedOnce'
    BY <1>2, <2>1, <2>2, <2>3, <2>4 DEF DecidedOnce, Config
  <2> QED BY <2>5, <2>6, <2>7, <2>8, <2>9
<1> QED BY <1>1, <1>2 DEF Admit

LEMMA ResolveStep ==
    ASSUME TaskInv, NEW r \in Requests, Resolve(r)
    PROVE  TaskInv'
<1> USE DEF TaskInv
<1>1. CASE Rejected(r, "lookup")
  BY <1>1, RejectedStep DEF Resolve
<1>2. ASSUME NEW answers \in SUBSET Addresses, NEW a \in Candidates(Config(r), who[r], answers),
             Move(r, "lookup", "charge"), dest' = [dest EXCEPT ![r] = a],
             UNCHANGED <<snap, who, active>>
      PROVE  TaskInv'
  <2>0. UNCHANGED <<now, version, window, admitted, fwd, egress, registry>>
    BY DEF Resolve, tunnel
  <2>1. a \in Addresses /\ Authorized(Config(r), who[r], a)
    BY DEF Candidates
  <2>2. /\ pc[r] = "lookup" /\ pc'[r] = "charge" /\ pc' \in [Requests -> Phases]
        /\ \A x \in Requests \ {r} : pc'[x] = pc[x]
    BY <1>2, MoveEffect DEF Phases
  <2>3. TypeOK'
    BY <1>2, <2>0, <2>1, <2>2 DEF TypeOK, Phases
  <2>4. QuotaConserved'
    <3>1. ~Holds(r)' /\ ~Holds(r) /\ \A x \in Requests \ {r} : Holds(x)' = Holds(x)
      BY <2>2 DEF Holds
    <3> QED BY <1>2, <3>1, PermitsStay
  <2>5. dest'[r] = a /\ \A x \in Requests \ {r} : dest'[x] = dest[x]
    BY <1>2 DEF TypeOK
  <2>6. SocketAuthorized'
    BY <1>2, <2>0, <2>2, <2>5 DEF SocketAuthorized, Config
  <2>7. RegistryFollowsRequests'
    BY <2>0, <2>2 DEF RegistryFollowsRequests
  <2>8. DecidedOnce'
    BY <1>2, <2>1, <2>2, <2>5 DEF DecidedOnce, Config
  <2> QED BY <2>3, <2>4, <2>6, <2>7, <2>8
<1> QED BY <1>1, <1>2 DEF Resolve

(* The first section of QuotaState::acquire: the count of active tunnels.     *)
LEMMA ChargeStep ==
    ASSUME TaskInv, NEW r \in Requests, Charge(r)
    PROVE  TaskInv'
<1> USE DEF TaskInv
<1>1. CASE Rejected(r, "charge")
  BY <1>1, RejectedStep DEF Charge
<1>2. CASE /\ Move(r, "charge", "window") /\ active' = [active EXCEPT ![who[r]] = @ + 1]
           /\ UNCHANGED request
  <2>0. UNCHANGED <<now, version, window, admitted, fwd, egress, registry, snap, who, dest>>
    BY <1>2 DEF Charge, tunnel, request
  <2>1. /\ pc[r] = "charge" /\ pc'[r] = "window" /\ pc' \in [Requests -> Phases]
        /\ \A x \in Requests \ {r} : pc'[x] = pc[x]
    BY <1>2, MoveEffect DEF Phases
  <2>2. QuotaConserved' /\ active' \in [Principals -> Nat]
    <3>1. ~Holds(r) /\ Holds(r)' /\ \A x \in Requests \ {r} : Holds(x)' = Holds(x)
      BY <2>1 DEF Holds
    <3>2. who[r] \in Principals
      BY <2>1 DEF DecidedOnce
    <3> QED BY <1>2, <2>0, <3>1, <3>2, PermitTaken
  <2>3. TypeOK'
    BY <2>0, <2>1, <2>2 DEF TypeOK, Phases
  <2>4. SocketAuthorized' /\ RegistryFollowsRequests' /\ DecidedOnce'
    BY <2>0, <2>1 DEF SocketAuthorized, RegistryFollowsRequests, DecidedOnce, Config
  <2> QED BY <2>2, <2>3, <2>4
<1> QED BY <1>1, <1>2 DEF Charge

(* The second section: the window of new tunnels.                            *)
LEMMA EnterStep ==
    ASSUME TaskInv, NEW r \in Requests, EnterWindow(r)
    PROVE  TaskInv'
<1> USE DEF TaskInv
<1> DEFINE p == who[r]
           w == Current(window[p])
<1>0. p \in Principals /\ pc[r] = "window"
  BY DEF EnterWindow, DecidedOnce
<1>1. w \in Entry
  BY <1>0, UdpAssumption DEF Current, Fresh, Entry, TypeOK
<1>2. UNCHANGED <<now, version, snap, who, dest, active, fwd, egress, registry>>
  BY DEF EnterWindow, request, tunnel
<1>3. \E to \in {"open", "refund"} : Move(r, "window", to)
  BY DEF EnterWindow
<1>4. window' \in [Principals -> Entry \cup {None}]
  <2>1. [w EXCEPT !.count = w.count + 1] \in Entry
    BY <1>1 DEF Entry
  <2>2. \/ window' = [window EXCEPT ![p] = [w EXCEPT !.count = w.count + 1]]
        \/ window' = [window EXCEPT ![p] = w]
    BY DEF EnterWindow
  <2>3. window \in [Principals -> Entry \cup {None}]
    BY DEF TypeOK, Entry
  <2> HIDE DEF w, p
  <2> QED BY <1>1, <2>1, <2>2, <2>3
<1>5. admitted' \subseteq [request : Requests, principal : Principals, at : 0..MaxTime]
  BY <1>0 DEF EnterWindow, TypeOK
<1>6. /\ pc' \in [Requests -> Phases] /\ pc'[r] \in {"open", "refund"}
      /\ \A x \in Requests \ {r} : pc'[x] = pc[x]
  BY <1>3, MoveEffect DEF Phases
<1>7. TypeOK'
  BY <1>2, <1>4, <1>5, <1>6 DEF TypeOK, Phases, Entry
<1>8. QuotaConserved' /\ DecidedOnce'
  BY <1>2, <1>3, GoOnStep DEF request, Phases
<1>9. SocketAuthorized' /\ RegistryFollowsRequests'
  BY <1>0, <1>2, <1>6 DEF SocketAuthorized, RegistryFollowsRequests, Config
<1> QED BY <1>7, <1>8, <1>9

(* The third section: a request that its window refused takes its charge     *)
(* back (session.rs).                                                        *)
LEMMA RefundStep ==
    ASSUME TaskInv, NEW r \in Requests, Refund(r)
    PROVE  TaskInv'
<1>1. /\ Ends(r, "refund") /\ PermitReturned(r)
      /\ UNCHANGED <<now, version, window, admitted, fwd, egress, registry>>
  BY DEF Refund, tunnel
<1>2. registry' = registry \ {r}
  BY <1>1 DEF TaskInv, RegistryFollowsRequests, Ends, Move
<1> QED BY <1>1, <1>2, EndStep DEF TaskInv, TypeOK

(* A tunnel that stays open: everything but the state of its task, its       *)
(* socket and its queue is left alone.                                       *)
LEMMA TunnelStep ==
    ASSUME TaskInv, NEW r \in Requests, NEW from \in {"open", "respond", "driving", "writing"},
           NEW to \in {"respond", "driving", "writing"}, Move(r, from, to),
           UNCHANGED <<now, version, request, quota>>,
           \A x \in Requests \ {r} : fwd'[x] = fwd[x],
           fwd' \in [Requests -> {"none", "running", "ended"}],
           egress' \in [Requests -> 0..EgressQueue],
           registry' = IF to \in {"driving", "writing"} THEN registry \cup {r} ELSE registry,
           from \in {"driving", "writing"} => to \in {"driving", "writing"}
    PROVE  TaskInv'
<1> USE DEF TaskInv
<1>1. /\ pc[r] = from /\ pc'[r] = to /\ pc' \in [Requests -> Phases]
      /\ \A x \in Requests \ {r} : pc'[x] = pc[x]
  BY MoveEffect DEF Phases
<1>2. UNCHANGED <<now, version, snap, who, dest, active, window, admitted>>
  BY DEF request, quota
<1>3. TypeOK'
  BY <1>1, <1>2 DEF TypeOK, Phases
<1>4. QuotaConserved' /\ DecidedOnce'
  BY <1>2, GoOnStep DEF request, Phases
<1>5. SocketAuthorized'
  <2>1. Authorized(Config(r), who[r], dest[r])
    BY <1>1 DEF DecidedOnce
  <2> QED BY <1>1, <1>2, <2>1 DEF SocketAuthorized, Config
<1>6. RegistryFollowsRequests'
  BY <1>1 DEF RegistryFollowsRequests
<1> QED BY <1>3, <1>4, <1>5, <1>6

(* The socket is opened, and the response written (request.rs, udp.rs).      *)
LEMMA OpenStep ==
    ASSUME TaskInv, NEW r \in Requests, Open(r)
    PROVE  TaskInv'
<1>1. CASE Move(r, "open", "respond") /\ fwd' = [fwd EXCEPT ![r] = "running"]
           /\ UNCHANGED <<request, active>>
  BY <1>1, TunnelStep DEF Open, TaskInv, TypeOK, quota
<1>2. CASE Ends(r, "open") /\ PermitReturned(r) /\ UNCHANGED fwd
  <2>1. registry' = registry \ {r}
    BY <1>2 DEF Open, TaskInv, RegistryFollowsRequests, Ends, Move
  <2> QED BY <1>2, <2>1, EndStep DEF Open, TaskInv, TypeOK
<1> QED BY <1>1, <1>2 DEF Open

LEMMA RespondStep ==
    ASSUME TaskInv, NEW r \in Requests, Respond(r)
    PROVE  TaskInv'
<1>1. CASE Move(r, "respond", "driving") /\ registry' = registry \cup {r}
           /\ UNCHANGED <<request, active, egress>>
  BY <1>1, TunnelStep DEF Respond, TaskInv, TypeOK, quota
<1> QED BY <1>1, LeavesStep DEF Respond

(* The loop of drive_proxy_stream, its peer, and the future dropped under    *)
(* it (request.rs).                                                          *)
LEMMA DriveSteps ==
    ASSUME TaskInv, NEW r \in Requests, PeerEnds(r) \/ Drive(r) \/ PeerReads(r) \/ Cancel(r)
    PROVE  TaskInv'
<1>1. CASE PeerEnds(r)
  BY <1>1, LeavesStep DEF PeerEnds
<1>2. CASE ForwarderGone(r)
  BY <1>2, LeavesStep DEF ForwarderGone
<1>3. CASE TakeEgress(r)
  <2>1. egress' \in [Requests -> 0..EgressQueue]
    BY <1>3, UdpAssumption DEF TakeEgress, TaskInv, TypeOK
  <2>2. registry = registry \cup {r}
    BY <1>3 DEF TakeEgress, Move, TaskInv, RegistryFollowsRequests
  <2> QED BY <1>3, <2>1, <2>2, TunnelStep DEF TakeEgress, TaskInv, TypeOK
<1>4. CASE PeerReads(r)
  <2>1. registry = registry \cup {r}
    BY <1>4 DEF PeerReads, Move, TaskInv, RegistryFollowsRequests
  <2> QED BY <1>4, <2>1, TunnelStep DEF PeerReads, TaskInv, TypeOK, tunnel
<1>5. CASE Cancel(r)
  <2>1. CASE /\ pc[r] \in {"idle", "accepted", "lookup"} /\ Rejected(r, pc[r])
             /\ UNCHANGED <<egress, registry>>
    BY <1>5, <2>1, RejectedStep DEF Cancel, tunnel
  <2>2. CASE pc[r] \in {"open", "respond", "driving", "writing"} /\ Leaves(r, pc[r])
    BY <1>5, <2>2, LeavesStep DEF Cancel
  <2> QED BY <1>5, <2>1, <2>2 DEF Cancel
<1> QED BY <1>1, <1>2, <1>3, <1>4, <1>5 DEF Drive

(* What moves no request: the forwarder, the clock and a reload (udp.rs,     *)
(* transport.rs reload).                                                     *)
LEMMA OtherSteps ==
    ASSUME TaskInv, Tick \/ Reload \/ (\E r \in Requests : Receive(r) \/ ForwarderEnds(r))
    PROVE  TaskInv'
<1> USE DEF TaskInv
<1>1. UNCHANGED <<snap, who, dest, pc, active, window, admitted, registry>>
  BY DEF Tick, Reload, Receive, ForwarderEnds, request, quota, tunnel
<1>2. /\ fwd' \in [Requests -> {"none", "running", "ended"}]
      /\ \A r \in Requests : fwd'[r] # "none" => fwd[r] # "none"
  BY DEF Tick, Reload, Receive, ForwarderEnds, tunnel, TypeOK
<1>3. now' \in 0..MaxTime /\ version' \in DOMAIN Configs
  BY UdpAssumption DEF Tick, Reload, Receive, ForwarderEnds, TypeOK
<1>4. egress' \in [Requests -> 0..EgressQueue]
  <2>1. egress \in [Requests -> 0..EgressQueue] /\ EgressQueue \in Nat
    BY UdpAssumption DEF TypeOK
  <2>2. ASSUME NEW r \in Requests, Receive(r) PROVE egress' \in [Requests -> 0..EgressQueue]
    <3>1. egress[r] + 1 \in 0..EgressQueue /\ egress' = [egress EXCEPT ![r] = egress[r] + 1]
      BY <2>1, <2>2 DEF Receive
    <3> QED BY <2>1, <3>1
  <2>3. CASE Tick \/ Reload \/ (\E r \in Requests : ForwarderEnds(r))
    BY <2>1, <2>3 DEF Tick, Reload, ForwarderEnds, tunnel
  <2> QED BY <2>2, <2>3
<1>5. TypeOK'
  BY <1>1, <1>2, <1>3, <1>4 DEF TypeOK
<1>6. QuotaConserved'
  BY <1>1, PermitsStay DEF Holds
<1>7. SocketAuthorized' /\ RegistryFollowsRequests' /\ DecidedOnce'
  BY <1>1, <1>2 DEF SocketAuthorized, RegistryFollowsRequests, DecidedOnce, Config
<1> QED BY <1>5, <1>6, <1>7

----------------------------------------------------------------------------
(* The program at its start.                                                 *)
LEMMA InitTaskInv == Init => TaskInv
<1> SUFFICES ASSUME Init PROVE TaskInv
  OBVIOUS
<1>1. TypeOK
  BY UdpAssumption, RequestsAssumption DEF Init, TypeOK
<1>2. QuotaConserved
  <2>1. ASSUME NEW p \in Principals PROVE HoldersOf(p) = {} /\ active[p] = 0
    BY DEF Init, HoldersOf, Holds
  <2> QED BY <2>1, FS_EmptySet DEF QuotaConserved, HoldersOf
<1>3. SocketAuthorized /\ RegistryFollowsRequests /\ DecidedOnce
  BY DEF Init, SocketAuthorized, RegistryFollowsRequests, DecidedOnce
<1> QED BY <1>1, <1>2, <1>3 DEF TaskInv

(* However requests of however many connections, reloads, refusals, ends and *)
(* drops interleave: a principal's count is that of its requests that hold a *)
(* permit, a socket sends only where its principal may, and the registry     *)
(* follows the streams (request.rs, session.rs, resolver.rs, udp.rs).        *)
THEOREM TaskInvCorrect == Spec => []TaskInv
<1>1. TaskInv /\ [Next]_vars => TaskInv'
  <2> SUFFICES ASSUME TaskInv, [Next]_vars PROVE TaskInv'
    OBVIOUS
  <2>1. CASE Next
    BY <2>1, AcceptStep, AdmitStep, ResolveStep, ChargeStep, EnterStep, RefundStep,
       OpenStep, RespondStep, DriveSteps, OtherSteps DEF Next
  <2>2. CASE UNCHANGED vars
    BY <2>2 DEF vars, TaskInv, TypeOK, QuotaConserved, Holds, SocketAuthorized, Config,
       RegistryFollowsRequests, DecidedOnce
  <2> QED BY <2>1, <2>2
<1> QED BY InitTaskInv, <1>1, PTL DEF Spec
----------------------------------------------------------------------------
(* The limits of a principal.                                                *)

(* A set of naturals that is not empty has a least member: the finite sets   *)
(* below its members are well founded by inclusion.                          *)
LEMMA LeastNumber ==
    ASSUME NEW S \in SUBSET Nat, S # {}
    PROVE  \E n \in S : \A m \in S : n <= m
<1> DEFINE below == {0..(n - 1) : n \in S}
<1>1. \A n \in Nat : IsFiniteSet(0..(n - 1)) /\ 0..(n - 1) \in SUBSET Nat
  BY FS_Interval
<1>2. below \subseteq FiniteSubsetsOf(Nat) /\ below # {}
  BY <1>1 DEF FiniteSubsetsOf
<1>3. IsWellFoundedOn(StrictSubsetOrdering(Nat), FiniteSubsetsOf(Nat))
  BY FS_StrictSubsetOrderingWellFounded
<1> HIDE DEF below
<1>4. PICK x \in below : \A y \in below : <<y, x>> \notin StrictSubsetOrdering(Nat)
  BY <1>2, <1>3, WFMin
<1>5. PICK n \in S : x = 0..(n - 1)
  BY DEF below
<1>6. ASSUME NEW m \in S, m < n PROVE FALSE
  <2>1. 0..(m - 1) \in below /\ 0..(m - 1) \subseteq x /\ m \in x /\ m \notin 0..(m - 1)
    BY <1>5, <1>6 DEF below
  <2>2. <<0..(m - 1), x>> \in StrictSubsetOrdering(Nat)
    BY <1>2, <2>1 DEF StrictSubsetOrdering, FiniteSubsetsOf
  <2> QED BY <1>4, <2>1, <2>2
<1> QED BY <1>6

(* A principal with a role may start a tunnel: the least of limits none of   *)
(* which is zero (policy.rs min_limits).                                     *)
LEMMA RolesLimit ==
    ASSUME NEW v \in DOMAIN Configs, NEW p, Roles(Configs[v], p) # {}
    PROVE  LimitsOf(Configs[v], p).new \in Nat \ {0}
<1> DEFINE news == {role.new : role \in Roles(Configs[v], p)}
<1>1. news \in SUBSET (Nat \ {0}) /\ news # {}
  BY LimitsAssumption DEF Roles
<1>2. \E n \in news : \A m \in news : n <= m
  BY <1>1, LeastNumber
<1>3. Min(news) \in news
  BY <1>2 DEF Min
<1>4. LimitsOf(Configs[v], p).new = Min(news)
  BY DEF LimitsOf
<1> QED BY <1>1, <1>3, <1>4

LEMMA KnownLimit ==
    ASSUME NEW p, NEW c \in Knowing(p)
    PROVE  LimitsOf(c, p).new \in Nat
<1>1. PICK v \in DOMAIN Configs : c = Configs[v]
  BY DEF Knowing
<1>2. CASE Roles(c, p) = {}
  BY <1>2 DEF LimitsOf
<1>3. CASE Roles(c, p) # {}
  BY <1>1, <1>3, RolesLimit
<1> QED BY <1>2, <1>3

----------------------------------------------------------------------------
(* The windows of new tunnels (session.rs acquire).                          *)

Tunnelling == {"open", "respond", "driving", "writing", "done"}

(* What the other steps leave alone.                                         *)
WindowsLeft == UNCHANGED <<now, window, admitted>>

(* A step of one request, EnterWindow apart: it goes on to its tunnel, or is *)
(* over, or has just been accepted or admitted.                              *)
Goes(r) ==
    /\ Alone(r)
    /\ pc[r] \in Tunnelling => pc'[r] \in Tunnelling
    /\ \/ pc'[r] \in {"accepted", "done"}
       \/ /\ pc[r] \notin {"idle", "accepted", "done"}
          /\ who'[r] = who[r] /\ snap'[r] = snap[r]
       \/ Config(r)' \in Knowing(who'[r]) /\ Roles(Config(r)', who'[r]) # {}

LEMMA EndsGoes ==
    ASSUME TypeOK, NEW r \in Requests, NEW from, Ends(r, from)
    PROVE  Goes(r)
BY EndsEffect DEF Goes, Tunnelling

LEMMA MoveGoes ==
    ASSUME TypeOK, NEW r \in Requests, NEW from, NEW to \in Phases, Move(r, from, to),
           from \notin {"idle", "accepted", "done"}, from \in Tunnelling => to \in Tunnelling,
           UNCHANGED <<who, snap>>, \A x \in Requests \ {r} : dest'[x] = dest[x]
    PROVE  Goes(r)
BY MoveEffect DEF Goes, Alone

LEMMA AdmitGoes ==
    ASSUME TypeOK, NEW r \in Requests, Admit(r)
    PROVE  Goes(r)
<1> DEFINE auth == Authenticate(Config(r), Asks[r])
           host == Asks[r].host
<1>1. CASE Rejected(r, "accepted")
  BY <1>1, EndsGoes DEF Rejected
<1>2. CASE /\ auth.ok /\ Capable(Config(r), auth.principal)
           /\ Move(r, "accepted", IF host \in Names THEN "lookup" ELSE "charge")
           /\ who' = [who EXCEPT ![r] = auth.principal]
           /\ dest' = [dest EXCEPT ![r] = IF host \in Names THEN None ELSE host]
           /\ UNCHANGED snap
  <2>1. Config(r) \in Knowing(auth.principal)
    BY <1>2, AuthenticatedKnown DEF Config, TypeOK
  <2>2. Roles(Config(r), auth.principal) # {}
    BY <1>2 DEF Capable
  <2>3. who'[r] = auth.principal /\ Config(r)' = Config(r)
    BY <1>2 DEF TypeOK, Config
  <2>4. /\ \A x \in Requests \ {r} : pc'[x] = pc[x] /\ who'[x] = who[x] /\ dest'[x] = dest[x]
        /\ pc[r] = "accepted"
    BY <1>2 DEF Move, TypeOK
  <2>5. Alone(r) /\ pc[r] \notin Tunnelling
    BY <1>2, <2>4 DEF Alone, Tunnelling
  <2> QED BY <2>1, <2>2, <2>3, <2>5 DEF Goes
<1> QED BY <1>1, <1>2 DEF Admit

(* Every step but EnterWindow leaves the windows alone, or is a tick.        *)
LEMMA OtherThanEntering ==
    ASSUME TypeOK, [Next]_vars
    PROVE  \/ \E r \in Requests : EnterWindow(r)
           \/ Tick
           \/ UNCHANGED <<pc, who, snap>> /\ WindowsLeft
           \/ \E r \in Requests : Goes(r) /\ WindowsLeft
<1> USE DEF WindowsLeft
<1>1. ASSUME NEW r \in Requests, Accept(r) PROVE Goes(r) /\ WindowsLeft
  BY <1>1 DEF Accept, quota, Goes, Alone, Tunnelling, TypeOK
<1>2. ASSUME NEW r \in Requests, Admit(r) PROVE Goes(r) /\ WindowsLeft
  BY <1>2, AdmitGoes DEF Admit
<1>3. ASSUME NEW r \in Requests, Resolve(r) PROVE Goes(r) /\ WindowsLeft
  <2>1. CASE Rejected(r, "lookup")
    BY <1>3, <2>1, EndsGoes DEF Resolve, Rejected
  <2>2. ASSUME NEW a, Move(r, "lookup", "charge"), dest' = [dest EXCEPT ![r] = a],
               UNCHANGED <<snap, who>>
        PROVE  Goes(r)
    <3>1. \A x \in Requests \ {r} : dest'[x] = dest[x]
      BY <2>2 DEF TypeOK
    <3> QED BY <2>2, <3>1, MoveGoes DEF Phases, Tunnelling
  <2> QED BY <1>3, <2>1, <2>2 DEF Resolve
<1>4. ASSUME NEW r \in Requests, Charge(r) PROVE Goes(r) /\ WindowsLeft
  <2>1. CASE Rejected(r, "charge")
    BY <1>4, <2>1, EndsGoes DEF Charge, Rejected
  <2>2. CASE Move(r, "charge", "window") /\ UNCHANGED request
    BY <1>4, <2>2, MoveGoes DEF Charge, request, Phases, Tunnelling
  <2> QED BY <1>4, <2>1, <2>2 DEF Charge
<1>5. ASSUME NEW r \in Requests, Refund(r) PROVE Goes(r) /\ WindowsLeft
  BY <1>5, EndsGoes DEF Refund
<1>6. ASSUME NEW r \in Requests, Open(r) \/ Respond(r) PROVE Goes(r) /\ WindowsLeft
  BY <1>6, EndsGoes, MoveGoes DEF Open, Respond, Leaves, request, Phases, Tunnelling
<1>7. ASSUME NEW r \in Requests, PeerEnds(r) \/ ForwarderGone(r) \/ Cancel(r)
      PROVE  Goes(r) /\ WindowsLeft
  BY <1>7, EndsGoes DEF PeerEnds, ForwarderGone, Cancel, Leaves, Rejected
<1>8. ASSUME NEW r \in Requests, TakeEgress(r) \/ PeerReads(r) PROVE Goes(r) /\ WindowsLeft
  BY <1>8, MoveGoes DEF TakeEgress, PeerReads, request, quota, Phases, Tunnelling
<1>9. ASSUME NEW r \in Requests, Receive(r) \/ ForwarderEnds(r)
      PROVE  UNCHANGED <<pc, who, snap>> /\ WindowsLeft
  BY <1>9 DEF Receive, ForwarderEnds, request, quota
<1>10. CASE Reload
  BY <1>10 DEF Reload, request, quota
<1>11. CASE UNCHANGED vars
  BY <1>11 DEF vars
<1> QED BY <1>1, <1>2, <1>3, <1>4, <1>5, <1>6, <1>7, <1>8, <1>9, <1>10, <1>11 DEF Next, Drive

(* What a step that enters no window keeps.                                  *)
LEMMA BeginsStays ==
    ASSUME TypeOK, now <= now', now' \in Nat, UNCHANGED admitted, NEW p, NEW s \in Nat, NEW count,
           WindowBegins(p, s, count)
    PROVE  WindowBegins(p, s, count)'
<1>1. /\ Admissions(p)' = Admissions(p)
      /\ Since(p, s)' = Since(p, s) /\ Before(p, s)' = Before(p, s)
  BY DEF Admissions, Since, Before
<1>2. s <= now'
  BY DEF WindowBegins, TypeOK
<1> QED BY <1>1, <1>2 DEF WindowBegins

LEMMA WindowsStay ==
    ASSUME TypeOK, now <= now', now' \in Nat, UNCHANGED <<window, admitted>>, WindowsCount
    PROVE  WindowsCount'
<1> SUFFICES ASSUME NEW p \in Principals
             PROVE  IF window[p] = None THEN Admissions(p)' = {}
                    ELSE \A s, count : s = window[p].started /\ count = window[p].count
                           => WindowBegins(p, s, count)'
  BY DEF WindowsCount, WindowBegins, Since, Before, Admissions
<1>1. CASE window[p] = None
  BY <1>1 DEF WindowsCount, Admissions
<1>2. CASE window[p] # None
  <2>1. window[p].started \in Nat
    BY <1>2 DEF TypeOK
  <2> QED BY <1>2, <2>1, BeginsStays DEF WindowsCount
<1> QED BY <1>1, <1>2

LEMMA GoesKeeps ==
    ASSUME TypeOK, KnownPrincipals, AdmittedOnce, WindowsCount, NEW r \in Requests,
           Goes(r), WindowsLeft
    PROVE  KnownPrincipals' /\ AdmittedOnce' /\ WindowsCount'
<1>1. KnownPrincipals'
  <2> SUFFICES ASSUME NEW x \in Requests, pc'[x] \notin {"idle", "accepted", "done"}
               PROVE  Config(x)' \in Knowing(who'[x]) /\ Roles(Config(x)', who'[x]) # {}
    BY DEF KnownPrincipals, Knowing, Roles
  <2>1. CASE x = r
    BY <2>1 DEF Goes, KnownPrincipals, Config
  <2>2. CASE x # r
    BY <2>2 DEF Goes, Alone, KnownPrincipals, Config
  <2> QED BY <2>1, <2>2
<1>2. AdmittedOnce'
  BY DEF AdmittedOnce, WindowsLeft, Goes, Alone, Tunnelling, TypeOK
<1>3. WindowsCount'
  BY WindowsStay DEF WindowsLeft, TypeOK
<1> QED BY <1>1, <1>2, <1>3

LEMMA TickKeeps ==
    ASSUME TypeOK, KnownPrincipals, AdmittedOnce, WindowsCount, Tick
    PROVE  KnownPrincipals' /\ AdmittedOnce' /\ WindowsCount'
<1>1. /\ now' = now + 1 /\ now \in Nat
      /\ UNCHANGED <<pc, who, snap, window, admitted>>
  BY DEF Tick, request, quota, TypeOK
<1>2. KnownPrincipals'
  BY <1>1 DEF KnownPrincipals, Config
<1>3. AdmittedOnce'
  BY <1>1 DEF AdmittedOnce, TypeOK
<1>4. WindowsCount'
  BY <1>1, WindowsStay
<1> QED BY <1>2, <1>3, <1>4

(* A request is admitted once, so that an admission is a new one.            *)
LEMMA AdmissionsFinite ==
    ASSUME AdmittedOnce, NEW S \in SUBSET admitted
    PROVE  IsFiniteSet(S) /\ Cardinality(S) \in Nat
BY FS_Subset, FS_CardinalityType DEF AdmittedOnce

LEMMA AdmissionTypes ==
    ASSUME TypeOK, NEW p, NEW a \in Admissions(p)
    PROVE  a \in admitted /\ a.at \in Nat /\ a.at \in 0..MaxTime
BY DEF TypeOK, Admissions

(* The request that enters: who it is, and what its limit is.                *)
LEMMA Entering ==
    ASSUME TaskInv, KnownPrincipals, AdmittedOnce, NEW r \in Requests, EnterWindow(r)
    PROVE  /\ who[r] \in Principals /\ pc[r] = "window"
           /\ Config(r) \in Knowing(who[r])
           /\ LimitsOf(Config(r), who[r]).new \in Nat \ {0}
           /\ UNCHANGED <<now, who, snap>>
           /\ \A a \in admitted : a.request # r
           /\ now \in Nat
<1>1. who[r] \in Principals /\ pc[r] = "window"
  BY DEF EnterWindow, TaskInv, DecidedOnce
<1>2. Config(r) \in Knowing(who[r]) /\ Roles(Config(r), who[r]) # {}
  BY <1>1 DEF KnownPrincipals
<1>3. snap[r] \in DOMAIN Configs /\ now \in Nat
  BY DEF TaskInv, TypeOK
<1>4. LimitsOf(Config(r), who[r]).new \in Nat \ {0}
  BY <1>2, <1>3, RolesLimit DEF Config
<1>5. \A a \in admitted : a.request # r
  BY <1>1 DEF AdmittedOnce
<1> QED BY <1>1, <1>2, <1>3, <1>4, <1>5 DEF EnterWindow, request

(* A request that its window refuses changes no window: one that began anew  *)
(* would have let it in.                                                     *)
LEMMA RefusedWindow ==
    ASSUME TaskInv, KnownPrincipals, AdmittedOnce, NEW r \in Requests, EnterWindow(r),
           ~(Current(window[who[r]]).count < LimitsOf(Config(r), who[r]).new)
    PROVE  window' = window /\ admitted' = admitted /\ Goes(r)
<1> DEFINE p == who[r]
           w == Current(window[p])
<1>1. p \in Principals /\ LimitsOf(Config(r), p).new \in Nat \ {0}
  BY Entering
<1>2. w # Fresh
  BY <1>1 DEF Fresh
<1>3. w = window[p]
  BY <1>2 DEF Current
<1>4. window' = [window EXCEPT ![p] = w] /\ admitted' = admitted /\ Move(r, "window", "refund")
      /\ UNCHANGED request
  BY DEF EnterWindow
<1>5. window' = window
  BY <1>1, <1>3, <1>4 DEF TaskInv, TypeOK
<1> QED BY <1>4, <1>5, MoveGoes DEF request, Phases, Tunnelling, TaskInv

(* One that is let in is counted, in the window that goes on or in a new one *)
(* that it begins.                                                           *)
LEMMA AdmittedWindow ==
    ASSUME TaskInv, KnownPrincipals, AdmittedOnce, WindowsCount, NEW r \in Requests,
           EnterWindow(r), NEW p, p = who[r],
           Current(window[p]).count < LimitsOf(Config(r), p).new
    PROVE  /\ AdmittedOnce' /\ KnownPrincipals'
           /\ \A q \in Principals \ {p} :
                 window'[q] = window[q] /\ Admissions(q)' = Admissions(q)
           /\ \E s \in Nat, count \in Nat :
                 window'[p] = [started |-> s, count |-> count] /\ WindowBegins(p, s, count)'
<1> DEFINE w == Current(window[p])
           limit == LimitsOf(Config(r), p).new
<1>1. /\ p \in Principals /\ pc[r] = "window" /\ Config(r) \in Knowing(p)
      /\ limit \in Nat \ {0} /\ UNCHANGED <<now, who, snap>>
      /\ \A a \in admitted : a.request # r
      /\ now \in Nat
  BY Entering
<1>2. PICK t : t = now
  OBVIOUS
<1>3. PICK e : e = [request |-> r, principal |-> p, at |-> t]
  OBVIOUS
<1>4. e \notin admitted /\ e.at = t /\ e.principal = p
  BY <1>1, <1>3
<1>5. /\ Move(r, "window", "open") /\ admitted' = admitted \cup {e}
      /\ window' = [window EXCEPT ![p] = [w EXCEPT !.count = w.count + 1]]
  BY <1>2, <1>3 DEF EnterWindow
<1>6. pc'[r] = "open" /\ \A x \in Requests \ {r} : pc'[x] = pc[x]
  BY <1>5, MoveEffect DEF Phases, TaskInv
<1>7. AdmittedOnce'
  <2>1. IsFiniteSet(admitted')
    BY <1>5, FS_AddElement DEF AdmittedOnce
  <2> QED BY <1>1, <1>2, <1>3, <1>5, <1>6, <2>1 DEF AdmittedOnce, TaskInv, TypeOK
<1>8. KnownPrincipals'
  BY <1>1, <1>6 DEF KnownPrincipals, Config
<1>9. /\ Admissions(p)' = Admissions(p) \cup {e}
      /\ \A q \in Principals \ {p} : Admissions(q)' = Admissions(q)
  BY <1>4, <1>5 DEF Admissions
<1>10. w \in Entry
  BY <1>1, UdpAssumption DEF Current, Fresh, Entry, TaskInv, TypeOK
<1>11. /\ window'[p] = [started |-> w.started, count |-> w.count + 1]
       /\ \A q \in Principals \ {p} : window'[q] = window[q]
       /\ w.started \in Nat /\ w.count \in Nat
  BY <1>1, <1>5, <1>10, UdpAssumption DEF TaskInv, TypeOK, Entry
<1>12. \A a \in Admissions(p) : a \in admitted /\ a.at \in Nat /\ a.at <= t
  BY <1>2, AdmissionTypes DEF TaskInv, AdmittedOnce
<1>13. w.count + 1 <= limit /\ Window \in Nat \ {0}
  BY <1>1, <1>11, UdpAssumption
<1> SUFFICES \E s \in Nat, count \in Nat :
               window'[p] = [started |-> s, count |-> count] /\ WindowBegins(p, s, count)'
  BY <1>7, <1>8, <1>9, <1>11
<1> HIDE DEF w, limit
<1>14. ASSUME window[p] # None, w = window[p], t < w.started + Window
       PROVE  \E s \in Nat, count \in Nat :
                window'[p] = [started |-> s, count |-> count] /\ WindowBegins(p, s, count)'
  <2>1. PICK s \in Nat, n \in Nat : s = w.started /\ n = w.count
    BY <1>11
  <2>2. WindowBegins(p, s, n)
    BY <1>1, <1>14, <2>1 DEF WindowsCount
  <2>3. s <= t /\ t < s + Window /\ t \in Nat
    BY <1>1, <1>2, <1>14, <2>1, <2>2 DEF WindowBegins
  <2>4. Since(p, s)' = Since(p, s) \cup {e}
    BY <1>4, <1>9, <2>3 DEF Since
  <2>5. Before(p, s)' = Before(p, s)
    BY <1>4, <1>9, <2>3 DEF Before
  <2>6. Since(p, s) \subseteq admitted /\ e \notin Since(p, s)
    BY <1>4, <1>12 DEF Since
  <2>7. Cardinality(Since(p, s)') = n + 1
    BY <2>2, <2>4, <2>6, AdmissionsFinite, FS_AddElement DEF WindowBegins
  <2>8. \E a \in Admissions(p)' : a.at = s
    BY <1>9, <2>2 DEF WindowBegins
  <2>9. \A a \in Admissions(p)' : a.at < s + Window
    BY <1>4, <1>9, <2>2, <2>3 DEF WindowBegins
  <2>10. \E c \in Knowing(p) : n + 1 <= LimitsOf(c, p).new
    BY <1>1, <1>13, <2>1 DEF limit
  <2>11. WindowBegins(p, s, n + 1)'
    BY <1>1, <1>2, <2>2, <2>3, <2>5, <2>7, <2>8, <2>9, <2>10 DEF WindowBegins
  <2> QED BY <1>11, <2>1, <2>11
<1>15. ASSUME w = Fresh, \A a \in Admissions(p) : a.at < t,
              \/ Before(p, t) = {}
              \/ \E c \in Knowing(p) : Cardinality(Before(p, t)) < LimitsOf(c, p).new
       PROVE  \E s \in Nat, count \in Nat :
                window'[p] = [started |-> s, count |-> count] /\ WindowBegins(p, s, count)'
  <2>1. w.started = t /\ w.count = 0 /\ t \in Nat
    BY <1>1, <1>2, <1>15 DEF Fresh
  <2>2. window'[p] = [started |-> t, count |-> 1]
    BY <1>11, <2>1
  <2>3. Since(p, t)' = {e}
    BY <1>4, <1>9, <1>12, <1>15, <2>1 DEF Since
  <2>4. Before(p, t)' = Before(p, t)
    BY <1>4, <1>9, <1>15, <2>1 DEF Before
  <2>5. Cardinality(Since(p, t)') = 1
    BY <2>3, FS_Singleton
  <2>6. \E a \in Admissions(p)' : a.at = t
    BY <1>4, <1>9
  <2>7. \A a \in Admissions(p)' : a.at < t + Window
    BY <1>4, <1>9, <1>12, <1>13, <2>1
  <2>8. \E c \in Knowing(p) : 1 <= LimitsOf(c, p).new
    BY <1>1, <1>13, <2>1 DEF limit
  <2>9. WindowBegins(p, t, 1)'
    BY <1>1, <1>2, <1>15, <2>1, <2>4, <2>5, <2>6, <2>7, <2>8 DEF WindowBegins
  <2> QED BY <2>1, <2>2, <2>9
<1>16. CASE window[p] = None
  <2>1. w = Fresh /\ Admissions(p) = {}
    BY <1>1, <1>16 DEF w, Current, WindowsCount
  <2> QED BY <1>15, <2>1 DEF Before
<1>17. CASE window[p] # None /\ ~(now - window[p].started >= Window)
  <2>1. w = window[p]
    BY <1>17 DEF w, Current
  <2>2. t < w.started + Window
    BY <1>1, <1>2, <1>11, <1>13, <1>17, <2>1
  <2> QED BY <1>14, <1>17, <2>1, <2>2
<1>18. CASE window[p] # None /\ now - window[p].started >= Window
  <2>1. PICK s \in Nat, n \in Nat : s = window[p].started /\ n = window[p].count
    BY <1>1, <1>18 DEF TaskInv, TypeOK
  <2>2. WindowBegins(p, s, n) /\ w = Fresh
    BY <1>1, <1>18, <2>1 DEF WindowsCount, w, Current
  <2>3. s + Window <= t /\ t \in Nat
    BY <1>1, <1>2, <1>13, <1>18, <2>1
  <2>4. \A a \in Admissions(p) : a.at < t
    BY <1>12, <1>13, <2>2, <2>3 DEF WindowBegins
  <2>5. PICK first \in Admissions(p) : first.at = s
    BY <2>2 DEF WindowBegins
  <2>6. Before(p, t) \subseteq Since(p, s) \ {first} /\ first \in Since(p, s)
    BY <1>12, <1>13, <2>3, <2>5 DEF Before, Since
  <2>7. Since(p, s) \subseteq admitted
    BY <1>12 DEF Since
  <2>8. /\ IsFiniteSet(Since(p, s) \ {first})
        /\ Cardinality(Since(p, s) \ {first}) = n - 1
    BY <2>2, <2>6, <2>7, AdmissionsFinite, FS_RemoveElement DEF WindowBegins
  <2>9. Cardinality(Before(p, t)) <= n - 1
    BY <2>6, <2>8, FS_Subset
  <2>10. PICK c \in Knowing(p) : n <= LimitsOf(c, p).new
    BY <2>2 DEF WindowBegins
  <2>11. Cardinality(Before(p, t)) \in Nat /\ LimitsOf(c, p).new \in Nat
    BY <2>6, <2>7, AdmissionsFinite, KnownLimit
  <2>12. Cardinality(Before(p, t)) < LimitsOf(c, p).new
    BY <2>9, <2>10, <2>11
  <2> QED BY <1>15, <2>2, <2>4, <2>12
<1> QED BY <1>16, <1>17, <1>18

(* A step of one request through its window.                                 *)
LEMMA EnteringKeeps ==
    ASSUME TaskInv, KnownPrincipals, AdmittedOnce, WindowsCount, NEW r \in Requests,
           EnterWindow(r)
    PROVE  KnownPrincipals' /\ AdmittedOnce' /\ WindowsCount'
<1>1. CASE ~(Current(window[who[r]]).count < LimitsOf(Config(r), who[r]).new)
  <2>1. window' = window /\ admitted' = admitted /\ Goes(r)
    BY <1>1, RefusedWindow
  <2>2. WindowsLeft
    BY <2>1, Entering DEF WindowsLeft
  <2> QED BY <2>1, <2>2, GoesKeeps DEF TaskInv
<1>2. CASE Current(window[who[r]]).count < LimitsOf(Config(r), who[r]).new
  <2>1. PICK p : p = who[r]
    OBVIOUS
  <2>2. /\ AdmittedOnce' /\ KnownPrincipals'
        /\ \A q \in Principals \ {p} :
              window'[q] = window[q] /\ Admissions(q)' = Admissions(q)
        /\ \E s \in Nat, count \in Nat :
              window'[p] = [started |-> s, count |-> count] /\ WindowBegins(p, s, count)'
    BY <1>2, <2>1, AdmittedWindow
  <2>3. now' = now /\ now \in Nat
    BY Entering
  <2> SUFFICES ASSUME NEW q \in Principals
               PROVE  IF window'[q] = None THEN Admissions(q)' = {}
                      ELSE \A s, count : s = window'[q].started /\ count = window'[q].count
                             => WindowBegins(q, s, count)'
    BY <2>2 DEF WindowsCount, WindowBegins, Since, Before, Admissions
  <2>4. CASE q = p
    <3>1. PICK s \in Nat, count \in Nat :
            window'[p] = [started |-> s, count |-> count] /\ WindowBegins(p, s, count)'
      BY <2>2
    <3>2. window'[p] # None
      <4>1. s <= now
        BY <2>3, <3>1 DEF WindowBegins
      <4>2. s \in 0..MaxTime
        BY <2>3, <4>1, UdpAssumption DEF TaskInv, TypeOK
      <4> QED BY <3>1, <4>2, UdpAssumption
    <3> QED BY <2>4, <3>1, <3>2
  <2>5. CASE q # p
    <3>1. window'[q] = window[q] /\ Admissions(q)' = Admissions(q)
      BY <2>2, <2>5
    <3>2. CASE window[q] = None
      BY <3>1, <3>2 DEF WindowsCount
    <3>3. CASE window[q] # None
      <4> SUFFICES ASSUME NEW s, NEW count, s = window[q].started, count = window[q].count
                   PROVE  WindowBegins(q, s, count)'
        BY <3>1, <3>3
      <4>1. WindowBegins(q, s, count)
        BY <3>3 DEF WindowsCount
      <4>2. Since(q, s)' = Since(q, s) /\ Before(q, s)' = Before(q, s)
        BY <3>1 DEF Since, Before
      <4> QED BY <2>3, <3>1, <4>1, <4>2 DEF WindowBegins
    <3> QED BY <3>2, <3>3
  <2> QED BY <2>4, <2>5
<1> QED BY <1>1, <1>2

LEMMA NextWindows ==
    ASSUME Inv, [Next]_vars
    PROVE  KnownPrincipals' /\ AdmittedOnce' /\ WindowsCount'
<1> USE DEF Inv
<1>1. TypeOK
  BY DEF TaskInv
<1>2. CASE UNCHANGED <<pc, who, snap>> /\ WindowsLeft
  <2>1. WindowsCount'
    BY <1>1, <1>2, WindowsStay DEF WindowsLeft, TypeOK
  <2> QED BY <1>2, <2>1 DEF KnownPrincipals, AdmittedOnce, Config, WindowsLeft
<1> QED BY <1>1, <1>2, OtherThanEntering, EnteringKeeps, TickKeeps, GoesKeeps

(* Throughout: a window has begun with a tunnel, has counted every tunnel    *)
(* since, and let in no more than a limit the principal had; and no request  *)
(* is let in but under a configuration that knows its principal (session.rs  *)
(* acquire, under the snapshot of request.rs).                               *)
THEOREM InvCorrect == Spec => []Inv
<1>1. Init => KnownPrincipals /\ AdmittedOnce /\ WindowsCount
  BY FS_EmptySet DEF Init, KnownPrincipals, AdmittedOnce, WindowsCount, Admissions
<1>2. Inv /\ [Next]_vars => (KnownPrincipals /\ AdmittedOnce /\ WindowsCount)'
  BY NextWindows
<1> QED BY <1>1, <1>2, TaskInvCorrect, PTL DEF Spec, Inv

(* An interval that ends before now was complete before; one that holds now  *)
(* holds tunnels of the window in force, all counted, and some of the window *)
(* before it, without its first.                                             *)
LEMMA RecentFew ==
    ASSUME TypeOK, AdmittedOnce, WindowsCount, NEW p \in Principals, NEW t \in Nat,
           t <= now, now < t + Window,
           NEW S, S = {a \in admitted : a.principal = p /\ a.at \in t..(t + Window - 1)},
           S # {}
    PROVE  \E c \in Knowing(p) : Cardinality(S) < 2 * LimitsOf(c, p).new
<1>1. S \subseteq Admissions(p) /\ Admissions(p) # {}
  BY DEF Admissions
<1>2. PICK s \in Nat, n \in Nat : WindowBegins(p, s, n)
  <2>1. window[p] # None
    BY <1>1 DEF WindowsCount
  <2> QED BY <2>1 DEF WindowsCount, TypeOK
<1>3. Window \in Nat \ {0} /\ now \in Nat /\ s <= now
  BY <1>2, UdpAssumption DEF TypeOK, WindowBegins
<1>4. S \subseteq Since(p, s) \cup Before(p, s)
  <2> SUFFICES ASSUME NEW a \in S PROVE a \in Since(p, s) \cup Before(p, s)
    OBVIOUS
  <2>1. a \in Admissions(p) /\ a.at \in Nat /\ t <= a.at
    BY <1>1, AdmissionTypes
  <2>2. a.at < s => s < a.at + Window
    BY <1>3, <2>1
  <2> QED BY <2>1, <2>2 DEF Since, Before
<1>5. Since(p, s) \subseteq admitted /\ Before(p, s) \subseteq admitted
  BY DEF Since, Before, Admissions
<1>6. /\ IsFiniteSet(Since(p, s)) /\ IsFiniteSet(Before(p, s))
      /\ Cardinality(Since(p, s)) \in Nat /\ Cardinality(Before(p, s)) \in Nat
      /\ Cardinality(Since(p, s)) = n
  BY <1>2, <1>5, AdmissionsFinite DEF WindowBegins
<1>7. Cardinality(Since(p, s) \cap Before(p, s)) \in Nat
  BY <1>5, AdmissionsFinite
<1>8. /\ IsFiniteSet(Since(p, s) \cup Before(p, s))
      /\ Cardinality(Since(p, s) \cup Before(p, s)) <= n + Cardinality(Before(p, s))
  <2>1. /\ IsFiniteSet(Since(p, s) \cup Before(p, s))
        /\ Cardinality(Since(p, s) \cup Before(p, s))
             = Cardinality(Since(p, s)) + Cardinality(Before(p, s))
                 - Cardinality(Since(p, s) \cap Before(p, s))
    BY <1>6, FS_Union
  <2> QED BY <1>6, <1>7, <2>1
<1>9. /\ Cardinality(S) <= Cardinality(Since(p, s) \cup Before(p, s))
      /\ Cardinality(S) \in Nat /\ Cardinality(Since(p, s) \cup Before(p, s)) \in Nat
  BY <1>4, <1>8, FS_Subset, FS_CardinalityType
<1>10. Cardinality(S) <= n + Cardinality(Before(p, s))
  BY <1>6, <1>8, <1>9
<1>11. PICK c \in Knowing(p) : n <= LimitsOf(c, p).new
  BY <1>2 DEF WindowBegins
<1>12. LimitsOf(c, p).new \in Nat
  BY KnownLimit
<1>13. n # 0
  <2>1. PICK a \in Admissions(p) : a.at = s
    BY <1>2 DEF WindowBegins
  <2>2. a \in Since(p, s)
    BY <2>1 DEF Since
  <2> QED BY <1>6, <2>2, FS_EmptySet
<1>14. CASE Before(p, s) = {}
  <2>1. Cardinality(S) <= n
    BY <1>6, <1>10, <1>14, FS_EmptySet
  <2>2. Cardinality(S) < 2 * LimitsOf(c, p).new
    BY <1>9, <1>11, <1>12, <1>13, <2>1
  <2> QED BY <2>2
<1>15. ASSUME NEW d \in Knowing(p), Cardinality(Before(p, s)) < LimitsOf(d, p).new
       PROVE  \E x \in Knowing(p) : Cardinality(S) < 2 * LimitsOf(x, p).new
  <2>1. LimitsOf(d, p).new \in Nat
    BY KnownLimit
  <2>2. Cardinality(S) < 2 * LimitsOf(c, p).new \/ Cardinality(S) < 2 * LimitsOf(d, p).new
    BY <1>6, <1>9, <1>10, <1>11, <1>12, <1>15, <2>1
  <2> QED BY <2>2
<1> QED BY <1>2, <1>14, <1>15 DEF WindowBegins

RecentLimited ==
    \A p \in Principals, t \in Nat : t <= now /\ now < t + Window =>
        LET started == {a \in admitted : a.principal = p /\ a.at \in t..(t + Window - 1)}
        IN  started # {} =>
              \E c \in Knowing(p) : Cardinality(started) < 2 * LimitsOf(c, p).new

(* However reloads change the limits and requests reach their mutexes, no    *)
(* sixty seconds see twice the new_tunnels_per_minute of every configuration *)
(* that knows the principal (session.rs:46-64).                              *)
THEOREM NeverTwiceHolds == Spec => []NeverTwiceTheLimit
<1>1. Init => NeverTwiceTheLimit
  BY DEF Init, NeverTwiceTheLimit
<1>2. Inv => RecentLimited
  BY RecentFew DEF Inv, TaskInv, RecentLimited
<1>3. Inv /\ RecentLimited' /\ NeverTwiceTheLimit /\ [Next]_vars => NeverTwiceTheLimit'
  <2> SUFFICES ASSUME Inv, RecentLimited', NeverTwiceTheLimit, [Next]_vars,
                      NEW p \in Principals, NEW t \in 0..MaxTime,
                      {a \in admitted' : a.principal = p /\ a.at \in t..(t + Window - 1)} # {}
               PROVE  \E c \in Knowing(p) :
                        Cardinality({a \in admitted' :
                                       a.principal = p /\ a.at \in t..(t + Window - 1)})
                          < 2 * LimitsOf(c, p).new
    BY DEF NeverTwiceTheLimit
  <2> PICK S : S = {a \in admitted' : a.principal = p /\ a.at \in t..(t + Window - 1)}
    OBVIOUS
  <2> SUFFICES \E c \in Knowing(p) : Cardinality(S) < 2 * LimitsOf(c, p).new
    OBVIOUS
  <2>1. t \in Nat /\ Window \in Nat /\ now \in Nat
    BY UdpAssumption DEF Inv, TaskInv, TypeOK
  <2>2. CASE UNCHANGED admitted
    BY <2>2 DEF NeverTwiceTheLimit
  <2>3. ASSUME NEW r \in Requests, EnterWindow(r), admitted' # admitted
        PROVE  \E c \in Knowing(p) : Cardinality(S) < 2 * LimitsOf(c, p).new
    <3>1. now' = now /\ \E e : e.at = now /\ admitted' = admitted \cup {e}
      <4>1. admitted' = admitted \cup {[request |-> r, principal |-> who[r], at |-> now]}
        BY <2>3 DEF EnterWindow
      <4> QED BY <2>3, <4>1 DEF EnterWindow
    <3>2. CASE now \in t..(t + Window - 1)
      <4>1. t <= now' /\ now' < t + Window
        BY <2>1, <3>1, <3>2
      <4> QED BY <2>1, <4>1 DEF RecentLimited
    <3>3. CASE now \notin t..(t + Window - 1)
      <4>1. S = {a \in admitted : a.principal = p /\ a.at \in t..(t + Window - 1)}
        BY <3>1, <3>3
      <4> QED BY <4>1 DEF NeverTwiceTheLimit
    <3> QED BY <3>2, <3>3
  <2>4. ASSUME NEW r \in Requests, Goes(r), WindowsLeft PROVE UNCHANGED admitted
    BY <2>4 DEF WindowsLeft
  <2>5. Tick \/ WindowsLeft => UNCHANGED admitted
    BY DEF Tick, quota, WindowsLeft
  <2> QED BY <2>2, <2>3, <2>4, <2>5, OtherThanEntering DEF Inv, TaskInv
<1> QED BY <1>1, <1>2, <1>3, InvCorrect, PTL DEF Spec

----------------------------------------------------------------------------
(* The end of a tunnel whose forwarder is gone.                              *)

(* What its stream may still do: send the payloads that are queued, each     *)
(* with a wait for room in the stream, and end.                              *)
Left(r) ==
    IF pc[r] = "done" THEN 0 ELSE 2 * egress[r] + IF pc[r] = "driving" THEN 1 ELSE 2

Winds(r) ==
    fwd[r] = "ended" =>
        /\ fwd'[r] = "ended"
        /\ (pc'[r] = pc[r] /\ egress'[r] = egress[r]) \/ Left(r)' < Left(r)

(* The end is further than any of them.                                      *)
LEMMA LeavesLess ==
    ASSUME TaskInv, NEW r \in Requests, NEW from \in {"respond", "driving", "writing"},
           Leaves(r, from)
    PROVE  Left(r)' < Left(r)
<1>1. egress[r] \in Nat
  BY UdpAssumption DEF TaskInv, TypeOK
<1>2. pc[r] = from /\ pc'[r] = "done"
  BY EndsEffect DEF TaskInv, Leaves
<1> QED BY <1>1, <1>2 DEF Left

(* The steps of the tunnel's own task.                                       *)
LEMMA OwnWinds ==
    ASSUME TaskInv, NEW r \in Requests, fwd[r] = "ended",
           Respond(r) \/ PeerEnds(r) \/ Drive(r) \/ PeerReads(r) \/ Cancel(r)
    PROVE  Left(r)' < Left(r) /\ fwd'[r] = "ended"
<1>1. egress[r] \in Nat /\ pc \in [Requests -> Phases] /\ egress \in [Requests -> 0..EgressQueue]
  BY UdpAssumption DEF TaskInv, TypeOK, Phases
<1>2. pc[r] \in {"respond", "driving", "writing", "done"}
  BY DEF TaskInv, SocketAuthorized
<1>3. fwd'[r] = "ended"
  BY DEF Respond, PeerEnds, Drive, ForwarderGone, TakeEgress, PeerReads, Cancel, tunnel
<1>4. CASE Move(r, "respond", "driving") /\ UNCHANGED egress
  BY <1>1, <1>3, <1>4 DEF Move, Left
<1>5. CASE TakeEgress(r)
  <2>1. pc[r] = "driving" /\ pc'[r] = "writing" /\ egress'[r] = egress[r] - 1 /\ egress[r] > 0
    BY <1>1, <1>5 DEF TakeEgress, Move
  <2> QED BY <1>1, <1>3, <2>1 DEF Left
<1>6. CASE PeerReads(r)
  BY <1>1, <1>3, <1>6 DEF PeerReads, Move, Left, tunnel
<1>7. CASE Leaves(r, "respond") \/ Leaves(r, "driving") \/ Leaves(r, "writing")
  BY <1>3, <1>7, LeavesLess
<1>8. CASE Cancel(r)
  <2>1. pc[r] \in {"respond", "driving", "writing"} /\ Leaves(r, pc[r])
    BY <1>2, <1>8, EndsEffect DEF Cancel, Rejected, Ends, Move, Leaves
  <2> QED BY <1>3, <2>1, LeavesLess
<1> QED
  BY <1>4, <1>5, <1>6, <1>7, <1>8 DEF Respond, PeerEnds, Drive, ForwarderGone

(* Once the forwarder of a tunnel has ended, idle or by an error, nothing is *)
(* queued for its stream any more, and each step of its task sends one of    *)
(* the payloads that are, passes one wait of the stream, or ends: it has at  *)
(* most twice the queue and two to do.  EndedTunnelIsReturned adds that it   *)
(* does them, if its peer reads (request.rs:264-323, udp.rs:71-104).         *)
THEOREM EndedTunnelsWind ==
    Spec => /\ [](\A r \in Requests : Left(r) \in Nat)
            /\ [][\A r \in Requests : Winds(r)]_vars
<1>1. TaskInv /\ [Next]_vars => [\A r \in Requests : Winds(r)]_vars
  <2> SUFFICES ASSUME TaskInv, Next, NEW r \in Requests, fwd[r] = "ended"
               PROVE  Winds(r)
    BY DEF Winds
  <2>0. pc[r] \in {"respond", "driving", "writing", "done"}
    BY DEF TaskInv, SocketAuthorized
  <2>1. CASE Respond(r) \/ PeerEnds(r) \/ Drive(r) \/ PeerReads(r) \/ Cancel(r)
    BY <2>1, OwnWinds DEF Winds
  <2>2. CASE Tick \/ Reload \/ Receive(r) \/ ForwarderEnds(r)
    BY <2>2 DEF Tick, Reload, Receive, ForwarderEnds, Winds, tunnel
  <2>3. CASE Accept(r) \/ Admit(r) \/ Resolve(r) \/ Charge(r) \/ EnterWindow(r) \/ Refund(r)
             \/ Open(r)
    BY <2>0, <2>3, EndsEffect DEF Accept, Admit, Resolve, Charge, EnterWindow, Refund, Open, Rejected,
       Ends, Move
  <2>4. ASSUME NEW x \in Requests \ {r},
               \/ Accept(x) \/ Admit(x) \/ Resolve(x) \/ Charge(x) \/ EnterWindow(x) \/ Refund(x)
               \/ Open(x) \/ Respond(x) \/ PeerEnds(x) \/ Drive(x) \/ PeerReads(x)
               \/ Cancel(x) \/ Receive(x) \/ ForwarderEnds(x)
        PROVE  fwd'[r] = fwd[r] /\ pc'[r] = pc[r] /\ egress'[r] = egress[r]
    <3>1. TypeOK
      BY DEF TaskInv
    <3>2. CASE Accept(x) \/ Admit(x) \/ Resolve(x) \/ Charge(x)
      BY <3>1, <3>2, <2>4 DEF Accept, Admit, Resolve, Charge, Rejected, Ends, Move, TypeOK, tunnel
    <3>3. CASE EnterWindow(x) \/ Refund(x) \/ Open(x)
      BY <3>1, <3>3, <2>4 DEF EnterWindow, Refund, Open, Ends, Move, TypeOK, tunnel
    <3>4. CASE Respond(x) \/ PeerEnds(x) \/ Drive(x) \/ PeerReads(x) \/ Cancel(x)
      BY <3>1, <3>4, <2>4 DEF Respond, PeerEnds, Drive, ForwarderGone, TakeEgress, PeerReads, Cancel,
         Rejected, Leaves, Ends, Move, TypeOK, tunnel
    <3>5. CASE Receive(x) \/ ForwarderEnds(x)
      BY <3>1, <3>5, <2>4 DEF Receive, ForwarderEnds, TypeOK
    <3> QED BY <2>4, <3>2, <3>3, <3>4, <3>5
  <2> QED BY <2>1, <2>2, <2>3, <2>4 DEF Next, Winds
<1>2. TaskInv => \A r \in Requests : Left(r) \in Nat
  <2> SUFFICES ASSUME TaskInv, NEW r \in Requests
               PROVE  Left(r) \in Nat
    OBVIOUS
  <2>1. egress[r] \in Nat
    BY UdpAssumption DEF TaskInv, TypeOK
  <2> QED BY <2>1 DEF Left
<1> QED BY <1>1, <1>2, TaskInvCorrect, PTL DEF Spec
=============================================================================
