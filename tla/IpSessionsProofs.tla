-------------------------- MODULE IpSessionsProofs ---------------------------
(***************************************************************************)
(* Proofs about IpSessions, for every number of requests, every pool and   *)
(* every limit.                                                            *)
(***************************************************************************)
EXTENDS IpSessions, FiniteSetTheorems, TLAPS

(* A configured network always has a usable address: usable_bounds never   *)
(* leaves a pool empty.                                                    *)
LEMMA UsableNonEmpty ==
  ASSUME NEW f \in ConfiguredFamilies
  PROVE  /\ UsableBounds(PoolOf[f]).first \in Nat
         /\ UsableBounds(PoolOf[f]).last \in Nat
         /\ UsableBounds(PoolOf[f]).first <= UsableBounds(PoolOf[f]).last
         /\ Usable(PoolOf[f]) \subseteq Nat
         /\ f \in Families
<1>1. PoolOf[f] \in Network /\ PoolOf[f].first <= PoolOf[f].last /\ f \in Families
  BY PoolsAssumption
<1> QED BY <1>1 DEF Network, UsableBounds, Usable

(* A pool keeps its bounds, and its cursor stays usable, when it leases a  *)
(* free address or takes one back.                                         *)
LEMMA NewPoolOK ==
  ASSUME NEW f \in ConfiguredFamilies
  PROVE  PoolOK(f, NewPool(PoolOf[f]))
BY UsableNonEmpty DEF PoolOK, NewPool, Usable

LEMMA LeaseOK ==
  ASSUME NEW f \in ConfiguredFamilies, NEW p, PoolOK(f, p), NEW n \in Free(p)
  PROVE  /\ PoolOK(f, Lease(p, n))
         /\ n \in Usable(PoolOf[f]) /\ n \notin p.leased
         /\ Lease(p, n).leased = p.leased \cup {n}
<1>1. n \in Usable(PoolOf[f]) /\ n \notin p.leased
  BY DEF PoolOK, Free, Usable
<1>2. Successor(p, n) \in Usable(PoolOf[f])
  BY <1>1, UsableNonEmpty DEF PoolOK, Usable, Successor
<1>3. Successor(p, n) \in Nat /\ n \in Nat
  BY <1>1, <1>2, UsableNonEmpty
<1>4. p \in [first : Nat, last : Nat, next : Nat, leased : SUBSET Nat]
  BY DEF PoolOK
<1>5. /\ Lease(p, n) \in [first : Nat, last : Nat, next : Nat, leased : SUBSET Nat]
      /\ Lease(p, n).first = p.first /\ Lease(p, n).last = p.last
      /\ Lease(p, n).next = Successor(p, n)
      /\ Lease(p, n).leased = p.leased \cup {n}
  BY <1>3, <1>4 DEF Lease
<1> QED BY <1>1, <1>2, <1>5 DEF PoolOK

LEMMA ReleaseOK ==
  ASSUME NEW f \in ConfiguredFamilies, NEW p, PoolOK(f, p), NEW n
  PROVE  PoolOK(f, Release(p, n)) /\ Release(p, n).leased = p.leased \ {n}
BY DEF PoolOK, Release

------------------------------------------------------------------------------
LEMMA PoolAddressesType ==
  /\ \A f \in ConfiguredFamilies : \A n \in Usable(PoolOf[f]) : <<f, n>> \in PoolAddresses
  /\ \A a \in PoolAddresses :
       /\ a[1] \in ConfiguredFamilies /\ a[2] \in Usable(PoolOf[a[1]])
       /\ a = <<a[1], a[2]>>
BY DEF PoolAddresses

LEMMA InitTypeOK == Init => TypeOK
<1> SUFFICES ASSUME Init PROVE TypeOK
  OBVIOUS
<1>1. ControlTypeOK
  BY DEF Init, ControlTypeOK, Phases
<1>2. QuotaTypeOK
  BY DEF Init, QuotaTypeOK
<1>3. PoolTypeOK
  BY NewPoolOK DEF Init, PoolTypeOK
<1>4. SessionTypeOK
  BY DEF Init, SessionTypeOK
<1>5. RegistryTypeOK
  BY DEF Init, RegistryTypeOK
<1>6. TunTypeOK
  BY DEF Init, TunTypeOK, TunIdle
<1> QED BY <1>1, <1>2, <1>3, <1>4, <1>5, <1>6 DEF TypeOK

(* A move to a phase keeps pc a function to phases, whoever moves.         *)
LEMMA GotoType ==
  ASSUME ControlTypeOK, NEW r \in Requests, NEW from, NEW to \in Phases, Goto(r, from, to)
  PROVE  /\ pc' \in [Requests -> Phases]
         /\ pc[r] = from /\ pc'[r] = to
         /\ \A s \in Requests : s # r => pc'[s] = pc[s]
BY DEF ControlTypeOK, Goto

LEMMA NextTypeOK == TypeOK /\ [Next]_vars => TypeOK'
<1> SUFFICES ASSUME TypeOK, [Next]_vars PROVE TypeOK'
  OBVIOUS
<1> USE DEF TypeOK
<1>1. UNCHANGED conn /\ pc' \in [Requests -> Phases] => ControlTypeOK'
  BY DEF ControlTypeOK
<1>2. UNCHANGED quotaVars => QuotaTypeOK'
  BY DEF QuotaTypeOK, quotaVars
<1>3. UNCHANGED <<pool, lease>> => PoolTypeOK'
  BY DEF PoolTypeOK
<1>4. UNCHANGED sessionVars => SessionTypeOK'
  BY DEF SessionTypeOK, sessionVars
<1>5. UNCHANGED registryVars => RegistryTypeOK'
  BY DEF RegistryTypeOK, registryVars
<1>6. UNCHANGED tun => TunTypeOK'
  BY DEF TunTypeOK, TunIdle
<1>7. pc \in [Requests -> Phases]
  BY DEF ControlTypeOK
<1>8. ASSUME NEW r \in Requests, Accept(r) PROVE TypeOK'
  BY <1>8, <1>1, <1>2, <1>3, <1>4, <1>5, <1>6, GotoType DEF Accept, Phases
<1>9. ASSUME NEW r \in Requests, Reject(r) PROVE TypeOK'
  BY <1>9, <1>1, <1>2, <1>3, <1>4, <1>5, <1>6, GotoType DEF Reject, Phases
<1>10. ASSUME NEW r \in Requests, FailBeforeInsert(r) PROVE TypeOK'
  BY <1>10, <1>1, <1>2, <1>3, <1>4, <1>5, <1>6, GotoType DEF FailBeforeInsert, Phases
<1>11. ASSUME NEW r \in Requests, Respond(r) PROVE TypeOK'
  BY <1>11, <1>1, <1>2, <1>3, <1>4, <1>5, <1>6, GotoType DEF Respond, Phases
<1>12. ASSUME NEW r \in Requests, FinishStream(r) PROVE TypeOK'
  BY <1>12, <1>1, <1>2, <1>3, <1>4, <1>5, <1>6, GotoType DEF FinishStream, Phases
<1>13. ASSUME NEW r \in Requests, Cancel(r) PROVE TypeOK'
  BY <1>13, <1>1, <1>2, <1>3, <1>4, <1>5, <1>6, <1>7 DEF Cancel, TeardownFrom, Phases
<1>14. ASSUME NEW r \in Requests, AcquireActive(r) PROVE TypeOK'
  <2>1. QuotaTypeOK'
    BY <1>14, RequestsAssumption DEF AcquireActive, QuotaTypeOK
  <2> QED BY <1>14, <2>1, <1>1, <1>3, <1>4, <1>5, <1>6, GotoType DEF AcquireActive, Phases
<1>15. ASSUME NEW r \in Requests, AcquireWindow(r) PROVE TypeOK'
  <2>1. QuotaTypeOK'
    BY <1>15, RequestsAssumption DEF AcquireWindow, QuotaTypeOK
  <2> QED BY <1>15, <2>1, <1>1, <1>3, <1>4, <1>5, <1>6, GotoType DEF AcquireWindow, Phases
<1>16. ASSUME NEW r \in Requests, Rollback(r) PROVE TypeOK'
  <2>1. QuotaTypeOK'
    BY <1>16, RequestsAssumption DEF Rollback, Discharge, QuotaTypeOK
  <2> QED BY <1>16, <2>1, <1>1, <1>3, <1>4, <1>5, <1>6, GotoType DEF Rollback, Phases
<1>17. ASSUME NEW r \in Requests, DropQuota(r) PROVE TypeOK'
  <2>1. QuotaTypeOK'
    BY <1>17, RequestsAssumption DEF DropQuota, Discharge, QuotaTypeOK
  <2> QED BY <1>17, <2>1, <1>1, <1>3, <1>4, <1>5, <1>6, GotoType DEF DropQuota, Phases
<1>18. ASSUME NEW r \in Requests, LeaseIpv4(r) PROVE TypeOK'
  <2>1. PoolTypeOK'
    <3>1. CASE UNCHANGED <<pool, lease>>
      BY <3>1, <1>3
    <3>2. ASSUME "ipv4" \in ConfiguredFamilies, NEW n \in Free(pool["ipv4"]),
                 pool' = [pool EXCEPT !["ipv4"] = Lease(@, n)],
                 lease' = [lease EXCEPT ![r] = @ \cup {<<"ipv4", n>>}]
          PROVE  PoolTypeOK'
      <4>1. PoolOK("ipv4", pool'["ipv4"]) /\ n \in Usable(PoolOf["ipv4"])
        BY <3>2, LeaseOK DEF PoolTypeOK
      <4>2. <<"ipv4", n>> \in PoolAddresses
        BY <3>2, <4>1, PoolAddressesType
      <4> QED BY <3>2, <4>1, <4>2 DEF PoolTypeOK
    <3> QED BY <1>18, <3>1, <3>2 DEF LeaseIpv4, LeaseFamily
  <2> QED BY <1>18, <2>1, <1>1, <1>2, <1>3, <1>4, <1>5, <1>6, GotoType DEF LeaseIpv4, LeaseFamily, Phases
<1>19. ASSUME NEW r \in Requests, LeaseIpv6(r) PROVE TypeOK'
  <2>1. PoolTypeOK'
    <3>1. CASE UNCHANGED <<pool, lease>>
      BY <3>1, <1>3
    <3>2. ASSUME "ipv6" \in ConfiguredFamilies, NEW n \in Free(pool["ipv6"]),
                 pool' = [pool EXCEPT !["ipv6"] = Lease(@, n)],
                 lease' = [lease EXCEPT ![r] = @ \cup {<<"ipv6", n>>}]
          PROVE  PoolTypeOK'
      <4>1. PoolOK("ipv6", pool'["ipv6"]) /\ n \in Usable(PoolOf["ipv6"])
        BY <3>2, LeaseOK DEF PoolTypeOK
      <4>2. <<"ipv6", n>> \in PoolAddresses
        BY <3>2, <4>1, PoolAddressesType
      <4> QED BY <3>2, <4>1, <4>2 DEF PoolTypeOK
    <3> QED BY <1>19, <3>1, <3>2 DEF LeaseIpv6, LeaseFamily
  <2> QED BY <1>19, <2>1, <1>1, <1>2, <1>3, <1>4, <1>5, <1>6, GotoType DEF LeaseIpv6, LeaseFamily, Phases
<1>20. ASSUME NEW r \in Requests, ReleaseIpv4(r) PROVE TypeOK'
  <2>1. PoolTypeOK'
    <3>1. CASE UNCHANGED <<pool, lease>>
      BY <3>1, <1>3
    <3>2. ASSUME NEW a \in lease[r], a[1] = "ipv4",
                 pool' = [pool EXCEPT !["ipv4"] = Release(@, a[2])],
                 lease' = [lease EXCEPT ![r] = @ \ {a}]
          PROVE  PoolTypeOK'
      <4>1. "ipv4" \in ConfiguredFamilies
        BY <3>2, PoolAddressesType DEF PoolTypeOK
      <4>2. PoolOK("ipv4", pool'["ipv4"])
        BY <3>2, <4>1, ReleaseOK DEF PoolTypeOK
      <4> QED BY <3>2, <4>1, <4>2 DEF PoolTypeOK
    <3> QED BY <1>20, <3>1, <3>2 DEF ReleaseIpv4, ReleaseFamily
  <2> QED BY <1>20, <2>1, <1>1, <1>2, <1>3, <1>4, <1>5, <1>6, GotoType DEF ReleaseIpv4, ReleaseFamily, After, Phases
<1>21. ASSUME NEW r \in Requests, ReleaseIpv6(r) PROVE TypeOK'
  <2>1. PoolTypeOK'
    <3>1. CASE UNCHANGED <<pool, lease>>
      BY <3>1, <1>3
    <3>2. ASSUME NEW a \in lease[r], a[1] = "ipv6",
                 pool' = [pool EXCEPT !["ipv6"] = Release(@, a[2])],
                 lease' = [lease EXCEPT ![r] = @ \ {a}]
          PROVE  PoolTypeOK'
      <4>1. "ipv6" \in ConfiguredFamilies
        BY <3>2, PoolAddressesType DEF PoolTypeOK
      <4>2. PoolOK("ipv6", pool'["ipv6"])
        BY <3>2, <4>1, ReleaseOK DEF PoolTypeOK
      <4> QED BY <3>2, <4>1, <4>2 DEF PoolTypeOK
    <3> QED BY <1>21, <3>1, <3>2 DEF ReleaseIpv6, ReleaseFamily
  <2> QED BY <1>21, <2>1, <1>1, <1>2, <1>3, <1>4, <1>5, <1>6, GotoType DEF ReleaseIpv6, ReleaseFamily, After, Phases
<1>22. ASSUME NEW r \in Requests, Start(r) PROVE TypeOK'
  <2>1. SessionTypeOK'
    BY <1>22, <1>4 DEF Start, SessionTypeOK, PoolTypeOK
  <2> QED BY <1>22, <2>1, <1>1, <1>2, <1>3, <1>4, <1>5, <1>6, <1>7, GotoType DEF Start, Phases
<1>23. ASSUME NEW r \in Requests, BeginReplace(r) PROVE TypeOK'
  <2>1. SessionTypeOK'
    BY <1>23, InputsAssumption, <1>4 DEF BeginReplace, SessionTypeOK
  <2> QED BY <1>23, <2>1, <1>1, <1>2, <1>3, <1>4, <1>5, <1>6, <1>7, GotoType DEF BeginReplace, Phases
<1>24. ASSUME NEW r \in Requests, CloseReceiver(r) PROVE TypeOK'
  <2>1. SessionTypeOK'
    BY <1>24, <1>4 DEF CloseReceiver, SessionTypeOK
  <2> QED BY <1>24, <2>1, <1>1, <1>2, <1>3, <1>4, <1>5, <1>6, <1>7, GotoType DEF CloseReceiver, Phases, After
<1>25. ASSUME NEW r \in Requests, SendToClient(r) PROVE TypeOK'
  <2>1. SessionTypeOK'
    BY <1>25, <1>4 DEF SendToClient, SessionTypeOK
  <2> QED BY <1>25, <2>1, <1>1, <1>2, <1>3, <1>4, <1>5, <1>6, <1>7, GotoType DEF SendToClient, Phases
<1>26. ASSUME NEW r \in Requests, CommitReplace(r) PROVE TypeOK'
  <2>1. SessionTypeOK'
    BY <1>26 DEF CommitReplace, SessionTypeOK
  <2>2. RegistryTypeOK'
    BY <1>26, <1>5 DEF CommitReplace, RegistryTypeOK, RoutesOfOthers, SessionTypeOK
  <2> QED BY <1>26, <2>1, <2>2, <1>1, <1>2, <1>3, <1>4, <1>5, <1>6, GotoType DEF CommitReplace, Phases
<1>27. ASSUME NEW r \in Requests, Insert(r) PROVE TypeOK'
  <2>1. RegistryTypeOK'
    BY <1>27, <1>5 DEF Insert, RegistryTypeOK
  <2> QED BY <1>27, <2>1, <1>1, <1>2, <1>3, <1>4, <1>5, <1>6, GotoType DEF Insert, Phases
<1>28. ASSUME NEW r \in Requests, Unregister(r) PROVE TypeOK'
  <2>1. RegistryTypeOK'
    BY <1>28, <1>5 DEF Unregister, RegistryTypeOK, RoutesOfOthers
  <2> QED BY <1>28, <2>1, <1>1, <1>2, <1>3, <1>4, <1>5, <1>6, GotoType DEF Unregister, After, Phases
<1>29. ASSUME NEW c \in Connections, StopConnection(c) PROVE TypeOK'
  <2>1. ControlTypeOK'
    BY <1>29 DEF StopConnection, ControlTypeOK
  <2> QED BY <1>29, <2>1, <1>1, <1>2, <1>3, <1>4, <1>5, <1>6 DEF StopConnection
<1>30. ASSUME NEW c \in Connections, DrainTimeout(c) PROVE TypeOK'
  <2>1. ControlTypeOK'
    BY <1>30 DEF DrainTimeout, ControlTypeOK
  <2> QED BY <1>30, <2>1, <1>1, <1>2, <1>3, <1>4, <1>5, <1>6 DEF DrainTimeout
<1>31. ASSUME NEW p \in Principals, WindowElapses(p) PROVE TypeOK'
  <2>1. QuotaTypeOK'
    BY <1>31 DEF WindowElapses, QuotaTypeOK
  <2> QED BY <1>31, <2>1, <1>1, <1>2, <1>3, <1>4, <1>5, <1>6, <1>7 DEF WindowElapses
<1>32. CASE TunSelect
  <2>1. TunTypeOK'
    BY <1>32 DEF TunSelect, TunTypeOK, TunIdle, RegistryTypeOK
  <2> QED BY <1>32, <2>1, <1>1, <1>2, <1>3, <1>4, <1>5, <1>6, <1>7 DEF TunSelect
<1>33. CASE TunValidate
  <2>1. TunTypeOK'
    BY <1>33 DEF TunValidate, TunTypeOK, TunIdle
  <2> QED BY <1>33, <2>1, <1>1, <1>2, <1>3, <1>4, <1>5, <1>6, <1>7 DEF TunValidate
<1>34. CASE TunDrop
  <2>1. TunTypeOK'
    BY <1>34 DEF TunDrop, TunTypeOK, TunIdle
  <2> QED BY <1>34, <2>1, <1>1, <1>2, <1>3, <1>4, <1>5, <1>6, <1>7 DEF TunDrop
<1>35. CASE TunEnqueue
  <2>1. tun.session \in Requests /\ tun.packet \in Packets
    BY <1>35 DEF TunEnqueue, TunTypeOK, TunIdle
  <2>2. SessionTypeOK'
    BY <1>35, <2>1 DEF TunEnqueue, SessionTypeOK
  <2>3. TunTypeOK'
    BY <1>35 DEF TunEnqueue, TunTypeOK
  <2> QED BY <1>35, <2>2, <2>3, <1>1, <1>2, <1>3, <1>4, <1>5, <1>6, <1>7 DEF TunEnqueue
<1>36. CASE UNCHANGED vars
  BY <1>36, <1>1, <1>2, <1>3, <1>4, <1>5, <1>6, <1>7 DEF vars
<1> QED
  BY <1>8, <1>9, <1>10, <1>11, <1>12, <1>13, <1>14, <1>15, <1>16, <1>17, <1>18, <1>19, <1>20, <1>21, <1>22, <1>23, <1>24, <1>25, <1>26, <1>27, <1>28, <1>29, <1>30, <1>31, <1>32, <1>33, <1>34, <1>35, <1>36
     DEF Next, Run, Peer, Tun

(* Every reachable state is well typed, and no pool's cursor or lease ever *)
(* leaves the usable addresses of its network.                             *)
THEOREM TypeCorrect == Spec => []TypeOK
<1>1. Init => TypeOK
  BY InitTypeOK
<1>2. TypeOK /\ [Next]_vars => TypeOK'
  BY NextTypeOK
<1> QED BY <1>1, <1>2, PTL DEF Spec

------------------------------------------------------------------------------
(* The inductive invariant.                                                *)

LEMMA InitInv == Init => Inv
<1> SUFFICES ASSUME Init PROVE Inv
  OBVIOUS
<1>1. TypeOK
  BY InitTypeOK
<1>2. LeaseOwnership /\ LeaseByPhase
  <2>1. \A f \in ConfiguredFamilies : pool[f].leased = {}
    BY DEF Init, NewPool
  <2> QED BY <2>1 DEF Init, LeaseOwnership, LeaseByPhase
<1>3. SessionByPhase
  BY DEF Init, SessionByPhase, Serving, Mapped
<1>4. RegistryMatchesLeases
  BY RequestsAssumption DEF Init, RegistryMatchesLeases
<1>5. RoutesExclusive
  BY DEF Init, RoutesExclusive
<1>6. QueueByHandle
  BY DEF Init, QueueByHandle
<1>7. TunByHandle
  BY DEF Init, TunByHandle
<1>8. RoutesByAdvertisement
  BY DEF Init, RoutesByAdvertisement
<1> QED BY <1>1, <1>2, <1>3, <1>4, <1>5, <1>6, <1>7, <1>8 DEF Inv

(* The steps of a task that move it and touch no lease.                    *)
MovesOnly(r) ==
  \/ Accept(r) \/ Reject(r) \/ Cancel(r)
  \/ AcquireActive(r) \/ AcquireWindow(r) \/ Rollback(r) \/ DropQuota(r)
  \/ Start(r) \/ FailBeforeInsert(r) \/ Respond(r) \/ Insert(r)
  \/ FinishStream(r) \/ BeginReplace(r) \/ CommitReplace(r)
  \/ Unregister(r) \/ CloseReceiver(r)

(* The steps that move no task.                                            *)
Parked ==
  \/ \E r \in Requests : SendToClient(r)
  \/ \E c \in Connections : StopConnection(c) \/ DrainTimeout(c)
  \/ \E p \in Principals : WindowElapses(p)
  \/ Tun
  \/ UNCHANGED vars

LEMMA NextCases ==
  ASSUME [Next]_vars
  PROVE  \/ Parked
         \/ \E r \in Requests :
              \/ MovesOnly(r)
              \/ LeaseIpv4(r) \/ LeaseIpv6(r) \/ ReleaseIpv4(r) \/ ReleaseIpv6(r)
BY DEF Next, Run, Peer, Parked, MovesOnly

LEMMA ParkedMovesNothing ==
  ASSUME Parked
  PROVE  UNCHANGED <<pc, pool, lease, assigned, receiver, routes, next, registryVars>>
BY DEF Parked, SendToClient, StopConnection, DrainTimeout, WindowElapses, vars, sessionVars,
       Tun, TunSelect, TunValidate, TunDrop, TunEnqueue

Leaseless == {"idle", "resolving", "window", "rollback", "lease4", "unquota", "done"}

LEMMA MovesOnlyKeepsLeases ==
  ASSUME TypeOK, NEW r \in Requests, MovesOnly(r)
  PROVE  /\ UNCHANGED <<pool, lease>>
         /\ \A s \in Requests : s # r => pc'[s] = pc[s]
         /\ pc'[r] \notin {"lease6", "release6"}
         /\ pc'[r] \in Leaseless => pc[r] \in Leaseless
<1> USE DEF Leaseless
<1>1. pc \in [Requests -> Phases]
  BY DEF TypeOK, ControlTypeOK
<1>2. CASE Accept(r) \/ Reject(r) \/ FailBeforeInsert(r) \/ Respond(r) \/ FinishStream(r)
  BY <1>1, <1>2 DEF Accept, Reject, FailBeforeInsert, Respond, FinishStream, Goto
<1>3. CASE AcquireActive(r) \/ AcquireWindow(r) \/ Rollback(r) \/ DropQuota(r)
  BY <1>1, <1>3 DEF AcquireActive, AcquireWindow, Rollback, DropQuota, Goto
<1>4. CASE Cancel(r)
  BY <1>1, <1>4 DEF Cancel, TeardownFrom, Awaiting
<1>5. CASE Start(r) \/ Insert(r) \/ BeginReplace(r) \/ CommitReplace(r)
  BY <1>1, <1>5 DEF Start, Insert, BeginReplace, CommitReplace, Goto
<1>6. CASE Unregister(r) \/ CloseReceiver(r)
  BY <1>1, <1>6 DEF Unregister, CloseReceiver, Goto, After
<1> QED BY <1>2, <1>3, <1>4, <1>5, <1>6 DEF MovesOnly

(* A task takes the next free address of a family it holds none of.        *)
LEMMA LeaseKeepsOwnership ==
  ASSUME TypeOK, LeaseOwnership, LeaseByPhase, NEW r \in Requests, NEW f \in ConfiguredFamilies,
         NEW n \in Free(pool[f]),
         pool' = [pool EXCEPT ![f] = Lease(@, n)],
         lease' = [lease EXCEPT ![r] = @ \cup {<<f, n>>}],
         pc[r] \notin {"idle", "resolving", "done"}, pc'[r] \notin {"idle", "resolving", "done"},
         \A s \in Requests : s # r => pc'[s] = pc[s]
  PROVE  LeaseOwnership'
<1>1. PoolOK(f, pool[f]) /\ DOMAIN pool = ConfiguredFamilies
  BY DEF TypeOK, PoolTypeOK
<1>2. n \in Usable(PoolOf[f]) /\ n \notin pool[f].leased
      /\ pool'[f].leased = pool[f].leased \cup {n}
  BY <1>1, LeaseOK
<1>3. \A g \in ConfiguredFamilies : g # f => pool'[g] = pool[g]
  BY <1>1
<1>4. /\ lease'[r] = lease[r] \cup {<<f, n>>}
      /\ \A s \in Requests : s # r => lease'[s] = lease[s]
  BY DEF TypeOK, PoolTypeOK
<1>5. \A s \in Requests : <<f, n>> \notin lease[s]
  BY <1>2 DEF LeaseOwnership
<1> QED BY <1>2, <1>3, <1>4, <1>5 DEF LeaseOwnership

(* A task gives back an address it owns.                                   *)
LEMMA ReleaseKeepsOwnership ==
  ASSUME TypeOK, LeaseOwnership, NEW r \in Requests, NEW f \in ConfiguredFamilies,
         NEW a \in lease[r], a[1] = f,
         pool' = [pool EXCEPT ![f] = Release(@, a[2])],
         lease' = [lease EXCEPT ![r] = @ \ {a}],
         pc'[r] \notin {"idle", "resolving", "done"},
         \A s \in Requests : s # r => pc'[s] = pc[s]
  PROVE  LeaseOwnership'
<1>1. PoolOK(f, pool[f]) /\ DOMAIN pool = ConfiguredFamilies
  BY DEF TypeOK, PoolTypeOK
<1>2. pool'[f].leased = pool[f].leased \ {a[2]}
  BY <1>1, ReleaseOK
<1>3. \A g \in ConfiguredFamilies : g # f => pool'[g] = pool[g]
  BY <1>1
<1>4. /\ lease'[r] = lease[r] \ {a}
      /\ \A s \in Requests : s # r => lease'[s] = lease[s]
  BY DEF TypeOK, PoolTypeOK
<1>5. a = <<f, a[2]>>
  BY PoolAddressesType DEF TypeOK, PoolTypeOK
<1>6. \A s \in Requests : s # r => <<f, a[2]>> \notin lease[s]
  BY <1>5 DEF LeaseOwnership
<1> QED BY <1>2, <1>3, <1>4, <1>5, <1>6 DEF LeaseOwnership
LEMMA LeaseStep ==
  ASSUME Inv, [Next]_vars
  PROVE  LeaseOwnership' /\ LeaseByPhase'
<1> USE DEF Inv
<1>1. /\ pc \in [Requests -> Phases]
      /\ lease \in [Requests -> SUBSET PoolAddresses]
  BY DEF TypeOK, ControlTypeOK, PoolTypeOK
<1>2. CASE Parked
  BY <1>2, ParkedMovesNothing DEF LeaseOwnership, LeaseByPhase
<1>3. ASSUME NEW r \in Requests, MovesOnly(r)
      PROVE  LeaseOwnership' /\ LeaseByPhase'
  <2>1. /\ UNCHANGED <<pool, lease>>
        /\ \A s \in Requests : s # r => pc'[s] = pc[s]
        /\ pc'[r] \notin {"lease6", "release6"}
        /\ pc'[r] \in Leaseless => pc[r] \in Leaseless
    BY <1>3, MovesOnlyKeepsLeases
  <2>2. pc'[r] \in Leaseless => lease[r] = {}
    BY <2>1 DEF LeaseByPhase, Leaseless
  <2>3. LeaseOwnership'
    BY <2>1, <2>2 DEF LeaseOwnership, Leaseless
  <2>4. LeaseByPhase'
    BY <2>1, <2>2 DEF LeaseByPhase, Leaseless
  <2> QED BY <2>3, <2>4
<1>4. ASSUME NEW r \in Requests, LeaseIpv4(r)
      PROVE  LeaseOwnership' /\ LeaseByPhase'
  <2>1. /\ pc[r] = "lease4" /\ pc'[r] = "lease6"
        /\ \A s \in Requests : s # r => pc'[s] = pc[s]
    BY <1>1, <1>4 DEF LeaseIpv4, LeaseFamily, Goto
  <2>2. CASE UNCHANGED <<pool, lease>>
    BY <2>1, <2>2 DEF LeaseOwnership, LeaseByPhase
  <2>3. ASSUME "ipv4" \in ConfiguredFamilies, NEW n \in Free(pool["ipv4"]),
               pool' = [pool EXCEPT !["ipv4"] = Lease(@, n)],
               lease' = [lease EXCEPT ![r] = @ \cup {<<"ipv4", n>>}]
        PROVE  LeaseOwnership' /\ LeaseByPhase'
    <3>1. LeaseOwnership'
      BY <2>1, <2>3, LeaseKeepsOwnership
    <3>2. /\ lease'[r] = lease[r] \cup {<<"ipv4", n>>}
          /\ \A s \in Requests : s # r => lease'[s] = lease[s]
      BY <1>1, <2>3
    <3>3. LeaseByPhase'
      BY <2>1, <3>2 DEF LeaseByPhase
    <3> QED BY <3>1, <3>3
  <2> QED BY <1>4, <2>2, <2>3 DEF LeaseIpv4, LeaseFamily
<1>5. ASSUME NEW r \in Requests, LeaseIpv6(r)
      PROVE  LeaseOwnership' /\ LeaseByPhase'
  <2>1. /\ pc[r] = "lease6" /\ pc'[r] = "start"
        /\ \A s \in Requests : s # r => pc'[s] = pc[s]
    BY <1>1, <1>5 DEF LeaseIpv6, LeaseFamily, Goto
  <2>2. CASE UNCHANGED <<pool, lease>>
    BY <2>1, <2>2 DEF LeaseOwnership, LeaseByPhase
  <2>3. ASSUME "ipv6" \in ConfiguredFamilies, NEW n \in Free(pool["ipv6"]),
               pool' = [pool EXCEPT !["ipv6"] = Lease(@, n)],
               lease' = [lease EXCEPT ![r] = @ \cup {<<"ipv6", n>>}]
        PROVE  LeaseOwnership' /\ LeaseByPhase'
    <3>1. LeaseOwnership'
      BY <2>1, <2>3, LeaseKeepsOwnership
    <3>2. /\ lease'[r] = lease[r] \cup {<<"ipv6", n>>}
          /\ \A s \in Requests : s # r => lease'[s] = lease[s]
      BY <1>1, <2>3
    <3>3. LeaseByPhase'
      BY <2>1, <3>2 DEF LeaseByPhase
    <3> QED BY <3>1, <3>3
  <2> QED BY <1>5, <2>2, <2>3 DEF LeaseIpv6, LeaseFamily
<1>6. ASSUME NEW r \in Requests, ReleaseIpv4(r)
      PROVE  LeaseOwnership' /\ LeaseByPhase'
  <2>1. /\ pc[r] = "release4" /\ pc'[r] = "release6"
        /\ \A s \in Requests : s # r => pc'[s] = pc[s]
    BY <1>1, <1>6 DEF ReleaseIpv4, ReleaseFamily, Goto, After
  <2>2. \A a \in lease[r] : a[1] \in {"ipv4", "ipv6"}
    BY <1>1, PoolAddressesType, PoolsAssumption DEF Families
  <2>3. CASE ~(\E a \in lease[r] : a[1] = "ipv4") /\ UNCHANGED <<pool, lease>>
    BY <2>1, <2>2, <2>3 DEF LeaseOwnership, LeaseByPhase
  <2>4. ASSUME NEW a \in lease[r], a[1] = "ipv4",
               pool' = [pool EXCEPT !["ipv4"] = Release(@, a[2])],
               lease' = [lease EXCEPT ![r] = @ \ {a}]
        PROVE  LeaseOwnership' /\ LeaseByPhase'
    <3>1. "ipv4" \in ConfiguredFamilies
      BY <1>1, <2>4, PoolAddressesType
    <3>2. LeaseOwnership'
      BY <2>1, <2>4, <3>1, ReleaseKeepsOwnership
    <3>3. /\ lease'[r] = lease[r] \ {a}
          /\ \A s \in Requests : s # r => lease'[s] = lease[s]
      BY <1>1, <2>4
    <3>4. LeaseByPhase'
      BY <2>1, <2>2, <2>4, <3>3 DEF LeaseByPhase
    <3> QED BY <3>2, <3>4
  <2> QED BY <1>6, <2>3, <2>4 DEF ReleaseIpv4, ReleaseFamily
<1>7. ASSUME NEW r \in Requests, ReleaseIpv6(r)
      PROVE  LeaseOwnership' /\ LeaseByPhase'
  <2>1. /\ pc[r] = "release6" /\ pc'[r] = "unquota"
        /\ \A s \in Requests : s # r => pc'[s] = pc[s]
    BY <1>1, <1>7 DEF ReleaseIpv6, ReleaseFamily, Goto, After
  <2>2. \A a \in lease[r] : a[1] \in {"ipv4", "ipv6"}
    BY <1>1, PoolAddressesType, PoolsAssumption DEF Families
  <2>3. CASE ~(\E a \in lease[r] : a[1] = "ipv6") /\ UNCHANGED <<pool, lease>>
    BY <2>1, <2>2, <2>3 DEF LeaseOwnership, LeaseByPhase
  <2>4. ASSUME NEW a \in lease[r], a[1] = "ipv6",
               pool' = [pool EXCEPT !["ipv6"] = Release(@, a[2])],
               lease' = [lease EXCEPT ![r] = @ \ {a}]
        PROVE  LeaseOwnership' /\ LeaseByPhase'
    <3>1. "ipv6" \in ConfiguredFamilies
      BY <1>1, <2>4, PoolAddressesType
    <3>2. LeaseOwnership'
      BY <2>1, <2>4, <3>1, ReleaseKeepsOwnership
    <3>3. /\ lease'[r] = lease[r] \ {a}
          /\ \A s \in Requests : s # r => lease'[s] = lease[s]
      BY <1>1, <2>4
    <3>4. LeaseByPhase'
      BY <2>1, <2>2, <2>4, <3>3 DEF LeaseByPhase
    <3> QED BY <3>2, <3>4
  <2> QED BY <1>7, <2>3, <2>4 DEF ReleaseIpv6, ReleaseFamily
<1> QED BY <1>2, <1>3, <1>4, <1>5, <1>6, <1>7, NextCases
(* A queue grows only where a receiver is open, and a task reads only from *)
(* its own queue while it is active.                                       *)
LEMMA ParkedQueues ==
  ASSUME Inv, Parked
  PROVE  \A r \in Requests : pc[r] \notin Serving => toClient'[r] = toClient[r]
<1> SUFFICES ASSUME NEW r \in Requests, pc[r] \notin Serving PROVE toClient'[r] = toClient[r]
  OBVIOUS
<1>1. toClient \in [Requests -> Seq(Packets)] /\ receiver[r] # "open"
  BY DEF Inv, TypeOK, SessionTypeOK, SessionByPhase
<1>2. ASSUME NEW q \in Requests, SendToClient(q) PROVE toClient'[r] = toClient[r]
  BY <1>1, <1>2 DEF SendToClient, Serving
<1>3. CASE TunEnqueue
  BY <1>1, <1>3 DEF TunEnqueue
<1>4. CASE ~TunEnqueue /\ ~(\E q \in Requests : SendToClient(q))
  BY <1>4 DEF Parked, StopConnection, DrainTimeout, WindowElapses, vars, sessionVars,
              Tun, TunSelect, TunValidate, TunDrop
<1> QED BY <1>2, <1>3, <1>4

LEMMA SessionStep ==
  ASSUME Inv, [Next]_vars
  PROVE  SessionByPhase'
<1> USE DEF Serving, Mapped, Preparing
<1>1. /\ pc \in [Requests -> Phases]
      /\ lease \in [Requests -> SUBSET PoolAddresses]
      /\ assigned \in [Requests -> SUBSET PoolAddresses]
      /\ receiver \in [Requests -> {"none", "open", "closed"}]
      /\ toClient \in [Requests -> Seq(Packets)]
      /\ routes \in [Requests -> SUBSET AddressRange]
      /\ next \in [Requests -> SUBSET AddressRange]
      /\ streams \subseteq Requests
  BY DEF Inv, TypeOK, ControlTypeOK, PoolTypeOK, SessionTypeOK, RegistryTypeOK
<1>2. SessionByPhase
  BY DEF Inv
<1>3. CASE Parked
  <2>1. UNCHANGED <<pc, lease, assigned, receiver, routes, next, streams>>
    BY <1>3, ParkedMovesNothing DEF registryVars
  <2> QED BY <1>2, <1>3, <2>1, ParkedQueues DEF SessionByPhase
<1>4. ASSUME NEW r \in Requests, LeaseIpv4(r) \/ LeaseIpv6(r) PROVE SessionByPhase'
  <2>1. /\ pc[r] \in {"lease4", "lease6"} /\ pc'[r] \in {"lease6", "start"}
        /\ \A s \in Requests : s # r => pc'[s] = pc[s] /\ lease'[s] = lease[s]
        /\ UNCHANGED <<sessionVars, streams>>
    BY <1>1, <1>4 DEF LeaseIpv4, LeaseIpv6, LeaseFamily, Goto, registryVars
  <2> QED BY <1>2, <2>1 DEF SessionByPhase, sessionVars
<1>5. ASSUME NEW r \in Requests, ReleaseIpv4(r) \/ ReleaseIpv6(r) PROVE SessionByPhase'
  <2>1. /\ pc[r] \in {"release4", "release6"} /\ pc'[r] \in {"release6", "unquota"}
        /\ \A s \in Requests : s # r => pc'[s] = pc[s] /\ lease'[s] = lease[s]
        /\ UNCHANGED <<sessionVars, streams>>
    BY <1>1, <1>5 DEF ReleaseIpv4, ReleaseIpv6, ReleaseFamily, Goto, After, registryVars
  <2> QED BY <1>2, <2>1 DEF SessionByPhase, sessionVars
<1>6. ASSUME NEW r \in Requests,
             \/ Accept(r) \/ Reject(r) \/ Cancel(r)
             \/ AcquireActive(r) \/ AcquireWindow(r) \/ Rollback(r) \/ DropQuota(r)
             \/ FailBeforeInsert(r) \/ Respond(r) \/ FinishStream(r)
      PROVE  SessionByPhase'
  <2>1. /\ \A s \in Requests : s # r => pc'[s] = pc[s]
        /\ UNCHANGED <<lease, sessionVars, streams>>
        /\ pc'[r] \in Serving <=> pc[r] \in Serving
        /\ pc'[r] \in Mapped <=> pc[r] \in Mapped
        /\ pc'[r] \in Preparing \cup {"provisioned", "accepted"}
              => pc[r] \in Preparing \cup {"provisioned", "accepted"}
    BY <1>1, <1>6 DEF Accept, Reject, Cancel, AcquireActive, AcquireWindow, Rollback, DropQuota,
       FailBeforeInsert, Respond, FinishStream, Goto, TeardownFrom, Awaiting, registryVars
  <2> QED BY <1>2, <2>1 DEF SessionByPhase, sessionVars
<1>7. ASSUME NEW r \in Requests, Start(r) PROVE SessionByPhase'
  <2>1. CASE Compatible(r)
    <3>1. lease[r] # {}
      BY <2>1 DEF Compatible
    <3>2. /\ pc[r] = "start" /\ pc'[r] = "provisioned"
          /\ assigned'[r] = lease[r] /\ receiver'[r] = "open"
          /\ UNCHANGED <<lease, toClient, routes, next, streams>>
      BY <1>1, <1>7, <2>1 DEF Start, Goto, registryVars
    <3>3. \A s \in Requests : s # r =>
            pc'[s] = pc[s] /\ assigned'[s] = assigned[s] /\ receiver'[s] = receiver[s]
      BY <1>1, <1>7, <2>1 DEF Start, Goto
    <3> QED BY <1>2, <3>1, <3>2, <3>3 DEF SessionByPhase
  <2>2. CASE ~Compatible(r)
    BY <1>1, <1>2, <1>7, <2>2 DEF SessionByPhase, Start, Goto, registryVars, sessionVars
  <2> QED BY <2>1, <2>2
<1>8. ASSUME NEW r \in Requests, Insert(r) PROVE SessionByPhase'
  BY <1>1, <1>2, <1>8 DEF SessionByPhase, Insert, Goto, registryVars, sessionVars
<1>9. ASSUME NEW r \in Requests, BeginReplace(r) PROVE SessionByPhase'
  BY <1>1, <1>2, <1>9 DEF SessionByPhase, BeginReplace, RoutesValid, Goto, registryVars, sessionVars
<1>10. ASSUME NEW r \in Requests, CommitReplace(r) PROVE SessionByPhase'
  BY <1>1, <1>2, <1>10 DEF SessionByPhase, CommitReplace, Goto, registryVars
<1>11. ASSUME NEW r \in Requests, Unregister(r) PROVE SessionByPhase'
  BY <1>1, <1>2, <1>11 DEF SessionByPhase, Unregister, After, Goto, registryVars, sessionVars
<1>12. ASSUME NEW r \in Requests, CloseReceiver(r) PROVE SessionByPhase'
  BY <1>1, <1>2, <1>12 DEF SessionByPhase, CloseReceiver, After, Goto, registryVars
<1> QED
  BY <1>3, <1>4, <1>5, <1>6, <1>7, <1>8, <1>9, <1>10, <1>11, <1>12, NextCases DEF MovesOnly

(* Of the steps of a task, only Start makes a session, and none makes a    *)
(* task return to the phases before it; none is seen by the TUN bridge.    *)
LEMMA TaskStep ==
  ASSUME TypeOK, NEW r \in Requests,
         MovesOnly(r) \/ LeaseIpv4(r) \/ LeaseIpv6(r) \/ ReleaseIpv4(r) \/ ReleaseIpv6(r)
  PROVE  /\ tun' = tun
         /\ \A s \in Requests : pc'[s] \in Preparing => pc[s] \in Preparing
         /\ \A s \in Requests : assigned'[s] = assigned[s] \/ pc[s] = "start"
         /\ \A s \in Requests : toClient'[s] = toClient[s] \/ toClient'[s] = <<>>
<1> USE DEF Preparing
<1>1. /\ pc \in [Requests -> Phases]
      /\ assigned \in [Requests -> SUBSET PoolAddresses]
      /\ toClient \in [Requests -> Seq(Packets)]
  BY DEF TypeOK, ControlTypeOK, SessionTypeOK
<1>2. CASE Accept(r) \/ Reject(r) \/ FailBeforeInsert(r) \/ Respond(r) \/ FinishStream(r)
  BY <1>1, <1>2 DEF Accept, Reject, FailBeforeInsert, Respond, FinishStream, Goto, sessionVars
<1>3. CASE AcquireActive(r) \/ AcquireWindow(r) \/ Rollback(r) \/ DropQuota(r)
  BY <1>1, <1>3 DEF AcquireActive, AcquireWindow, Rollback, DropQuota, Goto, sessionVars
<1>4. CASE Cancel(r)
  BY <1>1, <1>4 DEF Cancel, TeardownFrom, Awaiting, sessionVars
<1>5. CASE Start(r)
  BY <1>1, <1>5 DEF Start, Goto, sessionVars
<1>6. CASE Insert(r) \/ BeginReplace(r) \/ CommitReplace(r)
  BY <1>1, <1>6 DEF Insert, BeginReplace, CommitReplace, Goto, sessionVars
<1>7. CASE Unregister(r)
  BY <1>1, <1>7 DEF Unregister, Goto, After, sessionVars
<1>8. CASE CloseReceiver(r)
  BY <1>1, <1>8 DEF CloseReceiver, Goto, After
<1>9. CASE LeaseIpv4(r) \/ LeaseIpv6(r)
  BY <1>1, <1>9 DEF LeaseIpv4, LeaseIpv6, LeaseFamily, Goto, sessionVars
<1>10. CASE ReleaseIpv4(r) \/ ReleaseIpv6(r)
  BY <1>1, <1>10 DEF ReleaseIpv4, ReleaseIpv6, ReleaseFamily, Goto, After, sessionVars
<1> QED BY <1>2, <1>3, <1>4, <1>5, <1>6, <1>7, <1>8, <1>9, <1>10 DEF MovesOnly

(* The registry and the sessions' routes change only at three steps.       *)
LEMMA RegistrySteps ==
  ASSUME [Next]_vars
  PROVE  \/ UNCHANGED <<registryVars, routes>>
         \/ \E r \in Requests : Insert(r) \/ CommitReplace(r) \/ Unregister(r)
<1>1. CASE Parked
  BY <1>1, ParkedMovesNothing
<1>2. ASSUME NEW r \in Requests, MovesOnly(r), ~Insert(r), ~CommitReplace(r), ~Unregister(r)
      PROVE  UNCHANGED <<registryVars, routes>>
  <2>1. CASE Accept(r) \/ Reject(r) \/ Cancel(r) \/ FailBeforeInsert(r) \/ Respond(r)
    BY <2>1 DEF Accept, Reject, Cancel, FailBeforeInsert, Respond, sessionVars
  <2>2. CASE AcquireActive(r) \/ AcquireWindow(r) \/ Rollback(r) \/ DropQuota(r)
    BY <2>2 DEF AcquireActive, AcquireWindow, Rollback, DropQuota, sessionVars
  <2>3. CASE Start(r) \/ FinishStream(r) \/ BeginReplace(r) \/ CloseReceiver(r)
    BY <2>3 DEF Start, FinishStream, BeginReplace, CloseReceiver, sessionVars
  <2> QED BY <1>2, <2>1, <2>2, <2>3 DEF MovesOnly
<1>3. ASSUME NEW r \in Requests,
             LeaseIpv4(r) \/ LeaseIpv6(r) \/ ReleaseIpv4(r) \/ ReleaseIpv6(r)
      PROVE  UNCHANGED <<registryVars, routes>>
  BY <1>3 DEF LeaseIpv4, LeaseIpv6, LeaseFamily, ReleaseIpv4, ReleaseIpv6, ReleaseFamily, sessionVars
<1> QED BY <1>1, <1>2, <1>3, NextCases

(* The addresses of a task change only before it is registered.            *)
LEMMA AssignedStep ==
  ASSUME TypeOK, [Next]_vars
  PROVE  \A s \in Requests : assigned'[s] = assigned[s] \/ pc[s] = "start"
BY NextCases, TaskStep, ParkedMovesNothing

LEMMA RegistryStep ==
  ASSUME Inv, [Next]_vars, SessionByPhase'
  PROVE  RegistryMatchesLeases'
<1>1. /\ streams \subseteq Requests /\ streams' \subseteq Requests
      /\ addresses \in [PoolAddresses -> Requests \cup {None}]
      /\ assigned \in [Requests -> SUBSET PoolAddresses]
  BY NextTypeOK DEF Inv, TypeOK, SessionTypeOK, RegistryTypeOK
<1>2. \A r \in streams' : assigned'[r] = lease'[r] /\ assigned'[r] # {}
  BY <1>1 DEF SessionByPhase, Serving, Mapped
<1>3. \A a \in PoolAddresses, r \in Requests :
        addresses[a] = r <=> r \in streams /\ a \in assigned[r]
  BY DEF Inv, RegistryMatchesLeases
<1>4. \A r \in Requests : pc[r] = "start" => r \notin streams /\ r \notin streams'
  <2> SUFFICES ASSUME NEW r \in Requests, pc[r] = "start"
               PROVE  r \notin streams /\ r \notin streams'
    OBVIOUS
  <2>1. r \notin streams
    BY DEF Inv, SessionByPhase, Mapped
  <2>2. ASSUME NEW q \in Requests, Insert(q) \/ CommitReplace(q) \/ Unregister(q)
        PROVE  r \notin streams'
    BY <1>1, <2>1, <2>2 DEF Insert, CommitReplace, Unregister, Goto, registryVars
  <2> QED BY <2>1, <2>2, RegistrySteps DEF registryVars
<1>5. CASE UNCHANGED registryVars
  <2>1. \A a \in PoolAddresses, r \in Requests :
          addresses'[a] = r <=> r \in streams' /\ a \in assigned'[r]
    BY <1>3, <1>4, <1>5, AssignedStep DEF Inv, registryVars
  <2> QED BY <1>2, <2>1 DEF RegistryMatchesLeases
<1>6. ASSUME NEW r \in Requests, Insert(r) PROVE RegistryMatchesLeases'
  <2>1. CASE Conflict(r)
    BY <1>5, <1>6, <2>1 DEF Insert
  <2>2. CASE ~Conflict(r)
    <3>1. /\ streams' = streams \cup {r}
          /\ addresses' = [a \in PoolAddresses |-> IF a \in assigned[r] THEN r ELSE addresses[a]]
          /\ assigned' = assigned
      BY <1>6, <2>2 DEF Insert, sessionVars
    <3>2. \A a \in PoolAddresses : a \in assigned[r] => addresses[a] = None
      BY <2>2 DEF Conflict, Owner
    <3>3. \A a \in PoolAddresses, s \in Requests :
            addresses'[a] = s <=> s \in streams' /\ a \in assigned'[s]
      BY <1>1, <1>3, <3>1, <3>2, RequestsAssumption
    <3> QED BY <1>2, <3>3 DEF RegistryMatchesLeases
  <2> QED BY <2>1, <2>2
<1>7. ASSUME NEW r \in Requests, CommitReplace(r) PROVE RegistryMatchesLeases'
  <2>1. UNCHANGED <<streams, addresses, assigned>>
    BY <1>7 DEF CommitReplace, registryVars
  <2> QED BY <1>2, <1>3, <2>1 DEF RegistryMatchesLeases
<1>8. ASSUME NEW r \in Requests, Unregister(r) PROVE RegistryMatchesLeases'
  <2>1. assigned' = assigned
    BY <1>8 DEF Unregister, sessionVars
  <2>2. CASE r \notin streams
    BY <1>5, <1>8, <2>2 DEF Unregister
  <2>3. CASE r \in streams
    <3>1. /\ streams' = streams \ {r}
          /\ addresses' = [a \in PoolAddresses |-> IF addresses[a] = r THEN None ELSE addresses[a]]
      BY <1>8, <2>3 DEF Unregister
    <3>2. \A a \in PoolAddresses, s \in Requests :
            addresses'[a] = s <=> s \in streams' /\ a \in assigned'[s]
      BY <1>1, <1>3, <2>1, <3>1, RequestsAssumption
    <3> QED BY <1>2, <3>2 DEF RegistryMatchesLeases
  <2> QED BY <2>2, <2>3
<1> QED BY <1>5, <1>6, <1>7, <1>8, RegistrySteps

------------------------------------------------------------------------------
(* Routes.                                                                 *)

LEMMA ConflictsSymmetric ==
  ASSUME NEW a \in AddressRange, NEW b \in AddressRange
  PROVE  ConflictsWith(a, b) <=> ConflictsWith(b, a)
BY DEF ConflictsWith, Overlaps

(* The second half of RoutesExclusive, route by route.                     *)
Agree ==
  \A route : route \in registered <=>
    \E r \in streams : \E range \in routes[r] : route = [range |-> range, session |-> r]

LEMMA AgreeIsUnion ==
  Agree <=>
    registered = UNION {{[range |-> range, session |-> r] : range \in routes[r]} : r \in streams}
BY DEF Agree

(* The lock of the commit is what keeps the routes exclusive: the new ones *)
(* are compared with all those of the other sessions.                      *)
LEMMA CommitKeepsRoutes ==
  ASSUME Inv, NEW r \in Requests, r \in streams, Replaceable(r, next[r]), CommitReplace(r)
  PROVE  RoutesExclusive'
<1>1. /\ registered' = RoutesOfOthers(r) \cup {[range |-> range, session |-> r] : range \in next[r]}
      /\ routes' = [routes EXCEPT ![r] = next[r]]
      /\ streams' = streams
  BY DEF CommitReplace
<1>2. /\ registered \subseteq [range : AddressRange, session : Requests]
      /\ routes \in [Requests -> SUBSET AddressRange]
      /\ next[r] \subseteq AddressRange
      /\ streams \subseteq Requests
  BY DEF Inv, TypeOK, SessionTypeOK, RegistryTypeOK
<1>3. /\ \A x, y \in registered : x.session # y.session => ~ConflictsWith(x.range, y.range)
      /\ Agree
  BY AgreeIsUnion DEF Inv, RoutesExclusive
<1>4. \A range \in next[r], route \in RoutesOfOthers(r) : ~ConflictsWith(range, route.range)
  BY DEF Replaceable
<1>5. ASSUME NEW x \in registered', NEW y \in registered', x.session # y.session
      PROVE  ~ConflictsWith(x.range, y.range)
  <2>1. CASE x \in RoutesOfOthers(r) /\ y \in RoutesOfOthers(r)
    BY <1>3, <1>5, <2>1 DEF RoutesOfOthers
  <2>2. CASE x \notin RoutesOfOthers(r)
    <3>1. x.session = r /\ x.range \in next[r]
      BY <1>1, <2>2
    <3>2. y \in RoutesOfOthers(r)
      BY <1>1, <1>5, <3>1
    <3> QED BY <1>4, <3>1, <3>2
  <2>3. CASE y \notin RoutesOfOthers(r)
    <3>1. y.session = r /\ y.range \in next[r]
      BY <1>1, <2>3
    <3>2. x \in RoutesOfOthers(r)
      BY <1>1, <1>5, <3>1
    <3>3. x.range \in AddressRange /\ y.range \in AddressRange
      BY <1>2, <3>1, <3>2 DEF RoutesOfOthers
    <3> QED BY <1>4, <3>1, <3>2, <3>3, ConflictsSymmetric
  <2> QED BY <2>1, <2>2, <2>3
<1>6. Agree'
  <2>1. ASSUME NEW route, route \in registered'
        PROVE  \E s \in streams : \E range \in routes'[s] : route = [range |-> range, session |-> s]
    <3>1. CASE route \in RoutesOfOthers(r)
      <4>1. PICK s \in streams : \E range \in routes[s] : route = [range |-> range, session |-> s]
        BY <1>3, <3>1 DEF Agree, RoutesOfOthers
      <4>2. s # r
        BY <3>1, <4>1 DEF RoutesOfOthers
      <4> QED BY <1>1, <1>2, <4>1, <4>2
    <3>2. CASE route \notin RoutesOfOthers(r)
      BY <1>1, <1>2, <2>1, <3>2
    <3> QED BY <3>1, <3>2
  <2>2. ASSUME NEW s \in streams, NEW range \in routes'[s]
        PROVE  [range |-> range, session |-> s] \in registered'
    <3>1. CASE s = r
      BY <1>1, <1>2, <2>2, <3>1
    <3>2. CASE s # r
      <4>1. [range |-> range, session |-> s] \in registered
        BY <1>1, <1>2, <1>3, <2>2, <3>2 DEF Agree
      <4> QED BY <1>1, <3>2, <4>1 DEF RoutesOfOthers
    <3> QED BY <3>1, <3>2
  <2>3. streams' = streams
    BY <1>1
  <2> QED BY <2>1, <2>2, <2>3 DEF Agree
<1>7. registered' = UNION {{[range |-> range, session |-> s] : range \in routes'[s]} : s \in streams'}
  BY <1>6 DEF Agree
<1> QED BY <1>5, <1>7 DEF RoutesExclusive

LEMMA RoutesStep ==
  ASSUME Inv, [Next]_vars
  PROVE  RoutesExclusive'
<1>1. /\ registered \subseteq [range : AddressRange, session : Requests]
      /\ routes \in [Requests -> SUBSET AddressRange]
      /\ streams \subseteq Requests
  BY DEF Inv, TypeOK, SessionTypeOK, RegistryTypeOK
<1>2. RoutesExclusive
  BY DEF Inv
<1>3. CASE UNCHANGED <<registryVars, routes>>
  BY <1>2, <1>3 DEF RoutesExclusive, registryVars
<1>4. ASSUME NEW r \in Requests, Insert(r) PROVE RoutesExclusive'
  <2>1. CASE Conflict(r)
    BY <1>3, <1>4, <2>1 DEF Insert, sessionVars
  <2>2. CASE ~Conflict(r)
    <3>1. UNCHANGED <<registered, routes>> /\ streams' = streams \cup {r}
      BY <1>4, <2>2 DEF Insert, sessionVars
    <3>2. routes[r] = {}
      BY <1>4, <2>2 DEF Inv, SessionByPhase, Insert, Goto
    <3>3. Agree'
      BY <1>2, <3>1, <3>2, AgreeIsUnion DEF Agree, RoutesExclusive
    <3>4. registered' = UNION {{[range |-> range, session |-> s] : range \in routes'[s]} : s \in streams'}
      BY <3>3 DEF Agree
    <3> QED BY <1>2, <3>1, <3>4 DEF RoutesExclusive
  <2> QED BY <2>1, <2>2
<1>5. ASSUME NEW r \in Requests, CommitReplace(r) PROVE RoutesExclusive'
  <2>1. CASE r \in streams /\ Replaceable(r, next[r])
    BY <1>5, <2>1, CommitKeepsRoutes
  <2>2. CASE ~(r \in streams /\ Replaceable(r, next[r]))
    BY <1>3, <1>5, <2>2 DEF CommitReplace
  <2> QED BY <2>1, <2>2
<1>6. ASSUME NEW r \in Requests, Unregister(r) PROVE RoutesExclusive'
  <2>1. CASE r \notin streams
    BY <1>3, <1>6, <2>1 DEF Unregister, sessionVars
  <2>2. CASE r \in streams
    <3>1. UNCHANGED routes /\ streams' = streams \ {r} /\ registered' = RoutesOfOthers(r)
      BY <1>6, <2>2 DEF Unregister, sessionVars
    <3>2. Agree
      BY <1>2, AgreeIsUnion DEF RoutesExclusive
    <3>3. Agree'
      BY <3>1, <3>2 DEF Agree, RoutesOfOthers
    <3>4. registered' = UNION {{[range |-> range, session |-> s] : range \in routes'[s]} : s \in streams'}
      BY <3>3 DEF Agree
    <3> QED BY <1>2, <3>1, <3>4 DEF RoutesExclusive, RoutesOfOthers
  <2> QED BY <2>1, <2>2
<1> QED BY <1>3, <1>4, <1>5, <1>6, RegistrySteps

(* What replace_routes commits was validated before its second lock, and   *)
(* is not changed between the two.                                         *)
LEMMA AdvertisementStep ==
  ASSUME Inv, [Next]_vars
  PROVE  RoutesByAdvertisement'
<1>1. /\ routes \in [Requests -> SUBSET AddressRange]
      /\ next \in [Requests -> SUBSET AddressRange]
  BY DEF Inv, TypeOK, SessionTypeOK
<1>2. RoutesByAdvertisement
  BY DEF Inv
<1>3. CASE UNCHANGED <<routes, next>>
  BY <1>2, <1>3 DEF RoutesByAdvertisement, RoutesValid
<1>4. CASE Parked
  BY <1>3, <1>4, ParkedMovesNothing
<1>5. ASSUME NEW r \in Requests, BeginReplace(r) PROVE RoutesByAdvertisement'
  <2>1. CASE UNCHANGED sessionVars
    BY <1>3, <2>1 DEF sessionVars
  <2>2. ASSUME NEW ad \in RouteAds, RoutesValid(ad),
               next' = [next EXCEPT ![r] = ad], routes' = routes
        PROVE  RoutesByAdvertisement'
    BY <1>1, <1>2, <2>2 DEF RoutesByAdvertisement, RoutesValid
  <2> QED BY <1>5, <2>1, <2>2 DEF BeginReplace
<1>6. ASSUME NEW r \in Requests, CommitReplace(r) PROVE RoutesByAdvertisement'
  <2>1. next' = [next EXCEPT ![r] = {}]
    BY <1>6 DEF CommitReplace
  <2>2. routes' = routes \/ routes' = [routes EXCEPT ![r] = next[r]]
    BY <1>6 DEF CommitReplace
  <2> QED BY <1>1, <1>2, <2>1, <2>2 DEF RoutesByAdvertisement, RoutesValid
<1>7. ASSUME NEW r \in Requests, MovesOnly(r), ~BeginReplace(r), ~CommitReplace(r)
      PROVE  UNCHANGED <<routes, next>>
  BY <1>7 DEF MovesOnly, Accept, Reject, Cancel, FailBeforeInsert, Respond, AcquireActive,
              AcquireWindow, Rollback, DropQuota, Start, FinishStream, Insert, Unregister,
              CloseReceiver, sessionVars
<1>8. ASSUME NEW r \in Requests,
             LeaseIpv4(r) \/ LeaseIpv6(r) \/ ReleaseIpv4(r) \/ ReleaseIpv6(r)
      PROVE  UNCHANGED <<routes, next>>
  BY <1>8 DEF LeaseIpv4, LeaseIpv6, LeaseFamily, ReleaseIpv4, ReleaseIpv6, ReleaseFamily, sessionVars
<1> QED BY <1>3, <1>4, <1>5, <1>6, <1>7, <1>8, NextCases

------------------------------------------------------------------------------
(* Queues and the TUN bridge.                                              *)

LEMMA PolicyBoundsRoutes ==
  ASSUME SessionByPhase, NEW r \in Requests, NEW range \in routes[r], NEW address,
         NEW protocol, Permits(range, address, protocol)
  PROVE  Routable(address)
BY DEF SessionByPhase, Permits, Routable

LEMMA QueueStep ==
  ASSUME Inv, [Next]_vars
  PROVE  QueueByHandle'
<1>1. /\ toClient \in [Requests -> Seq(Packets)]
      /\ toClient' \in [Requests -> Seq(Packets)]
      /\ assigned \in [Requests -> SUBSET PoolAddresses]
  BY NextTypeOK DEF Inv, TypeOK, SessionTypeOK
<1>2. QueueByHandle
  BY DEF Inv
<1>3. \A r \in Requests : pc[r] = "start" => toClient[r] = <<>>
  BY DEF Inv, SessionByPhase, Serving
<1>4. ASSUME \A r \in Requests : toClient'[r] = toClient[r] \/ toClient'[r] = <<>>
      PROVE  QueueByHandle'
  <2> SUFFICES ASSUME NEW r \in Requests, NEW i \in DOMAIN toClient'[r],
                      ~Routable(toClient'[r][i].destination)
               PROVE  toClient'[r][i].destination \in assigned'[r]
    BY DEF QueueByHandle, Routable
  <2>1. toClient'[r] = toClient[r] /\ toClient[r] # <<>>
    BY <1>1, <1>4
  <2>2. assigned'[r] = assigned[r]
    BY <1>3, <2>1, AssignedStep DEF Inv
  <2> QED BY <1>2, <2>1, <2>2 DEF QueueByHandle, Routable
<1>5. ASSUME NEW q \in Requests, SendToClient(q) PROVE QueueByHandle'
  <2>1. /\ toClient' = [toClient EXCEPT ![q] = Tail(toClient[q])] /\ toClient[q] # <<>>
        /\ assigned' = assigned
    BY <1>5 DEF SendToClient
  <2> SUFFICES ASSUME NEW r \in Requests, NEW i \in DOMAIN toClient'[r],
                      ~Routable(toClient'[r][i].destination)
               PROVE  toClient'[r][i].destination \in assigned'[r]
    BY DEF QueueByHandle, Routable
  <2>2. PICK j \in DOMAIN toClient[r] : toClient[r][j] = toClient'[r][i]
    <3>1. CASE r = q
      <4>1. toClient[r] \in Seq(Packets) /\ toClient[r] # <<>> /\ toClient'[r] = Tail(toClient[r])
        BY <1>1, <2>1, <3>1
      <4>2. i + 1 \in DOMAIN toClient[r] /\ toClient[r][i + 1] = toClient'[r][i]
        BY <4>1
      <4> QED BY <4>2
    <3>2. CASE r # q
      BY <1>1, <2>1, <3>2
    <3> QED BY <3>1, <3>2
  <2> QED BY <1>2, <2>1, <2>2 DEF QueueByHandle, Routable
<1>6. CASE TunEnqueue
  <2>1. tun.session \in Requests /\ tun.packet \in Packets
    BY <1>6 DEF Inv, TypeOK, TunTypeOK, TunIdle, TunEnqueue
  <2>2. /\ toClient' = [toClient EXCEPT ![tun.session] = Append(toClient[tun.session], tun.packet)]
        /\ assigned' = assigned
    BY <1>6 DEF TunEnqueue
  <2>3. ~Routable(tun.packet.destination) => tun.packet.destination \in assigned[tun.session]
    BY <1>6 DEF Inv, TunByHandle, TunEnqueue
  <2> SUFFICES ASSUME NEW r \in Requests, NEW i \in DOMAIN toClient'[r],
                      ~Routable(toClient'[r][i].destination)
               PROVE  toClient'[r][i].destination \in assigned'[r]
    BY DEF QueueByHandle, Routable
  <2>4. CASE r = tun.session
    <3>1. toClient[r] \in Seq(Packets) /\ toClient'[r] = Append(toClient[r], tun.packet)
      BY <1>1, <2>1, <2>2, <2>4
    <3>2. \/ i \in DOMAIN toClient[r] /\ toClient'[r][i] = toClient[r][i]
          \/ toClient'[r][i] = tun.packet
      BY <2>1, <3>1
    <3> QED BY <1>2, <2>2, <2>3, <2>4, <3>2 DEF QueueByHandle, Routable
  <2>5. CASE r # tun.session
    BY <1>1, <1>2, <2>1, <2>2, <2>5 DEF QueueByHandle, Routable
  <2> QED BY <2>4, <2>5
<1>7. CASE Parked /\ ~TunEnqueue /\ ~(\E q \in Requests : SendToClient(q))
  <2>1. toClient' = toClient
    BY <1>7 DEF Parked, StopConnection, DrainTimeout, WindowElapses, vars, sessionVars,
                Tun, TunSelect, TunValidate, TunDrop
  <2> QED BY <1>4, <2>1
<1>8. ASSUME NEW r \in Requests,
             MovesOnly(r) \/ LeaseIpv4(r) \/ LeaseIpv6(r) \/ ReleaseIpv4(r) \/ ReleaseIpv6(r)
      PROVE  QueueByHandle'
  BY <1>4, <1>8, TaskStep DEF Inv
<1> QED BY <1>5, <1>6, <1>7, <1>8, NextCases

LEMMA TunStep ==
  ASSUME Inv, [Next]_vars
  PROVE  TunByHandle'
<1>1. /\ TunByHandle /\ SessionByPhase
      /\ tun = TunIdle \/ tun \in [stage : {"validate", "enqueue"}, packet : Packets, session : Requests]
      /\ streams \subseteq Requests
  BY DEF Inv, TypeOK, TunTypeOK, RegistryTypeOK
<1>2. ASSUME tun' = tun,
             \A s \in Requests : pc'[s] \in Preparing => pc[s] \in Preparing,
             \A s \in Requests : assigned'[s] = assigned[s] \/ pc[s] = "start"
      PROVE  TunByHandle'
  <2>1. CASE tun.stage = "idle"
    BY <1>2, <2>1 DEF TunByHandle
  <2>2. CASE tun.stage # "idle"
    <3>1. tun.session \in Requests /\ pc[tun.session] \notin Preparing
      BY <1>1, <2>2 DEF TunByHandle, TunIdle
    <3>2. assigned'[tun.session] = assigned[tun.session] /\ pc'[tun.session] \notin Preparing
      BY <1>2, <3>1 DEF Preparing
    <3> QED BY <1>1, <1>2, <2>2, <3>2 DEF TunByHandle, Routable
  <2> QED BY <2>1, <2>2
<1>3. ASSUME NEW r \in Requests,
             MovesOnly(r) \/ LeaseIpv4(r) \/ LeaseIpv6(r) \/ ReleaseIpv4(r) \/ ReleaseIpv6(r)
      PROVE  TunByHandle'
  BY <1>2, <1>3, TaskStep DEF Inv
<1>4. CASE TunSelect
  <2>1. PICK packet \in Packets, r \in streams :
          tun' = [stage |-> "validate", packet |-> packet, session |-> r]
    BY <1>4 DEF TunSelect
  <2>2. pc'[r] \notin Preparing
    BY <1>1, <1>4, <2>1 DEF TunSelect, SessionByPhase, Mapped, Preparing
  <2> QED BY <2>1, <2>2 DEF TunByHandle
<1>5. CASE TunValidate
  <2>1. /\ tun.stage = "validate" /\ AcceptsFromTun(tun.session, tun.packet)
        /\ tun' = [tun EXCEPT !.stage = "enqueue"]
        /\ UNCHANGED <<pc, assigned, routes>>
    BY <1>5 DEF TunValidate, sessionVars
  <2>2. tun.session \in Requests /\ pc[tun.session] \notin Preparing
    BY <1>1, <2>1 DEF TunByHandle, TunIdle
  <2>3. tun.packet.destination \in assigned[tun.session] \/ Routable(tun.packet.destination)
    BY <1>1, <2>1, <2>2, PolicyBoundsRoutes DEF AcceptsFromTun
  <2>4. tun'.session = tun.session /\ tun'.packet = tun.packet
    BY <1>1, <2>1 DEF TunIdle
  <2> QED BY <2>1, <2>2, <2>3, <2>4 DEF TunByHandle, Routable
<1>6. CASE TunDrop \/ TunEnqueue
  BY <1>6 DEF TunDrop, TunEnqueue, TunIdle, TunByHandle
<1>7. CASE Parked /\ ~Tun
  <2>1. tun' = tun
    BY <1>7 DEF Parked, SendToClient, StopConnection, DrainTimeout, WindowElapses, vars
  <2> QED BY <1>2, <1>7, <2>1, ParkedMovesNothing
<1> QED BY <1>3, <1>4, <1>5, <1>6, <1>7, NextCases DEF Tun

------------------------------------------------------------------------------
(* The theorems.                                                           *)

LEMMA NextInv ==
  ASSUME Inv, [Next]_vars
  PROVE  Inv'
<1>1. TypeOK'
  BY NextTypeOK DEF Inv
<1>2. LeaseOwnership' /\ LeaseByPhase'
  BY LeaseStep
<1>3. SessionByPhase'
  BY SessionStep
<1>4. RegistryMatchesLeases'
  BY <1>3, RegistryStep
<1>5. RoutesExclusive'
  BY RoutesStep
<1>6. QueueByHandle'
  BY QueueStep
<1>7. TunByHandle'
  BY TunStep
<1>8. RoutesByAdvertisement'
  BY AdvertisementStep
<1> QED BY <1>1, <1>2, <1>3, <1>4, <1>5, <1>6, <1>7, <1>8 DEF Inv

(* In every reachable state, what each task owns is what its phase says,   *)
(* and the registry, the queues and the bridge's handle agree with it.     *)
THEOREM InvCorrect == Spec => []Inv
<1>1. Init => Inv
  BY InitInv
<1>2. Inv /\ [Next]_vars => Inv'
  BY NextInv
<1> QED BY <1>1, <1>2, PTL DEF Spec

(* No address is ever leased to two requests, and none stays leased when   *)
(* its request is over (AddressPoolSet::lease, AddressLease::drop).        *)
THEOREM LeaseOwnershipHolds == Spec => []LeaseOwnership
<1>1. Inv => LeaseOwnership
  BY DEF Inv
<1> QED BY <1>1, InvCorrect, PTL

(* An address is mapped to a session exactly while the session is          *)
(* registered with it and holds its lease (insert, remove in               *)
(* ip_registry.rs).                                                        *)
THEOREM RegistryMatchesLeasesHolds == Spec => []RegistryMatchesLeases
<1>1. Inv => RegistryMatchesLeases
  BY DEF Inv
<1> QED BY <1>1, InvCorrect, PTL

(* The routes of two sessions never conflict, whatever two                 *)
(* replace_routes do between their locks.                                  *)
THEOREM RoutesExclusiveHolds == Spec => []RoutesExclusive
<1>1. Inv => RoutesExclusive
  BY DEF Inv
<1> QED BY <1>1, InvCorrect, PTL

(* insert() never fails: nobody can have mapped an address a task still    *)
(* leases.                                                                 *)
THEOREM NoRegistryConflictHolds == Spec => []NoRegistryConflict
<1>1. ASSUME Inv PROVE NoRegistryConflict
  <2> SUFFICES ASSUME NEW r \in Requests, pc[r] = "accepted", Conflict(r) PROVE FALSE
    BY DEF NoRegistryConflict
  <2>1. r \notin streams /\ assigned[r] = lease[r]
    BY <1>1 DEF Inv, SessionByPhase, Mapped, Serving
  <2>2. PICK a \in assigned[r] : Owner(a) # None
    BY <2>1 DEF Conflict
  <2>3. a \in PoolAddresses /\ addresses[a] # None /\ addresses[a] \in Requests
    BY <1>1, <2>2 DEF Owner, Inv, TypeOK, RegistryTypeOK
  <2>4. addresses[a] \in streams /\ a \in lease[addresses[a]]
    BY <1>1, <2>3 DEF Inv, RegistryMatchesLeases
  <2> QED BY <1>1, <2>1, <2>2, <2>3, <2>4 DEF Inv, LeaseOwnership
<1> QED BY <1>1, InvCorrect, PTL

(* A packet for an address no client may route waits only in the queue of  *)
(* the session that holds the lease of the address, although the bridge    *)
(* uses a handle it cloned before (dispatch_tun, validate_from_tun).       *)
THEOREM QueueOwnershipHolds == Spec => []QueueOwnership
<1>1. ASSUME Inv PROVE QueueOwnership
  <2> SUFFICES ASSUME NEW r \in Requests, NEW i \in DOMAIN toClient[r],
                      ~Routable(toClient[r][i].destination)
               PROVE  toClient[r][i].destination \in lease[r]
    BY DEF QueueOwnership
  <2>1. toClient[r][i].destination \in assigned[r]
    BY <1>1 DEF Inv, QueueByHandle
  <2>2. pc[r] \in Serving
    BY <1>1 DEF Inv, SessionByPhase
  <2>3. assigned[r] = lease[r]
    BY <1>1, <2>2 DEF Inv, SessionByPhase
  <2> QED BY <2>1, <2>3
<1> QED BY <1>1, InvCorrect, PTL

(* A packet that is not ICMP matches the routes of at most one session, so *)
(* select_session does not depend on the order of the routes.              *)
THEOREM RouteSelectionHolds == Spec => []RouteSelectionUnambiguous
<1>1. ASSUME Inv PROVE RouteSelectionUnambiguous
  <2> SUFFICES ASSUME NEW x \in registered, NEW y \in registered, x.session # y.session,
                      NEW n \in x.range.start..x.range.end,
                      NEW protocol \in (0..255) \ Icmp,
                      Permits(x.range, <<x.range.family, n>>, protocol),
                      Permits(y.range, <<x.range.family, n>>, protocol)
               PROVE  FALSE
    BY DEF RouteSelectionUnambiguous
  <2>1. ~ConflictsWith(x.range, y.range)
    BY <1>1 DEF Inv, RoutesExclusive
  <2>2. x.range \in AddressRange /\ y.range \in AddressRange
    BY <1>1 DEF Inv, TypeOK, RegistryTypeOK
  <2>3. Overlaps(x.range, y.range)
    BY <2>2 DEF Permits, Contains, Overlaps, AddressRange
  <2> QED BY <2>1, <2>3 DEF Permits, ConflictsWith
<1> QED BY <1>1, InvCorrect, PTL

------------------------------------------------------------------------------
(* The sizes of the route tables.                                          *)

(* An advertisement gives the registry as many routes as it has ranges.    *)
LEMMA RoutesOfAdvertisement ==
  ASSUME NEW ad, IsFiniteSet(ad), NEW r
  PROVE  LET installed == {[range |-> range, session |-> r] : range \in ad}
         IN  IsFiniteSet(installed) /\ Cardinality(installed) <= Cardinality(ad)
<1> DEFINE installed == {[range |-> range, session |-> r] : range \in ad}
           route == [range \in ad |-> [range |-> range, session |-> r]]
<1>1. route \in Surjection(ad, installed)
  BY DEF Surjection
<1> QED BY <1>1, FS_Surjection

(* The registry's routes are finitely many and within its limit: the       *)
(* commit counts those of the other sessions under the lock it writes      *)
(* under, whatever they were when the advertisement was validated.         *)
RegistryFits == IsFiniteSet(registered) /\ Cardinality(registered) <= MaxRegistryRoutes

LEMMA SmallerFits ==
  ASSUME RegistryFits, registered' \subseteq registered
  PROVE  RegistryFits'
<1>1. /\ IsFiniteSet(registered')
      /\ Cardinality(registered') <= Cardinality(registered)
  BY FS_Subset DEF RegistryFits
<1>2. Cardinality(registered) \in Nat /\ Cardinality(registered') \in Nat
  BY <1>1, FS_CardinalityType DEF RegistryFits
<1> QED BY <1>1, <1>2, LimitsAssumption DEF RegistryFits

LEMMA CommitFits ==
  ASSUME RegistryFits, RoutesByAdvertisement, NEW r \in Requests, Replaceable(r, next[r]),
         registered' = RoutesOfOthers(r) \cup {[range |-> range, session |-> r] : range \in next[r]}
  PROVE  RegistryFits'
<1> DEFINE others == RoutesOfOthers(r)
           installed == {[range |-> range, session |-> r] : range \in next[r]}
<1>1. IsFiniteSet(next[r])
  BY InputsAssumption, FS_EmptySet DEF RoutesByAdvertisement
<1>2. IsFiniteSet(installed) /\ Cardinality(installed) <= Cardinality(next[r])
  BY <1>1, RoutesOfAdvertisement
<1>3. others \subseteq registered
  BY DEF RoutesOfOthers
<1>4. IsFiniteSet(others)
  BY <1>3, FS_Subset DEF RegistryFits
<1>5. /\ IsFiniteSet(others \cup installed)
      /\ Cardinality(others \cup installed)
           = Cardinality(others) + Cardinality(installed) - Cardinality(others \cap installed)
  BY <1>2, <1>4, FS_Union
<1>6. IsFiniteSet(others \cap installed)
  BY <1>4, FS_Intersection
<1>7. /\ Cardinality(others) \in Nat /\ Cardinality(installed) \in Nat
      /\ Cardinality(others \cap installed) \in Nat /\ Cardinality(next[r]) \in Nat
  BY <1>1, <1>2, <1>4, <1>6, FS_CardinalityType
<1>8. Cardinality(others) + Cardinality(next[r]) <= MaxRegistryRoutes
  BY DEF Replaceable
<1>9. registered' = others \cup installed
  OBVIOUS
<1> HIDE DEF others, installed
<1>10. Cardinality(others \cup installed) <= MaxRegistryRoutes
  BY <1>2, <1>5, <1>7, <1>8, LimitsAssumption
<1> QED BY <1>5, <1>9, <1>10 DEF RegistryFits

LEMMA RegistryFitsStep ==
  ASSUME Inv, RegistryFits, [Next]_vars
  PROVE  RegistryFits'
<1>1. CASE UNCHANGED registryVars
  BY <1>1 DEF RegistryFits, registryVars
<1>2. ASSUME NEW r \in Requests, Insert(r) PROVE RegistryFits'
  BY <1>1, <1>2 DEF Insert, RegistryFits
<1>3. ASSUME NEW r \in Requests, Unregister(r) PROVE RegistryFits'
  <2>1. registered' \subseteq registered
    BY <1>3 DEF Unregister, registryVars, RoutesOfOthers
  <2> QED BY <2>1, SmallerFits
<1>4. ASSUME NEW r \in Requests, CommitReplace(r) PROVE RegistryFits'
  <2>1. CASE r \in streams /\ Replaceable(r, next[r])
    BY <1>4, <2>1, CommitFits DEF CommitReplace, Inv
  <2>2. CASE ~(r \in streams /\ Replaceable(r, next[r]))
    BY <1>1, <1>4, <2>2 DEF CommitReplace
  <2> QED BY <2>1, <2>2
<1> QED BY <1>1, <1>2, <1>3, <1>4, RegistrySteps

(* Neither the registry's routes nor a session's ever outgrow their        *)
(* limits (MAX_REGISTRY_ROUTES, MAX_SESSION_ROUTES in ip_registry.rs and   *)
(* ip.rs).                                                                 *)
THEOREM RouteTablesHold == Spec => []RouteTablesBounded
<1>1. Init => RegistryFits
  BY FS_EmptySet, LimitsAssumption DEF Init, RegistryFits
<1>2. Inv /\ RegistryFits /\ [Next]_vars => RegistryFits'
  BY RegistryFitsStep
<1>3. ASSUME Inv, RegistryFits PROVE RouteTablesBounded
  BY <1>3, FS_EmptySet, LimitsAssumption
     DEF Inv, RegistryFits, RouteTablesBounded, RoutesByAdvertisement, RoutesValid
<1> QED BY <1>1, <1>2, <1>3, InvCorrect, PTL DEF Spec

------------------------------------------------------------------------------
(* The refinement of AddressOwnership.                                     *)

(* An address has the owner whose task leases it, and no other.            *)
LEMMA LeaseOwnerIs ==
  ASSUME LeaseOwnership
  PROVE  /\ LeaseOwner = [a \in PoolAddresses |-> LeaseOwner[a]]
         /\ \A a \in PoolAddresses : LeaseOwner[a] \in Requests \cup {None}
         /\ \A a \in PoolAddresses, r \in Requests : LeaseOwner[a] = r <=> a \in lease[r]
<1>1. LeaseOwner = [a \in PoolAddresses |-> LeaseOwner[a]]
  BY DEF LeaseOwner
<1> SUFFICES ASSUME NEW a \in PoolAddresses
             PROVE  /\ LeaseOwner[a] \in Requests \cup {None}
                    /\ \A r \in Requests : LeaseOwner[a] = r <=> a \in lease[r]
  BY <1>1
<1>2. CASE \E r \in Requests : a \in lease[r]
  <2>1. LeaseOwner[a] = CHOOSE r \in Requests : a \in lease[r]
    BY <1>2 DEF LeaseOwner
  <2>2. LeaseOwner[a] \in Requests /\ a \in lease[LeaseOwner[a]]
    BY <1>2, <2>1
  <2> QED BY <2>2 DEF LeaseOwnership
<1>3. CASE ~(\E r \in Requests : a \in lease[r])
  BY <1>3, RequestsAssumption DEF LeaseOwner
<1> QED BY <1>2, <1>3

LEMMA LeaseOwnerIsNext ==
  ASSUME LeaseOwnership'
  PROVE  /\ LeaseOwner' = [a \in PoolAddresses |-> LeaseOwner'[a]]
         /\ \A a \in PoolAddresses : LeaseOwner'[a] \in Requests \cup {None}
         /\ \A a \in PoolAddresses, r \in Requests : LeaseOwner'[a] = r <=> a \in lease'[r]
<1>1. LeaseOwner' = [a \in PoolAddresses |-> LeaseOwner'[a]]
  BY DEF LeaseOwner
<1> SUFFICES ASSUME NEW a \in PoolAddresses
             PROVE  /\ LeaseOwner'[a] \in Requests \cup {None}
                    /\ \A r \in Requests : LeaseOwner'[a] = r <=> a \in lease'[r]
  BY <1>1
<1>2. CASE \E r \in Requests : a \in lease'[r]
  <2>1. LeaseOwner'[a] = CHOOSE r \in Requests : a \in lease'[r]
    BY <1>2 DEF LeaseOwner
  <2>2. LeaseOwner'[a] \in Requests /\ a \in lease'[LeaseOwner'[a]]
    BY <1>2, <2>1
  <2> QED BY <2>2 DEF LeaseOwnership
<1>3. CASE ~(\E r \in Requests : a \in lease'[r])
  BY <1>3, RequestsAssumption DEF LeaseOwner
<1> QED BY <1>2, <1>3

(* A lease is a Take, and a drop of a lease a GiveBack.                    *)
LEMMA LeaseIsTake ==
  ASSUME TypeOK, LeaseOwnership, LeaseOwnership', NEW r \in Requests, NEW a \in PoolAddresses,
         \A s \in Requests : a \notin lease[s],
         lease' = [lease EXCEPT ![r] = @ \cup {a}], UNCHANGED toClient
  PROVE  Ownership!Take(r)
<1>1. lease \in [Requests -> SUBSET PoolAddresses]
  BY DEF TypeOK, PoolTypeOK
<1>2. LeaseOwner[a] = None
  BY LeaseOwnerIs
<1>3. LeaseOwner'[a] = r
  BY <1>1, LeaseOwnerIsNext
<1>4. \A b \in PoolAddresses : b # a => LeaseOwner'[b] = LeaseOwner[b]
  <2> SUFFICES ASSUME NEW b \in PoolAddresses, b # a PROVE LeaseOwner'[b] = LeaseOwner[b]
    OBVIOUS
  <2>1. \A s \in Requests : b \in lease'[s] <=> b \in lease[s]
    BY <1>1
  <2> QED BY <2>1, LeaseOwnerIs, LeaseOwnerIsNext
<1>5. LeaseOwner' = [LeaseOwner EXCEPT ![a] = r]
  BY <1>3, <1>4, LeaseOwnerIs, LeaseOwnerIsNext
<1> QED BY <1>2, <1>5 DEF Ownership!Take

LEMMA ReleaseIsGiveBack ==
  ASSUME TypeOK, LeaseOwnership, LeaseOwnership', NEW r \in Requests, NEW a \in lease[r],
         lease' = [lease EXCEPT ![r] = @ \ {a}], toClient[r] = <<>>, UNCHANGED toClient
  PROVE  Ownership!GiveBack(r)
<1>1. lease \in [Requests -> SUBSET PoolAddresses] /\ a \in PoolAddresses
  BY DEF TypeOK, PoolTypeOK
<1>2. LeaseOwner[a] = r
  BY <1>1, LeaseOwnerIs
<1>3. \A s \in Requests : a \notin lease'[s]
  BY <1>1 DEF LeaseOwnership
<1>4. LeaseOwner'[a] = None
  BY <1>1, <1>3, LeaseOwnerIsNext
<1>5. \A b \in PoolAddresses : b # a => LeaseOwner'[b] = LeaseOwner[b]
  <2> SUFFICES ASSUME NEW b \in PoolAddresses, b # a PROVE LeaseOwner'[b] = LeaseOwner[b]
    OBVIOUS
  <2>1. \A s \in Requests : b \in lease'[s] <=> b \in lease[s]
    BY <1>1
  <2> QED BY <2>1, LeaseOwnerIs, LeaseOwnerIsNext
<1>6. LeaseOwner' = [LeaseOwner EXCEPT ![a] = None]
  BY <1>4, <1>5, LeaseOwnerIs, LeaseOwnerIsNext
<1> QED BY <1>1, <1>2, <1>6 DEF Ownership!GiveBack

(* The bridge delivers to the owner of the address, although its handle    *)
(* may be that of a session that is over: then its receiver is gone.       *)
LEMMA EnqueueIsDeliver ==
  ASSUME Inv, TunEnqueue, LeaseOwner' = LeaseOwner
  PROVE  \E s \in Requests : Ownership!Deliver(s)
<1>1. tun.session \in Requests /\ tun.packet \in Packets
  BY DEF Inv, TypeOK, TunTypeOK, TunIdle, TunEnqueue
<1>2. pc[tun.session] \in Serving
  BY <1>1 DEF Inv, SessionByPhase, TunEnqueue
<1>3. assigned[tun.session] = lease[tun.session]
  BY <1>1, <1>2 DEF Inv, SessionByPhase
<1>4. ~Routable(tun.packet.destination) => tun.packet.destination \in lease[tun.session]
  BY <1>3 DEF Inv, TunByHandle, TunEnqueue
<1>5. lease[tun.session] \subseteq PoolAddresses
  BY <1>1 DEF Inv, TypeOK, PoolTypeOK
<1>6. \/ tun.packet.destination \in PoolAddresses
        /\ LeaseOwner[tun.packet.destination] = tun.session
      \/ Routable(tun.packet.destination)
  BY <1>1, <1>4, <1>5, LeaseOwnerIs DEF Inv
<1>7. toClient' = [toClient EXCEPT ![tun.session] = Append(@, tun.packet)]
  BY DEF TunEnqueue
<1> QED BY <1>1, <1>6, <1>7 DEF Ownership!Deliver

LEMMA OwnershipStep ==
  ASSUME Inv, Inv', [Next]_vars
  PROVE  [Ownership!Next]_(Ownership!vars)
<1> USE DEF Inv
<1>1. UNCHANGED lease => LeaseOwner' = LeaseOwner
  BY DEF LeaseOwner
<1>2. UNCHANGED <<lease, toClient>> => UNCHANGED Ownership!vars
  BY <1>1 DEF Ownership!vars
<1>3. ASSUME NEW r \in Requests, SendToClient(r) PROVE Ownership!Next
  <2>1. Ownership!Read(r)
    BY <1>1, <1>3 DEF SendToClient, Ownership!Read
  <2> QED BY <2>1 DEF Ownership!Next
<1>4. CASE TunEnqueue
  <2>1. UNCHANGED lease
    BY <1>4 DEF TunEnqueue
  <2> QED BY <1>1, <1>4, <2>1, EnqueueIsDeliver DEF Ownership!Next
<1>5. CASE Parked /\ ~TunEnqueue /\ ~(\E r \in Requests : SendToClient(r))
  <2>1. UNCHANGED <<lease, toClient>>
    BY <1>5 DEF Parked, StopConnection, DrainTimeout, WindowElapses, Tun, TunSelect, TunValidate,
                TunDrop, vars, sessionVars
  <2> QED BY <1>2, <2>1
<1>6. ASSUME NEW r \in Requests, CloseReceiver(r) PROVE Ownership!Next
  <2>1. Ownership!Discard(r)
    BY <1>1, <1>6 DEF CloseReceiver, Ownership!Discard
  <2> QED BY <2>1 DEF Ownership!Next
<1>7. ASSUME NEW r \in Requests, MovesOnly(r), ~CloseReceiver(r)
      PROVE  UNCHANGED Ownership!vars
  <2>1. UNCHANGED toClient
    BY <1>7 DEF MovesOnly, Accept, Reject, Cancel, FailBeforeInsert, Respond, AcquireActive,
                AcquireWindow, Rollback, DropQuota, Start, FinishStream, Insert, BeginReplace,
                CommitReplace, Unregister, sessionVars
  <2> QED BY <1>2, <1>7, <2>1, MovesOnlyKeepsLeases
<1>8. ASSUME NEW r \in Requests, NEW f, NEW from, NEW to, LeaseFamily(r, f, from, to)
      PROVE  [Ownership!Next]_(Ownership!vars)
  <2>1. UNCHANGED toClient
    BY <1>8 DEF LeaseFamily, sessionVars
  <2>2. CASE UNCHANGED lease
    BY <1>2, <2>1, <2>2
  <2>3. ASSUME f \in ConfiguredFamilies, NEW n \in Free(pool[f]),
               lease' = [lease EXCEPT ![r] = @ \cup {<<f, n>>}]
        PROVE  Ownership!Next
    <3>1. n \in Usable(PoolOf[f]) /\ n \notin pool[f].leased
      BY <2>3, LeaseOK DEF TypeOK, PoolTypeOK
    <3>2. <<f, n>> \in PoolAddresses
      BY <2>3, <3>1, PoolAddressesType
    <3>3. \A s \in Requests : <<f, n>> \notin lease[s]
      BY <2>3, <3>1 DEF LeaseOwnership
    <3>4. Ownership!Take(r)
      BY <2>1, <2>3, <3>2, <3>3, LeaseIsTake
    <3> QED BY <3>4 DEF Ownership!Next
  <2> QED BY <1>8, <2>2, <2>3 DEF LeaseFamily
<1>9. ASSUME NEW r \in Requests, NEW f, NEW phase \in {"release4", "release6"},
             ReleaseFamily(r, f, phase)
      PROVE  [Ownership!Next]_(Ownership!vars)
  <2>1. UNCHANGED toClient
    BY <1>9 DEF ReleaseFamily, sessionVars
  <2>2. CASE UNCHANGED lease
    BY <1>2, <2>1, <2>2
  <2>3. ASSUME NEW a \in lease[r], lease' = [lease EXCEPT ![r] = @ \ {a}]
        PROVE  Ownership!Next
    <3>1. toClient[r] = <<>>
      BY <1>9 DEF ReleaseFamily, Goto, SessionByPhase, Serving
    <3>2. Ownership!GiveBack(r)
      BY <2>1, <2>3, <3>1, ReleaseIsGiveBack
    <3> QED BY <3>2 DEF Ownership!Next
  <2> QED BY <1>9, <2>2, <2>3 DEF ReleaseFamily
<1>10. ASSUME NEW r \in Requests,
              LeaseIpv4(r) \/ LeaseIpv6(r) \/ ReleaseIpv4(r) \/ ReleaseIpv6(r)
       PROVE  [Ownership!Next]_(Ownership!vars)
  BY <1>8, <1>9, <1>10 DEF LeaseIpv4, LeaseIpv6, ReleaseIpv4, ReleaseIpv6
<1> QED BY <1>3, <1>4, <1>5, <1>6, <1>7, <1>10, NextCases

(* An address changes hands only when the queue of its last owner is gone, *)
(* and a packet for it reaches its owner's queue only: the pools, the      *)
(* registry, the sessions and the bridge together implement                *)
(* AddressOwnership.                                                       *)
THEOREM SessionsImplementOwnership == Spec => ImplementsOwnership
<1>1. Init => Ownership!Init
  <2> SUFFICES ASSUME Init PROVE Ownership!Init
    OBVIOUS
  <2>1. LeaseOwner = [a \in PoolAddresses |-> None]
    BY DEF Init, LeaseOwner
  <2> QED BY <2>1 DEF Init, Ownership!Init
<1>2. Inv /\ Inv' /\ [Next]_vars => [Ownership!Next]_(Ownership!vars)
  BY OwnershipStep
<1> QED BY <1>1, <1>2, InvCorrect, PTL DEF Spec, ImplementsOwnership, Ownership!Spec

------------------------------------------------------------------------------
(* What is left when the tasks have ended.                                 *)

(* The tasks that hold a QuotaPermit, or have counted one they will take   *)
(* back (session.rs).                                                      *)
Permitless   == {"idle", "resolving", "done"}
Charged(r)   == pc[r] \notin Permitless
ChargedTo(p) == {r \in Requests : PrincipalOf[r] = p /\ Charged(r)}

(* The saturating subtraction never saturates, and the limit is kept.      *)
PermitsCounted ==
  \A p \in Principals : active[p] = Cardinality(ChargedTo(p)) /\ active[p] <= ActiveLimit

(* So their number is one.                                                 *)
LEMMA ChargedFinite ==
  ASSUME NEW p
  PROVE  IsFiniteSet(ChargedTo(p)) /\ Cardinality(ChargedTo(p)) \in Nat
BY RequestsAssumption, FS_Subset, FS_CardinalityType DEF ChargedTo

(* Only the critical sections of QuotaState move a permit.                 *)
LEMMA PermitCases ==
  ASSUME TypeOK, [Next]_vars
  PROVE  \/ \E r \in Requests : AcquireActive(r) \/ Rollback(r) \/ DropQuota(r)
         \/ UNCHANGED active /\ \A r \in Requests : Charged(r)' = Charged(r)
<1>1. pc \in [Requests -> Phases]
  BY DEF TypeOK, ControlTypeOK
<1>2. ASSUME NEW r \in Requests, NEW from, NEW to, Goto(r, from, to),
             UNCHANGED active,
             from \in Permitless <=> to \in Permitless
      PROVE  UNCHANGED active /\ \A x \in Requests : Charged(x)' = Charged(x)
  BY <1>1, <1>2 DEF Goto, Charged
<1> USE DEF Permitless
<1>3. CASE Parked
  BY <1>3, ParkedMovesNothing DEF Parked, SendToClient, StopConnection, DrainTimeout, WindowElapses,
       Tun, TunSelect, TunValidate, TunDrop, TunEnqueue, vars, quotaVars, Charged
<1>4. ASSUME NEW r \in Requests, Accept(r) \/ Reject(r) \/ FailBeforeInsert(r) \/ Respond(r)
                                 \/ FinishStream(r) \/ AcquireWindow(r)
      PROVE  UNCHANGED active /\ \A x \in Requests : Charged(x)' = Charged(x)
  BY <1>2, <1>4 DEF Accept, Reject, FailBeforeInsert, Respond, FinishStream, AcquireWindow, quotaVars
<1>5. ASSUME NEW r \in Requests, Start(r) \/ Insert(r) \/ BeginReplace(r) \/ CommitReplace(r)
      PROVE  UNCHANGED active /\ \A x \in Requests : Charged(x)' = Charged(x)
  BY <1>2, <1>5 DEF Start, Insert, BeginReplace, CommitReplace, quotaVars
<1>6. ASSUME NEW r \in Requests, Unregister(r) \/ CloseReceiver(r)
      PROVE  UNCHANGED active /\ \A x \in Requests : Charged(x)' = Charged(x)
  BY <1>2, <1>6 DEF Unregister, CloseReceiver, After, quotaVars
<1>7. ASSUME NEW r \in Requests, LeaseIpv4(r) \/ LeaseIpv6(r) \/ ReleaseIpv4(r) \/ ReleaseIpv6(r)
      PROVE  UNCHANGED active /\ \A x \in Requests : Charged(x)' = Charged(x)
  BY <1>2, <1>7 DEF LeaseIpv4, LeaseIpv6, ReleaseIpv4, ReleaseIpv6, LeaseFamily, ReleaseFamily,
                    After, quotaVars
<1>8. ASSUME NEW r \in Requests, Cancel(r)
      PROVE  UNCHANGED active /\ \A x \in Requests : Charged(x)' = Charged(x)
  BY <1>1, <1>8 DEF Cancel, Awaiting, TeardownFrom, Charged, quotaVars
<1> QED BY <1>3, <1>4, <1>5, <1>6, <1>7, <1>8, NextCases DEF MovesOnly

(* The count follows the holders through a permit's taking and its return. *)
LEMMA PermitStep ==
  ASSUME TypeOK, PermitsCounted, [Next]_vars
  PROVE  PermitsCounted'
<1>1. pc \in [Requests -> Phases] /\ active \in [Principals -> Nat]
  BY DEF TypeOK, ControlTypeOK, QuotaTypeOK
<1>2. CASE UNCHANGED active /\ \A r \in Requests : Charged(r)' = Charged(r)
  <2>1. \A p \in Principals : ChargedTo(p)' = ChargedTo(p)
    BY <1>2 DEF ChargedTo
  <2> QED BY <1>2, <2>1 DEF PermitsCounted
<1>3. ASSUME NEW r \in Requests, AcquireActive(r)
      PROVE  PermitsCounted'
  <2> DEFINE q == PrincipalOf[r]
  <2>1. q \in Principals /\ active[q] < ActiveLimit /\ active' = [active EXCEPT ![q] = @ + 1]
    BY <1>3, RequestsAssumption DEF AcquireActive
  <2>2. /\ ~Charged(r) /\ Charged(r)'
        /\ \A x \in Requests \ {r} : Charged(x)' = Charged(x)
    BY <1>1, <1>3 DEF AcquireActive, Goto, Charged, Permitless
  <2>3. ChargedTo(q)' = ChargedTo(q) \cup {r} /\ r \notin ChargedTo(q)
    BY <2>2 DEF ChargedTo
  <2>4. Cardinality(ChargedTo(q)') = Cardinality(ChargedTo(q)) + 1
    BY <2>3, ChargedFinite, FS_AddElement
  <2>5. \A p \in Principals \ {q} : ChargedTo(p)' = ChargedTo(p)
    BY <2>2 DEF ChargedTo
  <2> HIDE DEF q
  <2> QED BY <1>1, <2>1, <2>4, <2>5, LimitsAssumption DEF PermitsCounted
<1>4. ASSUME NEW r \in Requests, Rollback(r) \/ DropQuota(r)
      PROVE  PermitsCounted'
  <2> DEFINE q == PrincipalOf[r]
  <2>1. q \in Principals /\ Discharge(q)
    BY <1>4, RequestsAssumption DEF Rollback, DropQuota
  <2>2. /\ Charged(r) /\ ~Charged(r)'
        /\ \A x \in Requests \ {r} : Charged(x)' = Charged(x)
    BY <1>1, <1>4 DEF Rollback, DropQuota, Goto, Charged, Permitless
  <2>3. ChargedTo(q)' = ChargedTo(q) \ {r} /\ r \in ChargedTo(q)
    BY <2>2 DEF ChargedTo
  <2>4. /\ Cardinality(ChargedTo(q)') = Cardinality(ChargedTo(q)) - 1
        /\ Cardinality(ChargedTo(q)') \in Nat /\ Cardinality(ChargedTo(q)) \in Nat
    BY <2>3, ChargedFinite, FS_RemoveElement, FS_CardinalityType
  <2>5. \A p \in Principals \ {q} : ChargedTo(p)' = ChargedTo(p)
    BY <2>2 DEF ChargedTo
  <2> HIDE DEF q
  <2>6. active[q] > 0
    BY <2>1, <2>4 DEF PermitsCounted
  <2>7. active' = [active EXCEPT ![q] = active[q] - 1]
    BY <2>1, <2>6 DEF Discharge
  <2> QED BY <1>1, <2>1, <2>4, <2>5, <2>6, <2>7, LimitsAssumption DEF PermitsCounted
<1> QED BY <1>2, <1>3, <1>4, PermitCases

(* However tasks end (refused by the window, at the end of a stream, or    *)
(* dropped by an abort), a principal's count of active tunnels is that of  *)
(* its tasks that hold a permit, and never above the limit, although it is *)
(* taken in one critical section and given back in another                 *)
(* (session.rs:45-83, request_ip.rs:60-150).                               *)
THEOREM PermitsCountedHolds == Spec => []PermitsCounted
<1>1. Init => PermitsCounted
  <2> SUFFICES ASSUME Init, NEW p \in Principals
               PROVE  active[p] = Cardinality(ChargedTo(p)) /\ active[p] <= ActiveLimit
    BY DEF PermitsCounted
  <2>1. ChargedTo(p) = {}
    BY DEF Init, ChargedTo, Charged, Permitless
  <2> QED BY <2>1, FS_EmptySet, LimitsAssumption DEF Init
<1>2. TypeOK /\ PermitsCounted /\ [Next]_vars => PermitsCounted'
  BY PermitStep
<1> QED BY <1>1, <1>2, TypeCorrect, PTL DEF Spec

AllEnded == \A r \in Requests : pc[r] \in {"idle", "done"}
Stopped  == \A c \in Connections : conn[c] # "open"

(* With the tasks all that they took is gone.                              *)
LEMMA EndedReturned ==
  ASSUME Inv, PermitsCounted, AllEnded
  PROVE  AllReturned
<1> USE DEF AllEnded
<1>1. streams = {} /\ registered = {}
  <2>1. streams = {}
    BY DEF Inv, TypeOK, RegistryTypeOK, SessionByPhase, Mapped
  <2> QED BY <2>1 DEF Inv, RoutesExclusive
<1>2. \A a \in PoolAddresses : addresses[a] = None
  BY <1>1, RequestsAssumption DEF Inv, TypeOK, RegistryTypeOK, RegistryMatchesLeases
<1>3. \A f \in ConfiguredFamilies : pool[f].leased = {}
  BY DEF Inv, LeaseOwnership, TypeOK, PoolTypeOK, PoolOK
<1>4. \A p \in Principals : active[p] = 0
  <2> SUFFICES ASSUME NEW p \in Principals PROVE active[p] = 0
    OBVIOUS
  <2>1. ChargedTo(p) = {}
    BY DEF ChargedTo, Charged, Permitless
  <2> QED BY <2>1, FS_EmptySet DEF PermitsCounted
<1>5. \A r \in Requests : receiver[r] # "open" /\ toClient[r] = <<>>
  BY DEF Inv, SessionByPhase, Serving
<1> QED BY <1>1, <1>2, <1>3, <1>4, <1>5 DEF AllReturned

(* Without an open connection no request begins, and none goes on that has *)
(* ended.                                                                  *)
LEMMA StoppedStays ==
  ASSUME TypeOK, Stopped, AllEnded, [Next]_vars
  PROVE  Stopped' /\ AllEnded'
<1>1. pc \in [Requests -> Phases] /\ conn \in [Connections -> {"open", "draining", "aborted"}]
  BY DEF TypeOK, ControlTypeOK
<1>2. CASE Parked
  BY <1>1, <1>2, ParkedMovesNothing DEF Parked, Stopped, AllEnded, StopConnection, DrainTimeout,
       SendToClient, WindowElapses, Tun, TunSelect, TunValidate, TunDrop, TunEnqueue, vars
<1>3. ASSUME NEW r \in Requests PROVE ~MovesOnly(r)
  <2>1. pc[r] \in {"idle", "done"} /\ conn[ConnectionOf[r]] # "open"
    BY RequestsAssumption DEF Stopped, AllEnded
  <2> QED
    BY <2>1 DEF MovesOnly, Goto, Accept, Reject, AcquireActive, AcquireWindow, Rollback, Start,
       FailBeforeInsert, Respond, Insert, FinishStream, BeginReplace, CommitReplace, Unregister,
       CloseReceiver, DropQuota, Cancel, Awaiting
<1>4. ASSUME NEW r \in Requests
      PROVE  ~(LeaseIpv4(r) \/ LeaseIpv6(r) \/ ReleaseIpv4(r) \/ ReleaseIpv6(r))
  BY DEF AllEnded, Goto, LeaseIpv4, LeaseIpv6, ReleaseIpv4, ReleaseIpv6, LeaseFamily, ReleaseFamily
<1> QED BY <1>2, <1>3, <1>4, NextCases

(* Once the connections are told to stop and their tasks have ended, by    *)
(* themselves or aborted, everything they took is given back and stays so: *)
(* what ShutdownReturnsEverything adds is that they do end                 *)
(* (transport.rs:369-401, AddressLease::drop, IpRegistration::drop).       *)
THEOREM DrainedIsReturned == Spec => [](Stopped /\ AllEnded => []AllReturned)
<1>1. Inv /\ PermitsCounted /\ AllEnded => AllReturned
  BY EndedReturned
<1>2. TypeOK /\ [Next]_vars /\ Stopped /\ AllEnded => Stopped' /\ AllEnded'
  BY StoppedStays
<1> QED BY <1>1, <1>2, TypeCorrect, InvCorrect, PermitsCountedHolds, PTL DEF Spec
==============================================================================
