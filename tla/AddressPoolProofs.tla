--------------------------- MODULE AddressPoolProofs ---------------------------
(***************************************************************************)
(* Proofs about AddressPoolScan, for networks of any size of either        *)
(* family: which addresses are leased, and that the loop of                *)
(* AddressPool::lease implements the atomic allocation of AtomicPool.      *)
(***************************************************************************)
EXTENDS AddressPoolScan, FiniteSetTheorems, TLAPS

Bounds == UsableBounds(network)
Pools  == [first : {Bounds.first}, last : {Bounds.last}, next : Usable(network),
           leased : SUBSET Usable(network)]

(* Inside the loop nothing is leased yet, and every address from where the  *)
(* cursor was to where it is has been tried and is leased; a refusal stands *)
(* until an address comes back.                                             *)
Scan ==
  /\ scanning => /\ pool.leased = entry.leased
                 /\ verdict # "refused"
                 /\ \A m \in Usable(network) :
                       Distance(entry, m) < Distance(entry, pool.next) => m \in entry.leased
  /\ verdict = "refused" => Exhausted(pool)

IInv == TypeOK /\ Scan

----------------------------------------------------------------------------
(* The usable addresses of a network that may be configured (usable_bounds). *)
LEMMA BoundsFacts ==
  ASSUME NEW n \in Networks
  PROVE  /\ UsableBounds(n).first \in Nat /\ UsableBounds(n).last \in Nat
         /\ UsableBounds(n).first <= UsableBounds(n).last
         /\ NewPool(n) \in [first : {UsableBounds(n).first}, last : {UsableBounds(n).last},
                            next : Usable(n), leased : SUBSET Usable(n)]
<1>1. n.first \in Nat /\ n.last \in Nat /\ n.first <= n.last
  BY NetworksAssumption DEF Network
<1>2. /\ UsableBounds(n).first \in Nat /\ UsableBounds(n).last \in Nat
      /\ UsableBounds(n).first <= UsableBounds(n).last
  BY <1>1 DEF UsableBounds
<1> QED BY <1>2 DEF NewPool, Usable

(* The type invariant, with the pools named.                                 *)
LEMMA TypeFacts ==
  ASSUME TypeOK
  PROVE  /\ network \in Networks /\ pool \in Pools /\ entry \in Pools
         /\ Bounds.first \in Nat /\ Bounds.last \in Nat /\ Bounds.first <= Bounds.last
         /\ Usable(network) = Bounds.first .. Bounds.last
BY BoundsFacts DEF TypeOK, Pools, Bounds, Usable

(* The cursor goes from usable address to usable address, and its distance   *)
(* from where a scan began grows by one until it is back there.              *)
LEMMA SuccessorFacts ==
  ASSUME TypeOK, NEW p \in Pools, NEW n \in Usable(network)
  PROVE  /\ Successor(p, n) \in Usable(network)
         /\ \/ Distance(p, Successor(p, n)) = 0
            \/ Distance(p, Successor(p, n)) = Distance(p, n) + 1
<1>1. /\ p.first = Bounds.first /\ p.last = Bounds.last
      /\ p.next \in Bounds.first .. Bounds.last /\ n \in Bounds.first .. Bounds.last
      /\ Bounds.first \in Nat /\ Bounds.last \in Nat /\ Bounds.first <= Bounds.last
  BY TypeFacts DEF Pools
<1>2. Successor(p, n) \in Bounds.first .. Bounds.last
  BY <1>1 DEF Successor
<1>3. \/ Distance(p, Successor(p, n)) = 0
      \/ Distance(p, Successor(p, n)) = Distance(p, n) + 1
  BY <1>1 DEF Successor, Distance, Span
<1> QED BY <1>2, <1>3, TypeFacts

(* Distances from a cursor tell the usable addresses apart.                  *)
LEMMA DistanceInjective ==
  ASSUME TypeOK, NEW p \in Pools, NEW m \in Usable(network), NEW n \in Usable(network)
  PROVE  /\ Distance(p, m) \in Nat
         /\ Distance(p, m) = Distance(p, n) => m = n
<1>1. /\ p.first = Bounds.first /\ p.last = Bounds.last
      /\ p.next \in Bounds.first .. Bounds.last
      /\ m \in Bounds.first .. Bounds.last /\ n \in Bounds.first .. Bounds.last
      /\ Bounds.first \in Nat /\ Bounds.last \in Nat /\ Bounds.first <= Bounds.last
  BY TypeFacts DEF Pools
<1> QED BY <1>1 DEF Distance, Span

(* A release leaves room: a full pool has none of its addresses free.        *)
LEMMA LeasedFinite ==
  ASSUME TypeOK, NEW p \in Pools
  PROVE  /\ IsFiniteSet(p.leased) /\ Cardinality(p.leased) \in Nat
         /\ Cardinality(p.leased) <= Span(p)
         /\ Exhausted(p) <=> p.leased = Usable(network)
         /\ Cardinality(Usable(network)) = Span(p)
<1>1. /\ p.first = Bounds.first /\ p.last = Bounds.last /\ p.leased \in SUBSET Usable(network)
      /\ Bounds.first \in Nat /\ Bounds.last \in Nat /\ Bounds.first <= Bounds.last
      /\ Usable(network) = Bounds.first .. Bounds.last
  BY TypeFacts DEF Pools
<1>2. IsFiniteSet(Usable(network)) /\ Cardinality(Usable(network)) = Span(p)
  <2> DEFINE first == Bounds.first
             last == Bounds.last
  <2>1. first \in Int /\ last \in Int /\ ~(first > last)
    BY <1>1
  <2>2. /\ IsFiniteSet(first .. last)
        /\ Cardinality(first .. last) = last - first + 1
    <3> HIDE DEF first, last
    <3>1. Cardinality(first .. last) = IF first > last THEN 0 ELSE last - first + 1
      BY <2>1, FS_Interval, Zenon
    <3>2. IsFiniteSet(first .. last)
      BY <2>1, FS_Interval, Zenon
    <3> QED BY <2>1, <3>1, <3>2
  <2> QED BY <1>1, <2>2 DEF Span
<1>3. /\ IsFiniteSet(p.leased) /\ Cardinality(p.leased) \in Nat
      /\ Cardinality(p.leased) <= Cardinality(Usable(network))
      /\ Cardinality(Usable(network)) = Cardinality(p.leased) => Usable(network) = p.leased
  BY <1>1, <1>2, FS_Subset, FS_CardinalityType
<1>4. Span(p) \in Nat
  BY <1>1 DEF Span
<1> QED BY <1>1, <1>2, <1>3, <1>4 DEF Exhausted

----------------------------------------------------------------------------
(* The steps of lease() and of the drop (address_pool.rs).                   *)

LEMMA InitIInv == Init => IInv
BY BoundsFacts DEF Init, IInv, TypeOK, Scan, Exhausted, NewPool

LEMMA TryCandidateStep ==
  ASSUME IInv, TryCandidate
  PROVE  IInv'
<1> DEFINE c == pool.next
<1>1. /\ scanning /\ UNCHANGED <<network, entry>>
      /\ pool' = [pool EXCEPT !.next = Successor(pool, c), !.leased = pool.leased \cup {c}]
      /\ scanning' = (c \in pool.leased)
      /\ verdict' = IF scanning' THEN verdict ELSE "leased"
  BY DEF TryCandidate
<1>2. pool \in Pools /\ entry \in Pools /\ c \in Usable(network) /\ TypeOK
  BY TypeFacts DEF IInv, Pools
<1>3. Successor(pool, c) = Successor(entry, c)
  BY <1>2 DEF Pools, Successor
<1>4. Successor(pool, c) \in Usable(network)
  BY <1>2, SuccessorFacts
<1>5. /\ pool' \in Pools /\ pool'.next = Successor(pool, c)
      /\ pool'.leased = pool.leased \cup {c}
  BY <1>1, <1>2, <1>4 DEF Pools
<1>6. TypeOK'
  BY <1>1, <1>2, <1>5 DEF TypeOK, Pools, Bounds
<1>7. ASSUME scanning', NEW m \in Usable(network),
             Distance(entry, m) < Distance(entry, pool'.next)
      PROVE  m \in entry.leased
  <2>1. Distance(entry, m) \in Nat /\ Distance(entry, c) \in Nat
        /\ (Distance(entry, m) = Distance(entry, c) => m = c)
    BY <1>2, DistanceInjective
  <2>2. Distance(entry, pool'.next) = Distance(entry, c) + 1
    BY <1>2, <1>3, <1>5, <1>7, <2>1, SuccessorFacts
  <2>3. Distance(entry, m) < Distance(entry, c) \/ m = c
    BY <1>7, <2>1, <2>2
  <2> QED BY <1>1, <1>7, <2>3 DEF IInv, Scan
<1>8. Scan'
  <2>1. verdict' # "refused"
    BY <1>1 DEF IInv, Scan
  <2>2. scanning' => pool'.leased = entry'.leased
    BY <1>1, <1>5 DEF IInv, Scan
  <2>3. Usable(network)' = Usable(network)
    BY <1>1
  <2> QED BY <1>1, <1>7, <2>1, <2>2, <2>3 DEF Scan, Distance, Span
<1> QED BY <1>6, <1>8 DEF IInv

LEMMA OtherSteps ==
  ASSUME IInv, Refuse \/ BeginScan \/ DropLease
  PROVE  IInv'
<1>1. CASE Refuse
  BY <1>1 DEF Refuse, IInv, TypeOK, Scan, Exhausted, Span
<1>2. CASE BeginScan
  <2>1. pool \in Pools /\ TypeOK /\ Usable(network)' = Usable(network)
    BY <1>2, TypeFacts DEF IInv, BeginScan
  <2>2. TypeOK'
    BY <1>2 DEF BeginScan, IInv, TypeOK
  <2>3. \A m \in Usable(network) : ~(Distance(pool, m) < Distance(pool, pool.next))
    <3>1. pool.next \in Usable(network) /\ pool.next \in Nat
      BY <2>1, TypeFacts DEF Pools
    <3>2. Distance(pool, pool.next) = 0
      BY <3>1 DEF Distance
    <3> QED BY <2>1, <3>2, DistanceInjective, <3>1
  <2> QED BY <1>2, <2>1, <2>2, <2>3 DEF BeginScan, IInv, Scan, Exhausted, Distance, Span
<1>3. CASE DropLease
  <2>1. PICK n \in pool.leased : pool' = Release(pool, n)
    BY <1>3 DEF DropLease
  <2>2. pool' \in Pools
    BY <2>1, TypeFacts DEF IInv, Pools, Release
  <2> QED BY <1>3, <2>2 DEF DropLease, IInv, TypeOK, Scan, Pools, Bounds
<1> QED BY <1>1, <1>2, <1>3

(* The cursor, the leases and the scan, at every prefix length.              *)
THEOREM IInvCorrect == Spec => []IInv
<1>1. IInv /\ [Next]_vars => IInv'
  <2>1. IInv /\ UNCHANGED vars => IInv'
    BY DEF vars, IInv, TypeOK, Scan, Exhausted, Span, Distance
  <2> QED BY <2>1, TryCandidateStep, OtherSteps DEF Next
<1> QED BY InitIInv, <1>1, PTL DEF Spec

(* The pool leases the hosts of its block, no other address and all of them  *)
(* (usable_bounds, address_pool.rs).                                         *)
THEOREM HostsHold == Spec => []HostAddressesOnlyAndAll
<1>1. IInv => HostAddressesOnlyAndAll
  <2> SUFFICES ASSUME IInv PROVE HostAddressesOnlyAndAll
    OBVIOUS
  <2> DEFINE first == network.first
             last  == network.last
  <2>1. /\ first \in Nat /\ last \in Nat /\ first <= last /\ network.family \in Families
        /\ first < last => (last - first) % 2 = 1
    BY NetworksAssumption DEF IInv, TypeOK, Network
  <2>2. pool \in Pools /\ TypeOK
    BY TypeFacts DEF IInv
  <2>3. Usable(network) = Bounds.first .. Bounds.last
    BY DEF Usable, Bounds
  <2>4. last - first # 2
    BY <2>1
  <2>5. OnlyHostAddressesLeased
    <3>1. \A n \in pool.leased : n \in Bounds.first .. Bounds.last
      BY <2>2, <2>3 DEF Pools
    <3> QED BY <2>1, <2>4, <3>1 DEF OnlyHostAddressesLeased, Bounds, UsableBounds
  <2>6. RefusedOnlyWhenFull
    <3>1. SUFFICES ASSUME verdict = "refused"
                   PROVE  Cardinality(pool.leased) = Span(pool)
      <4>1. Span(pool) = Bounds.last - Bounds.first + 1
        BY <2>2 DEF Span, Pools
      <4> QED BY <2>1, <2>4, <3>1, <4>1 DEF RefusedOnlyWhenFull, Bounds, UsableBounds, Families
    <3>2. Exhausted(pool)
      BY <3>1 DEF IInv, Scan
    <3> QED BY <2>2, <3>2, LeasedFinite
  <2> QED BY <2>5, <2>6 DEF HostAddressesOnlyAndAll
<1> QED BY <1>1, IInvCorrect, PTL

----------------------------------------------------------------------------
(* The refinement.  While a caller is in the loop, the others see the pool   *)
(* as that caller found it.                                                  *)
Seen == IF scanning THEN entry ELSE pool

(* The operators on pools, under the name of the instance.                   *)
LEMMA SameOperators ==
  /\ \A n : Atomic!NewPool(n) = NewPool(n)
  /\ \A p : Atomic!Free(p) = Free(p)
  /\ \A p, n : /\ Atomic!IsNextFree(p, n) <=> IsNextFree(p, n)
              /\ Atomic!Lease(p, n) = Lease(p, n)
              /\ Atomic!Release(p, n) = Release(p, n)
BY DEF Atomic!NewPool, NewPool, Atomic!Free, Free, Atomic!IsNextFree, IsNextFree,
   Atomic!Lease, Lease, Atomic!Release, Release, Atomic!Distance, Distance,
   Atomic!Span, Span, Atomic!Successor, Successor, Atomic!UsableBounds, UsableBounds

(* The turn of the loop that finds a free address is the atomic lease.       *)
LEMMA LeaseIsAtomic ==
  ASSUME IInv, TryCandidate, ~scanning'
  PROVE  \E n \in Free(entry) : IsNextFree(entry, n) /\ pool' = Lease(entry, n)
<1> DEFINE c == pool.next
<1>1. /\ scanning /\ c \notin pool.leased /\ pool.leased = entry.leased
      /\ pool' = [pool EXCEPT !.next = Successor(pool, c), !.leased = pool.leased \cup {c}]
  BY DEF TryCandidate, IInv, Scan
<1>2. pool \in Pools /\ entry \in Pools /\ c \in Usable(network) /\ TypeOK
  BY TypeFacts DEF IInv, Pools
<1>3. Free(entry) = Usable(network) \ entry.leased
  BY <1>2, TypeFacts DEF Free, Pools
<1>4. c \in Free(entry)
  BY <1>1, <1>2, <1>3
<1>5. \A m \in Free(entry) : Distance(entry, c) <= Distance(entry, m)
  <2> SUFFICES ASSUME NEW m \in Free(entry)
               PROVE  Distance(entry, c) <= Distance(entry, m)
    OBVIOUS
  <2>1. ~(Distance(entry, m) < Distance(entry, c))
    BY <1>1, <1>3 DEF IInv, Scan
  <2>2. Distance(entry, m) \in Nat /\ Distance(entry, c) \in Nat
    BY <1>2, <1>3, DistanceInjective
  <2> QED BY <2>1, <2>2
<1>6. pool' = Lease(entry, c)
  <2>1. Successor(pool, c) = Successor(entry, c)
    BY <1>2 DEF Pools, Successor
  <2> QED BY <1>1, <1>2, <2>1 DEF Lease, Pools
<1> QED BY <1>4, <1>5, <1>6 DEF IsNextFree

(* Seen by the other callers, lease() takes the next free address in one     *)
(* step, and is refused only when there is none (AtomicPool).                *)
THEOREM LoopImplementsAtomicPool == Spec => ImplementsAtomicPool
<1>1. Init => Atomic!Init
  BY SameOperators DEF Init, Atomic!Init
<1>2. IInv /\ [Next]_vars => [Atomic!Next]_Seen
  <2> SUFFICES ASSUME IInv, [Next]_vars PROVE Atomic!Next \/ Seen' = Seen
    BY DEF Seen
  <2>1. CASE Refuse \/ UNCHANGED vars
    BY <2>1 DEF Refuse, vars, Seen
  <2>2. CASE BeginScan
    BY <2>2 DEF BeginScan, Seen
  <2>3. CASE DropLease
    BY <2>3, SameOperators DEF DropLease, Atomic!Next, Atomic!ReleaseOne
  <2>4. CASE TryCandidate /\ scanning'
    BY <2>4 DEF TryCandidate, Seen
  <2>5. CASE TryCandidate /\ ~scanning'
    <3>1. scanning
      BY <2>5 DEF TryCandidate
    <3> QED BY <2>5, <3>1, LeaseIsAtomic, SameOperators DEF Atomic!Next, Atomic!LeaseNextFree
  <2> QED BY <2>1, <2>2, <2>3, <2>4, <2>5 DEF Next
<1> QED BY <1>1, <1>2, IInvCorrect, PTL DEF Spec, ImplementsAtomicPool, Atomic!Spec, Seen

----------------------------------------------------------------------------
(* What there is of a bound in the loop that has none: a call that entered   *)
(* it found a free address.                                                  *)
Room == scanning => entry.leased # Usable(network)

(* The caller found it before it took the mutex, and nothing changes under it. *)
LEMMA RoomHolds == Spec => []Room
<1>1. Init => Room
  BY DEF Init, Room
<1>2. IInv /\ Room /\ [Next]_vars => Room'
  <2> SUFFICES ASSUME IInv, Room, [Next]_vars PROVE Room'
    OBVIOUS
  <2>1. CASE BeginScan
    <3>1. TypeOK /\ pool \in Pools
      BY TypeFacts DEF IInv
    <3>2. pool.leased # Usable(network)
      BY <2>1, <3>1, LeasedFinite DEF BeginScan
    <3> QED BY <2>1, <3>2 DEF BeginScan, Room
  <2>2. CASE TryCandidate
    BY <2>2 DEF TryCandidate, Room
  <2>3. CASE Refuse \/ DropLease
    BY <2>3 DEF Refuse, DropLease, Room
  <2>4. CASE UNCHANGED vars
    BY <2>4 DEF vars, Room
  <2> QED BY <2>1, <2>2, <2>3, <2>4 DEF Next
<1> QED BY <1>1, <1>2, IInvCorrect, PTL DEF Spec

(* The turns of the loop of lease() so far.                                  *)
Turns == Distance(entry, pool.next)

(* A turn that is not the last of its call is followed by another candidate, *)
(* and there are fewer turns than the pool has addresses.                    *)
TurnsOn == scanning /\ scanning' => Turns' = Turns + 1 /\ Turns' < Span(entry)

(* From an address to the one before it around the block is the longest way. *)
LEMMA LastDistance ==
  ASSUME TypeOK, NEW p \in Pools, NEW n \in Usable(network), NEW m \in Usable(network)
  PROVE  /\ Distance(p, m) < Span(p)
         /\ Distance(p, Successor(p, n)) = 0 => Distance(p, n) = Span(p) - 1
<1>1. /\ p.first = Bounds.first /\ p.last = Bounds.last
      /\ p.next \in Bounds.first .. Bounds.last
      /\ m \in Bounds.first .. Bounds.last /\ n \in Bounds.first .. Bounds.last
      /\ Bounds.first \in Nat /\ Bounds.last \in Nat /\ Bounds.first <= Bounds.last
  BY TypeFacts DEF Pools
<1> QED BY <1>1 DEF Distance, Span, Successor

(* The loop of lease() has no bound of its own, but within one call it never *)
(* comes back to where it began: what is left of ScanReturns is that the     *)
(* caller keeps running (address_pool.rs).                                   *)
THEOREM ScanNeverComesRound == Spec => [][TurnsOn]_vars
<1>1. IInv /\ Room /\ [Next]_vars => [TurnsOn]_vars
  <2> SUFFICES ASSUME IInv, Room, Next, scanning, scanning'
               PROVE  Turns' = Turns + 1 /\ Turns' < Span(entry)
    BY DEF TurnsOn
  <2> DEFINE c == pool.next
  <2>1. TryCandidate
    BY DEF Next, Refuse, BeginScan, DropLease
  <2>2. /\ entry' = entry /\ pool' = [pool EXCEPT !.next = Successor(pool, c), !.leased = @ \cup {c}]
        /\ c \in pool.leased
    BY <2>1 DEF TryCandidate
  <2>3. TypeOK /\ pool \in Pools /\ entry \in Pools /\ c \in Usable(network)
    BY TypeFacts DEF IInv, Pools
  <2>4. pool'.next = Successor(entry, c)
    BY <2>2, <2>3 DEF Pools, Successor
  <2>5. Turns' = Distance(entry, Successor(entry, c)) /\ Turns = Distance(entry, c)
    BY <2>2, <2>4 DEF Turns, Distance, Span
  <2>6. Successor(entry, c) \in Usable(network)
    BY <2>3, SuccessorFacts
  <2>7. Distance(entry, Successor(entry, c)) < Span(entry)
    BY <2>3, <2>6, LastDistance
  <2>8. ASSUME Distance(entry, Successor(entry, c)) = 0 PROVE FALSE
    <3>1. Distance(entry, c) = Span(entry) - 1 /\ Span(entry) \in Int
      BY <2>3, <2>8, LastDistance, TypeFacts DEF Span, Pools
    <3>2. ASSUME NEW m \in Usable(network) PROVE m \in entry.leased
      <4>1. Distance(entry, m) < Span(entry) /\ Distance(entry, m) \in Nat
            /\ (Distance(entry, m) = Distance(entry, c) => m = c)
        BY <2>3, LastDistance, DistanceInjective
      <4>2. Distance(entry, m) < Distance(entry, c) \/ m = c
        BY <3>1, <4>1
      <4> QED BY <2>2, <4>2 DEF IInv, Scan
    <3>3. entry.leased \subseteq Usable(network)
      BY <2>3 DEF Pools
    <3> QED BY <3>2, <3>3 DEF Room
  <2>9. Distance(entry, Successor(entry, c)) = Distance(entry, c) + 1
    BY <2>3, <2>8, SuccessorFacts
  <2> QED BY <2>5, <2>7, <2>9
<1> QED BY <1>1, IInvCorrect, RoomHolds, PTL DEF Spec
=============================================================================
