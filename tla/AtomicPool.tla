----------------------------- MODULE AtomicPool ------------------------------
(***************************************************************************)
(* What an address pool promises: a lease takes, in one step, the free     *)
(* usable address that has waited longest in cursor order, and is refused  *)
(* only when no usable address is free.                                    *)
(***************************************************************************)
EXTENDS AddressPool

CONSTANT Networks       \* the networks a pool may be configured with

VARIABLE pool

Init == \E network \in Networks : pool = NewPool(network)

LeaseNextFree == \E n \in Free(pool) : IsNextFree(pool, n) /\ pool' = Lease(pool, n)

ReleaseOne == \E n \in pool.leased : pool' = Release(pool, n)

Next == LeaseNextFree \/ ReleaseOne

Spec == Init /\ [][Next]_pool
==============================================================================
