--------------------------- MODULE AddressPoolScan ---------------------------
(***************************************************************************)
(* AddressPool::lease of proxy/address_pool.rs with its loop unrolled: the *)
(* caller holds the pool's mutex from its first check to its return, and   *)
(* every turn of the loop moves the cursor before it knows whether the     *)
(* candidate is free.                                                      *)
(***************************************************************************)
EXTENDS AddressPool

CONSTANT Networks       \* the networks a pool may be configured with

(* A block of a power of two of addresses: one, or evenly many.            *)
ASSUME NetworksAssumption ==
  \A network \in Networks :
    /\ network \in Network /\ network.first <= network.last
    /\ network.first < network.last => (network.last - network.first) % 2 = 1

VARIABLES
  network,   \* the configured network
  pool,      \* AddressPool: first, last, next and leased
  scanning,  \* a caller is inside the loop, with the mutex held
  entry,     \* the pool as that caller found it when it took the mutex
  verdict    \* what the last call returned: "none", "leased" or "refused"

vars == <<network, pool, scanning, entry, verdict>>

Init ==
  /\ network \in Networks
  /\ pool = NewPool(network)
  /\ scanning = FALSE
  /\ entry = pool
  /\ verdict = "none"

(* The two early returns of lease().                                       *)
Refuse ==
  /\ ~scanning
  /\ Exhausted(pool)
  /\ verdict' = "refused"
  /\ UNCHANGED <<network, pool, scanning, entry>>

BeginScan ==
  /\ ~scanning
  /\ ~Exhausted(pool)
  /\ scanning' = TRUE
  /\ entry' = pool
  /\ UNCHANGED <<network, pool, verdict>>

(* One turn of the loop: advance the cursor, then try to insert.           *)
TryCandidate ==
  LET candidate == pool.next IN
  /\ scanning
  /\ pool' = [pool EXCEPT !.next = Successor(pool, candidate),
                          !.leased = @ \cup {candidate}]
  /\ scanning' = (candidate \in pool.leased)
  /\ verdict' = IF scanning' THEN verdict ELSE "leased"
  /\ UNCHANGED <<network, entry>>

(* AddressLease::drop; it waits for the mutex.                             *)
DropLease ==
  /\ ~scanning
  /\ \E n \in pool.leased : pool' = Release(pool, n)
  /\ verdict' = "none"
  /\ UNCHANGED <<network, scanning, entry>>

Next == Refuse \/ BeginScan \/ TryCandidate \/ DropLease

Spec == Init /\ [][Next]_vars /\ WF_vars(TryCandidate)

------------------------------------------------------------------------------
(* The cursor and the leases never leave the usable addresses of the       *)
(* network, in the loop and out of it.                                     *)
TypeOK ==
  LET Pools == [first : {UsableBounds(network).first}, last : {UsableBounds(network).last},
                next : Usable(network), leased : SUBSET Usable(network)]
  IN  /\ network \in Networks
      /\ pool \in Pools
      /\ entry \in Pools
      /\ scanning \in BOOLEAN
      /\ verdict \in {"none", "leased", "refused"}

(* No lease is ever the network address of a block, nor the broadcast      *)
(* address of an IPv4 one, at any prefix length; the /31, /32 and /128     *)
(* blocks that have neither lease all they have.                           *)
OnlyHostAddressesLeased ==
  LET size == network.last - network.first + 1 IN
  \A n \in pool.leased :
    /\ n \in network.first .. network.last
    /\ network.family = "ipv4" /\ size > 2 => n \notin {network.first, network.last}
    /\ network.family = "ipv6" /\ size > 1 => n # network.first

(* A refusal means that every host address of the block is leased: no      *)
(* address is lost to the bounds or to the count of leases.                *)
RefusedOnlyWhenFull ==
  LET size == network.last - network.first + 1
      hosts == IF network.family = "ipv4" /\ size > 2 THEN size - 2
               ELSE IF network.family = "ipv6" /\ size > 1 THEN size - 1
               ELSE size
  IN  verdict = "refused" => Cardinality(pool.leased) = hosts

(* At every prefix length, the pool's addresses are the hosts of its block: *)
(* it leases no other, and it leases them all (usable_bounds,               *)
(* address_pool.rs:108).                                                    *)
HostAddressesOnlyAndAll == OnlyHostAddressesLeased /\ RefusedOnlyWhenFull

(* The unbounded loop of lease() always returns, whatever the cursor and   *)
(* the set of leases were when it began.                                   *)
ScanReturns == scanning ~> ~scanning

(* The loop implements the atomic allocation: seen by other callers, who   *)
(* cannot look while the mutex is held, a lease takes the next free        *)
(* address in one step.                                                    *)
Atomic == INSTANCE AtomicPool WITH pool <- IF scanning THEN entry ELSE pool
ImplementsAtomicPool == Atomic!Spec

==============================================================================
