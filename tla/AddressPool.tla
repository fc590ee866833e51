----------------------------- MODULE AddressPool -----------------------------
(***************************************************************************)
(* The pool of client addresses of proxy/address_pool.rs, as values and    *)
(* operators: AddressPoolScan runs its allocation loop step by step, and   *)
(* IpSessions composes one pool per family with the sessions that hold     *)
(* the leases.                                                             *)
(*                                                                         *)
(* An address is a number of its family (numeric and address_from_numeric  *)
(* are inverse bijections on the addresses of a pool, so they have no      *)
(* counterpart here).  A network is a block of 2^k consecutive numbers.    *)
(***************************************************************************)
EXTENDS Integers, FiniteSets

Families == {"ipv4", "ipv6"}

Network == [family : Families, first : Nat, last : Nat]

(* Mutant: only the network address is kept out of the pool.               *)
UsableBoundsKeepBroadcast(network) ==
  [first |-> IF network.first < network.last THEN network.first + 1 ELSE network.first,
   last  |-> network.last]

(* The code asks for an IPv4 prefix shorter than /31: a block of at least  *)
(* four addresses.                                                         *)
UsableBounds(network) ==
  IF network.family = "ipv4" /\ network.last - network.first >= 3
    THEN [first |-> network.first + 1, last |-> network.last - 1]
  ELSE IF network.family = "ipv6" /\ network.first < network.last
    THEN [first |-> network.first + 1, last |-> network.last]
  ELSE [first |-> network.first, last |-> network.last]

(* The numbers a pool over this network may lease.                         *)
Usable(network) == UsableBounds(network).first .. UsableBounds(network).last

NewPool(network) ==
  [first  |-> UsableBounds(network).first,
   last   |-> UsableBounds(network).last,
   next   |-> UsableBounds(network).first,
   leased |-> {}]

Span(pool) == pool.last - pool.first + 1

(* Mutant: the count of leases is compared with one too many.              *)
ExhaustedTooLate(pool) ==
  \/ pool.first > pool.last
  \/ Cardinality(pool.leased) > Span(pool)

(* lease() refuses before it enters its loop.                              *)
Exhausted(pool) ==
  \/ pool.first > pool.last
  \/ Cardinality(pool.leased) >= Span(pool)

(* Mutant: the cursor restarts one past the first address.                 *)
SuccessorSkipsFirst(pool, n) == IF n = pool.last THEN pool.first + 1 ELSE n + 1

(* The cursor wraps at the last usable address.                            *)
Successor(pool, n) == IF n = pool.last THEN pool.first ELSE n + 1

(* How many candidates the loop tries before it reaches n.                 *)
Distance(pool, n) ==
  IF n >= pool.next THEN n - pool.next ELSE n - pool.next + Span(pool)

Free(pool) == (pool.first .. pool.last) \ pool.leased

(* The address the loop stops at: the first free one from the cursor on.   *)
IsNextFree(pool, n) ==
  /\ n \in Free(pool)
  /\ \A m \in Free(pool) : Distance(pool, n) <= Distance(pool, m)

Lease(pool, n) ==
  [pool EXCEPT !.next = Successor(pool, n), !.leased = @ \cup {n}]

Release(pool, n) == [pool EXCEPT !.leased = @ \ {n}]
==============================================================================
