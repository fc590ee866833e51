--------------------------- MODULE AddressOwnership --------------------------
(***************************************************************************)
(* What the address side of CONNECT-IP promises to clients, without        *)
(* pools, registry, handles or phases: an address has one owner at a time, *)
(* a packet for an address reaches its owner's queue only, and an address  *)
(* changes hands only when its last owner has nothing left to read.        *)
(***************************************************************************)
EXTENDS Sequences

CONSTANTS
  Sessions,    \* those that may own addresses
  Addresses,   \* those that may be owned
  Packets,     \* records with a destination
  Routed(_),   \* whether a destination may also be reached by a route
  None         \* no owner

VARIABLES
  owner,       \* the owner of each address, or None
  inbox        \* the packets each session has yet to read

vars == <<owner, inbox>>

Init ==
  /\ owner = [a \in Addresses |-> None]
  /\ inbox = [s \in Sessions |-> <<>>]

Take(s) ==
  /\ \E a \in Addresses :
       /\ owner[a] = None
       /\ owner' = [owner EXCEPT ![a] = s]
  /\ UNCHANGED inbox

Deliver(s) ==
  /\ \E packet \in Packets :
       /\ \/ packet.destination \in Addresses /\ owner[packet.destination] = s
          \/ Routed(packet.destination)
       /\ inbox' = [inbox EXCEPT ![s] = Append(@, packet)]
  /\ UNCHANGED owner

Read(s) ==
  /\ inbox[s] # <<>>
  /\ inbox' = [inbox EXCEPT ![s] = Tail(@)]
  /\ UNCHANGED owner

Discard(s) ==
  /\ inbox' = [inbox EXCEPT ![s] = <<>>]
  /\ UNCHANGED owner

GiveBack(s) ==
  /\ inbox[s] = <<>>
  /\ \E a \in Addresses :
       /\ owner[a] = s
       /\ owner' = [owner EXCEPT ![a] = None]
  /\ UNCHANGED inbox

Next == \E s \in Sessions : Take(s) \/ Deliver(s) \/ Read(s) \/ Discard(s) \/ GiveBack(s)

Spec == Init /\ [][Next]_vars
==============================================================================
