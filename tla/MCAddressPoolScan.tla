-------------------------- MODULE MCAddressPoolScan --------------------------
(* Every block of one to eight addresses of either family, at a base that   *)
(* is not zero so that an address is never mistaken for an offset.          *)
EXTENDS AddressPoolScan

MCNetworks ==
  {[family |-> f, first |-> 8, last |-> 8 + size - 1] : f \in Families, size \in {1, 2, 4, 8}}
==============================================================================
