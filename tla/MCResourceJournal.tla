-------------------------- MODULE MCResourceJournal ---------------------------
(* The dual-stack Linux start: two sysctls, the nft table, the TUN device   *)
(* and two routes.                                                          *)
EXTENDS ResourceJournal

MCPlan == <<"forwarding4", "forwarding6", "table", "tun", "route4", "route6">>
MCResources == {MCPlan[i] : i \in DOMAIN MCPlan}
MCKindOf ==
  [r \in MCResources |->
    CASE r \in {"forwarding4", "forwarding6"} -> "sysctl"
      [] r = "table" -> "nat"
      [] r = "tun"   -> "tun"
      [] OTHER       -> "route"]
==============================================================================
