---------------------------- MODULE MCIpSessions -----------------------------
(* Small instances of IpSessions.  The IPv4 block 8..11 leases 9 and 10,    *)
(* the IPv6 block 8..9 leases 9 only; 20..21 lie outside both pools.        *)
EXTENDS IpSessions

V4(n) == <<"ipv4", n>>
V6(n) == <<"ipv6", n>>
Block4 == [family |-> "ipv4", first |-> 8, last |-> 11]
Block6 == [family |-> "ipv6", first |-> 8, last |-> 9]
Host4  == [family |-> "ipv4", first |-> 9, last |-> 9]

DualPools  == [f \in Families |-> IF f = "ipv4" THEN Block4 ELSE Block6]
OneAddress == [f \in {"ipv4"} |-> Host4]

(* One principal and one connection, or one connection per request.        *)
OnePrincipal  == [r \in Requests |-> "client"]
OneConnection == [r \in Requests |-> "quic"]
OwnConnection == [r \in Requests |-> r]

(* Request 2 wants an IPv6 target, which the only IPv6 address may refuse.  *)
MixedScopes == [r \in Requests |-> IF r = 2 THEN {"ipv6"} ELSE Families]
AnyScope    == [r \in Requests |-> Families]

Range4(first, last, protocol) ==
  [family |-> "ipv4", start |-> first, end |-> last, protocol |-> protocol]

(* All protocols on 20..21, UDP on 21, TCP on 21; and the pool's own block. *)
AnyRange  == Range4(20, 21, 0)
UdpRange  == Range4(21, 21, 17)
TcpRange  == Range4(21, 21, 6)
LowRange  == Range4(20, 20, 17)
PoolRange == Range4(8, 11, 0)

DrainAds == {{UdpRange}, {PoolRange}}
SomeAds == {{UdpRange}, {LowRange, TcpRange}}
OutsideRanges == {AnyRange, UdpRange, TcpRange, LowRange}

PacketTo(n, protocol) == [destination |-> V4(n), protocol |-> protocol, invoking |-> None]
TwoPackets == {PacketTo(9, 17), PacketTo(21, 17)}
==============================================================================
