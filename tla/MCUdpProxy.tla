----------------------------- MODULE MCUdpProxy ------------------------------
(* One principal asks by token, by a name that resolves to a public and a    *)
(* private address; the second configuration asks for no credential, in      *)
(* which case everyone is one principal with all the roles.                  *)
EXTENDS UdpProxy, TLC

CONSTANTS r1, r2, r3, quic, web

MCRequests == {r1, r2, r3}
MCConnectionOf == [r \in MCRequests |-> IF r = r3 THEN web ELSE quic]

Good == [token |-> "t", secret |-> TRUE]
MCAsks == [r \in MCRequests |->
    IF r = r3 THEN [credential |-> [token |-> "t", secret |-> FALSE], certificate |-> "cert",
                    host |-> "public"]
    ELSE [credential |-> Good, certificate |-> None, host |-> IF r = r1 THEN "name" ELSE "other"]]

Role(tunnels, allow, deny) ==
    [capabilities |-> {"connect-udp"}, allow |-> allow, deny |-> deny, denyPrivate |-> TRUE,
     tunnels |-> tunnels, new |-> 1]

Configured(mode, required, preferIpv6, names) ==
    [enabled |-> TRUE, required |-> required, mode |-> mode, preferIpv6 |-> preferIpv6,
     tokens |-> [t \in {"t"} |-> [principal |-> "client", expires |-> 2]],
     certificates |-> [x \in {"cert"} |-> "client"],
     principals |-> [p \in {"client"} |-> names],
     roles |-> [n \in names |->
                   IF n = "a" THEN Role(2, {"public", "other", "private"}, {"other"})
                   ELSE Role(3, {"public", "other"}, {})]]

MCConfigs ==
    <<Configured("either", TRUE, FALSE, {"a", "b"}), Configured("none", FALSE, TRUE, {"a"})>>
=============================================================================
