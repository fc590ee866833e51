------------------------------ MODULE MCInputs ------------------------------
EXTENDS Inputs

(* Streams: two-byte and eight-byte numbers, empty and oversized values,     *)
(* unknown types, a context that does not end, one that is not 0, payloads   *)
(* of and beyond the most a session takes.                                   *)
Long(n) == <<192, 0, 0, 0, 0, 0, 0, n>>
MCStreams ==
    {<<0, 3, 0, 7, 8, 0, 2, 64, 9>>,               \* payload 7 8; a context cut short
     <<64, 0, 64, 2, 0, 7, 1, 0, 0, 2, 0, 5>>,     \* two-byte header; an empty capsule
     Long(0) \o Long(2) \o <<0, 7, 0, 0>>,         \* sixteen bytes of header; no context
     <<3, 6, 1, 1, 1, 1, 1, 1, 0, 2, 0, 4>>,       \* oversized, then a payload
     <<70, 7, 2, 1, 1, 0, 2, 4, 9, 0, 1, 0>>,      \* unknown type 1543; another context; empty
     <<0, 4, 0, 7, 8, 9, 0, 5, 0, 1, 2, 3, 4, 0>>} \* too much for the session; too much for UDP

----------------------------------------------------------------------------
(* Routes and ranges over four IPv4 numbers and two of IPv6. *)
Small == {Block("ipv4", f, 1) : f \in 0..3} \cup {Block("ipv4", f, 2) : f \in {0, 2}}
         \cup {Block("ipv6", f, 1) : f \in 0..1} \cup {Block("ipv6", 0, 2)}
Hosts == {Block("ipv4", 1, 1), Block("ipv4", 3, 1), Block("ipv6", 0, 1)}

Scopes ==
    {[kind |-> "any", target |-> {}, protocol |-> p] : p \in {0, 17}}
    \cup {[kind |-> "prefix", target |-> n, protocol |-> 0] :
            n \in {Block("ipv4", 0, 4), Block("ipv4", 0, 2), Block("ipv4", 3, 1), Block("ipv6", 0, 1)}}
    \cup {[kind |-> "resolved", target |-> h, protocol |-> 17] : h \in SUBSET Hosts \ {{}}}

RouteCases ==
    {[kind |-> "routes", configured |-> c, scope |-> s, assigned |-> a] :
        c \in BoundedSeq(Small, 3), s \in Scopes, a \in {{"ipv4"}, {"ipv4", "ipv6"}}}

SmallRanges ==
    {[family |-> "ipv4", start |-> s, end |-> e, protocol |-> p] :
        s \in 0..2, e \in 0..2, p \in {0, 6, 17}}
    \cup {[family |-> "ipv6", start |-> 0, end |-> 1, protocol |-> p] : p \in {0, 17}}

RangeCases == {[kind |-> "ranges", ranges |-> r] : r \in BoundedSeq(SmallRanges, 3)}

----------------------------------------------------------------------------
(* The ends of the networks of the tables and the numbers beside them. *)
EdgesOf(networks, family) ==
    LET mine == {n \in networks : n.family = family}
    IN UNION {{n.first - 1, n.first, n.last, n.last + 1} : n \in mine}

All6 == V6(0, 0, 0)
MCBoundaries ==
    [ipv4 |-> {n \in EdgesOf(DefaultDenied, "ipv4") : Within(V4(0, 0, 0, 0), "ipv4", n)},
     ipv6 |-> {n \in EdgesOf(DefaultDenied \cup Unnamed \cup {Unicast}, "ipv6") :
                  Within(All6, "ipv6", n)}]

Allows == {V4(0, 0, 0, 0), V4(192, 0, 0, 9), V4(10, 1, 0, 16), V4(198, 16, 0, 14), All6,
           Unicast, V6(8193, 0, 16)}
Denies == {V4(192, 0, 0, 16), V4(198, 18, 0, 16), V4(224, 0, 0, 8), Documentation,
           V6(16384, 0, 8)}

Roles == {[allow |-> {a}, deny |-> d, denyPrivate |-> p] :
            a \in Allows, d \in {{}} \cup {{n} : n \in Denies}, p \in BOOLEAN}
Pairs == {{[allow |-> {V4(0, 0, 0, 0)}, deny |-> {V4(192, 0, 0, 16)}, denyPrivate |-> TRUE],
           [allow |-> {V4(192, 0, 0, 9)}, deny |-> {}, denyPrivate |-> FALSE]}}

Asked == DefaultDenied \cup Allows \cup Denies
         \cup (Unnamed \ {Block("ipv6", 1, 2 ^ 27 - 1)})
         \cup {V4(172, 0, 0, 11), V4(192, 0, 0, 22), V4(198, 51, 100, 23), V6(8193, 2048, 21),
               V6(16384, 0, 16), V6(0, 4, 30), V6(64512, 0, 6)}
Between == {<<V4(9, 255, 255, 24), V4(11, 0, 0, 24)>>, <<V4(198, 17, 0, 16), V4(198, 20, 0, 16)>>,
            <<V4(192, 1, 0, 24), V4(192, 167, 255, 24)>>, <<V6(8193, 512, 30), V6(8193, 3508, 30)>>,
            <<V6(8193, 3508, 30), V6(8193, 3516, 30)>>, <<V6(8192, 0, 16), V6(8195, 0, 16)>>,
            <<V6(0, 4, 30), V6(8191, 0, 16)>>, <<V6(16383, 0, 16), V6(16384, 0, 16)>>,
            <<V6(65024, 0, 16), V6(65151, 0, 16)>>, <<V6(64511, 0, 16), V6(65216, 0, 16)>>}

PrefixCases ==
    {[kind |-> "policy", roles |-> r, prefix |-> TRUE,
      range |-> [family |-> n.family, start |-> n.first, end |-> n.last]] :
        r \in {{role} : role \in Roles} \cup Pairs, n \in Asked}
BetweenCases ==
    {[kind |-> "policy", roles |-> r, prefix |-> FALSE,
      range |-> [family |-> b[1].family, start |-> b[1].first, end |-> b[2].last]] :
        r \in {{role} : role \in Roles} \cup Pairs, b \in Between}

----------------------------------------------------------------------------
(* Documents: the default one with one section varied at a time. *)
Digest(upper) == [value |-> "d1", upper |-> upper]
Principals ==
    {[id |-> i, roles |-> r, certificates |-> c] :
        i \in {"p1", "p2"}, r \in {<<>>, <<"default">>, <<"other">>},
        c \in {<<>>, <<Digest(FALSE)>>, <<Digest(TRUE)>>, <<Digest(FALSE), Digest(TRUE)>>, <<Bad>>}}
Tokens == {[id |-> i, principal |-> p, enabled |-> e, hash |-> "h", expires |-> x] :
              i \in {"t1", "t2"}, p \in {"p1", "p2"}, e \in BOOLEAN, x \in {"never", Bad}}
Named == [DefaultDocument EXCEPT !.roles = <<DefaultRole>>]
Networked == [DefaultRole EXCEPT !.allow = <<V4(0, 0, 0, 0)>>]
Working == [Named EXCEPT !.roles = <<Networked>>,
                         !.principals = <<[id |-> "p1", roles |-> <<"default">>, certificates |-> <<>>]>>]

AuthDocuments ==
    {[Working EXCEPT !.principals = p, !.mode = m, !.required = r, !.files.clientCa = c] :
        p \in BoundedSeq(Principals, 2), m \in {"none", "bearer", "mtls", "bearer-or-mtls"},
        r \in BOOLEAN, c \in {"none", "set"}}
TokenDocuments ==
    {[Working EXCEPT !.tokens = t] : t \in BoundedSeq(Tokens, 2)}

RoleDocuments ==
    {[Working EXCEPT !.roles = <<[Networked EXCEPT !.allow = a, !.capabilities = c, !.limits.new = l,
                                                   !.protocols = p]>> \o more] :
        a \in {<<>>, <<V4(0, 0, 0, 0)>>, <<Bad>>}, c \in {{"connect-ip"}, {"connect-tcp"}},
        l \in 0..1, p \in {<<>>, <<Bad>>}, more \in {<<>>, <<Networked>>}}

Pools == {<<>>} \cup {<<[declared |-> f, network |-> n]>> :
                        f \in {"ipv4", "ipv6"}, n \in {V4(100, 64, 0, 16), Documentation, Bad}}
         \cup {<<[declared |-> "ipv4", network |-> V4(100, 64, 0, 16)],
                 [declared |-> "ipv6", network |-> n]>> : n \in {Documentation, Bad}}
RouteLists == {<<>>, <<V4(8, 0, 0, 8), V4(9, 0, 0, 8)>>, <<V4(9, 0, 0, 8), V4(8, 0, 0, 8)>>,
               <<V4(8, 0, 0, 8), V4(8, 1, 0, 16)>>, <<Bad>>}
IpDocuments ==
    {[Working EXCEPT !.ip = [enabled |-> e, interface |-> i, mtu |-> m, pools |-> p, routes |-> r,
                             nat |-> n, egress |-> g]] :
        e \in BOOLEAN, i \in {"owned", "foreign"}, m \in {1279, 1280}, p \in Pools, r \in RouteLists,
        n \in {"disabled", "managed"}, g \in {"auto", "blank", Bad}}

ServerDocuments ==
    {[Working EXCEPT !.listen = l, !.metrics = m, !.udp = [enabled |-> u, idle |-> i, maxPayload |-> 65527],
                     !.maxConnections = c] :
        l \in {<<>>, <<Bad>>} \cup
              {<<[ip |-> a, port |-> p]>> : a \in {"0.0.0.0", "127.0.0.1"}, p \in {0, 443, 9464}},
        m \in {Bad} \cup {[ip |-> a, port |-> p] : a \in {"127.0.0.1", "0.0.0.0"}, p \in {0, 9464}},
        u \in BOOLEAN, i \in {119, 120, Bad}, c \in 0..1}

Configs(documents) == {[kind |-> "config", document |-> d] : d \in documents}

----------------------------------------------------------------------------
(* Sessions and packets, on addresses within the networks of the tables.  A  *)
(* client with a network behind it, which it advertised; a target, a host    *)
(* that no scope names, one that is private.                                 *)
Host(network) == [family |-> network.family, n |-> network.first]
Client4 == V4(100, 64, 1, 24)
Client6 == V6(8193, 4096, 30)
Behind4 == V4(192, 168, 9, 24)
Target4 == V4(8, 8, 8, 24)
Target6 == V6(9734, 18176, 30)
Other4 == V4(9, 9, 9, 24)
Other6 == V6(10752, 4, 30)
Private4 == V4(10, 0, 0, 24)

SessionsOf(scopes, protocols, roles) ==
    {[assigned |-> a, scope |-> s, roles |-> {r}, protocols |-> p, routes |-> c, mtu |-> m] :
        a \in {<<Client4>>, <<Client4, Client6>>}, s \in scopes, r \in roles, p \in protocols,
        c \in {<<>>, <<[family |-> "ipv4", start |-> Behind4.first, end |-> Behind4.last,
                       protocol |-> 17]>>}, m \in {1280, 1500}}
Open == [allow |-> {V4(0, 0, 0, 0), Unicast}, deny |-> {V4(9, 9, 0, 16)}, denyPrivate |-> TRUE]
Narrow == [allow |-> {V4(8, 0, 0, 8), Unicast}, deny |-> {Other6}, denyPrivate |-> FALSE]
PacketSessions ==
    SessionsOf({[kind |-> "any", target |-> {}, protocol |-> 0],
                [kind |-> "prefix", target |-> V4(8, 8, 0, 16), protocol |-> 17]},
               {0..255, {17}, {}}, {Open})
    \cup SessionsOf({[kind |-> "resolved", target |-> {Target4, Target6}, protocol |-> 6]},
                    {0..255}, {Open, Narrow})

Extension(type, end) == [type |-> type, end |-> end]
Shapes ==
    [ipv4 |-> {[length |-> l, declared |-> l, header |-> h, extensions |-> <<>>] :
                   l \in {60, 1280, 1281, 1501}, h \in {20, 60}}
              \cup {[length |-> l, declared |-> 28, header |-> 20, extensions |-> <<>>] : l \in {19, 27, 28}},
     ipv6 |-> {[length |-> l, declared |-> l, header |-> 40, extensions |-> e] :
                   l \in {64, 1280, 1281, 1501},
                   e \in {<<>>, <<Extension("hop-by-hop", 48), Extension("fragment", 56)>>,
                          <<Extension("fragment", 48), Extension("hop-by-hop", 56)>>,
                          [i \in 1..2 |-> Extension("fragment", 40 + 8 * i)],
                          [i \in 1..9 |-> Extension("options", 40 + 16 * i)],
                          <<Extension("options", 1272)>>}}]

PacketsOf(shapes, sources, destinations, protocols, body) ==
    {[family |-> s.family, length |-> x.length, declared |-> x.declared, header |-> x.header,
      extensions |-> x.extensions, protocol |-> p, hop |-> 2, source |-> Host(s),
      destination |-> Host(d), body |-> body] :
        x \in shapes, s \in sources, d \in destinations, p \in protocols}

Plain == {x \in Shapes.ipv4 : x.length = 60}
Sent == PacketsOf(Plain, {Client4}, {Target4, Other4}, {6, 17}, [kind |-> "data"])
Packets4 ==
    PacketsOf(Shapes.ipv4, {Client4, Behind4, Target4}, {Target4, Other4, Private4, Client4, Behind4},
              {6, 17}, [kind |-> "data"])
    \cup PacketsOf(Shapes.ipv4, {Client4, Target4}, {Target4, Client4}, {1}, [kind |-> "message"])
    \cup UNION {PacketsOf(Plain, {Client4, Private4}, {Client4, Target4}, {1},
                          [kind |-> "error", about |-> about]) : about \in Sent}
Packets6 ==
    PacketsOf(Shapes.ipv6, {Client6, Target6}, {Target6, Other6, Client6}, {17}, [kind |-> "data"])
    \cup PacketsOf(Shapes.ipv6, {Client6, Target6}, {Target6, Client6}, {58}, [kind |-> "message"])

PacketCases ==
    {[kind |-> "packet", session |-> s, packet |-> p, routers |-> {Host(Private4), Host(Other6)}] :
        s \in PacketSessions, p \in Packets4 \cup Packets6}

(* Address requests: three entries to a capsule, two capsules to a session. *)
Requests ==
    {[id |-> i, prefix |-> p] : i \in 0..3,
        p \in {V4(0, 0, 0, 0), Client4, Other4, Unicast}}
OneRequest == {[id |-> i, prefix |-> p] : i \in 1..3, p \in {V4(0, 0, 0, 0), Unicast}}
RequestCases ==
    {[kind |-> "requests", assigned |-> a, capsules |-> <<r>>] :
        a \in {<<Client4>>, <<Client6>>, <<Client4, Client6>>}, r \in BoundedSeq(Requests, 3)}
    \cup {[kind |-> "requests", assigned |-> <<Client4, Client6>>, capsules |-> <<a, b>>] :
            a \in BoundedSeq(OneRequest, 2), b \in BoundedSeq(OneRequest, 2)}
    \cup {[kind |-> "requests", assigned |-> <<Client4>>, capsules |-> <<[i \in 1..4 |->
                [id |-> i, prefix |-> Client4]]>>]}

(* Rates: four calls, of nothing up to more than the burst. *)
Calls == {[elapsed |-> e, amount |-> n] : e \in {0, 1, 3, 9}, n \in {0, 1, 2, 4}}
BucketCases ==
    {[kind |-> "bucket", rate |-> r, burst |-> b, calls |-> c] :
        r \in {1, 3}, b \in {1, 3}, c \in BoundedSeq(Calls, 3)}

----------------------------------------------------------------------------
MCQuestions == <<RouteCases, RangeCases, PrefixCases, BetweenCases, Configs(AuthDocuments),
                 Configs(TokenDocuments), Configs(RoleDocuments), Configs(IpDocuments),
                 Configs(ServerDocuments), PacketCases, RequestCases, BucketCases>>
RouteQuestions == <<RouteCases>>
MCNumbers == 0..3
=============================================================================
