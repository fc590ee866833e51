------------------------------- MODULE Ranges -------------------------------
(***************************************************************************)
(* Networks, ranges and the checks on them: the routes of a configuration  *)
(* (validate.rs), the routes advertised for a request (proxy/ip_scope.rs)  *)
(* and their RFC 9484 order (capsule/route.rs), and the three answers of a *)
(* policy on destinations (policy.rs, packet/scope.rs).                    *)
(*                                                                         *)
(* A number stands for 256 IPv4 addresses, and for the IPv6 addresses that *)
(* share their first 30 bits.  Three networks of the tables are smaller:   *)
(* ::/128 and ::1/128, which a range that begins with number 0 holds, and  *)
(* 2001:db8::/32, whose number stands for its own addresses only (the      *)
(* three /32 that follow it are in no number).                             *)
(***************************************************************************)
EXTENDS Integers, Sequences, FiniteSets, SequencesExt

Block(family, first, size) == [family |-> family, first |-> first, last |-> first + size - 1]

Within(network, family, n) == network.family = family /\ n \in network.first..network.last
SameFamily(a, b) == a.family = b.family
Version(family) == IF family = "ipv4" THEN 4 ELSE 6

(* Two prefixes overlap when one holds the other's first address. *)
Overlap(a, b) == Within(a, b.family, b.first) \/ Within(b, a.family, a.first)

Adjacent(s) == {<<s[i], s[i + 1]>> : i \in 1..(Len(s) - 1)}

----------------------------------------------------------------------------
(* Mutant: the routes are ordered by their first address only. *)
MutantAdvertiseRoutesValid(routes) ==
    \A pair \in Adjacent(routes) :
        /\ Version(pair[1].family) <= Version(pair[2].family)
        /\ SameFamily(pair[1], pair[2]) => pair[1].first <= pair[2].first

(* proxy.ip.advertise_routes, each compared with the one that follows it.    *)
AdvertiseRoutesValid(routes) ==
    \A pair \in Adjacent(routes) :
        /\ Version(pair[1].family) <= Version(pair[2].family)
        /\ SameFamily(pair[1], pair[2]) => /\ pair[1].first <= pair[2].first
                                           /\ pair[1].last < pair[2].first

InOrder(a, b) ==
    /\ Version(a.family) <= Version(b.family)
    /\ SameFamily(a, b) => /\ a.protocol <= b.protocol
                           /\ a.protocol = b.protocol => a.start <= b.start

(* Of the wildcard ranges, in order, only the first that does not end before *)
(* the range is looked at.                                                   *)
Wildcards(ranges, family) ==
    {i \in DOMAIN ranges : ranges[i].family = family /\ ranges[i].protocol = 0}

WildcardMeets(ranges, range) ==
    \E i \in Wildcards(ranges, range.family) :
        /\ ranges[i].end >= range.start
        /\ \A j \in Wildcards(ranges, range.family) : j < i => ranges[j].end < range.start
        /\ ranges[i].start <= range.end

(* validate_ranges(), of ranges that have one family each.                   *)
RangesValid(ranges) ==
    /\ \A i \in DOMAIN ranges : ranges[i].start <= ranges[i].end
    /\ \A pair \in Adjacent(ranges) :
          /\ InOrder(pair[1], pair[2])
          /\ SameFamily(pair[1], pair[2]) /\ pair[1].protocol = pair[2].protocol
                => pair[1].end < pair[2].start
    /\ \A i \in DOMAIN ranges :
          ranges[i].protocol # 0 => ~WildcardMeets(ranges, ranges[i])

----------------------------------------------------------------------------
(* What a request is told it may reach: [kind, target, protocol], where the  *)
(* target of a prefix is a network and that of a name a set of hosts.        *)
Intersection(target, route) ==
    IF ~SameFamily(target, route) THEN {}
    ELSE IF Within(target, route.family, route.first) THEN {route}
    ELSE IF Within(route, target.family, target.first) THEN {target}
    ELSE {}

Advertised(scope, configured) ==
    CASE scope.kind = "any"      -> ToSet(configured)
      [] scope.kind = "prefix"   -> UNION {Intersection(scope.target, configured[i])
                                              : i \in DOMAIN configured}
      [] scope.kind = "resolved" -> scope.target

(* sort_by_key(): of ranges of one protocol that start at one address, the   *)
(* shorter comes first, so that the order is one of all ranges.              *)
Before(a, b) ==
    \/ Version(a.family) < Version(b.family)
    \/ SameFamily(a, b) /\ a.start < b.start
    \/ SameFamily(a, b) /\ a.start = b.start /\ a.end < b.end

(* The i-th range is the one that i - 1 others come before. *)
Sorted(ranges) ==
    [i \in 1..Cardinality(ranges) |->
        CHOOSE r \in ranges : Cardinality({q \in ranges : Before(q, r)}) = i - 1]

(* advertisement(): the ranges of the assigned families, in order.  Sorting  *)
(* and dedup of the code make a sequence of the set.  What is sent is this    *)
(* without the ranges the policy refuses (IpSessionHandle's                  *)
(* route_advertisement, proxy/ip.rs), which is left out: it adds none.       *)
Advertisement(scope, configured, assigned) ==
    LET networks == {n \in Advertised(scope, configured) : n.family \in assigned}
    IN Sorted({[family |-> n.family, start |-> n.first, end |-> n.last,
                protocol |-> scope.protocol] : n \in networks})

----------------------------------------------------------------------------
(* A role: [allow, deny, denyPrivate], the first two sets of networks. *)

V4(a, b, c, bits) == Block("ipv4", a * 65536 + b * 256 + c, 2 ^ (24 - bits))
V6(high, low, bits) == Block("ipv6", high * 16384 + low \div 4, 2 ^ (30 - bits))

NullAndLoopback == V6(0, 0, 30)          \* holds ::/128 and ::1/128
Documentation   == V6(8193, 3512, 30)    \* 2001:db8::/32

DefaultDenied ==
    {V4(0, 0, 0, 8), V4(10, 0, 0, 8), V4(100, 64, 0, 10), V4(127, 0, 0, 8), V4(169, 254, 0, 16),
     V4(172, 16, 0, 12), V4(192, 0, 0, 24), V4(192, 0, 2, 24), V4(192, 168, 0, 16),
     V4(198, 18, 0, 15), V4(198, 51, 100, 24), V4(203, 0, 113, 24), V4(224, 0, 0, 4),
     V4(240, 0, 0, 4), NullAndLoopback, V6(64512, 0, 7), V6(65152, 0, 10), V6(65280, 0, 8),
     Documentation, V6(8194, 0, 16)}

(* classify_v4(), from the first three octets. *)
GlobalV4(n) ==
    LET a == n \div 65536  b == (n \div 256) % 256  c == n % 256
    IN ~ \/ a \in {0, 10, 127} \/ a >= 224
         \/ a = 172 /\ b \in 16..31
         \/ a = 192 /\ b = 168
         \/ a = 100 /\ b \in 64..127
         \/ a = 169 /\ b = 254
         \/ a = 192 /\ b = 0 /\ c \in {0, 2}
         \/ a = 198 /\ b = 51 /\ c = 100
         \/ a = 203 /\ b = 0 /\ c = 113
         \/ a = 198 /\ b \in {18, 19}

(* classify_v6(): only 2000::/3 is global, and not all of it.  What the code  *)
(* names outside of it (fc00::/7, fe80::/10, ff00::/8, ::/96) it refuses as  *)
(* it does the rest, under other names.                                      *)
Unicast             == V6(8192, 0, 3)
ProtocolAssignments == V6(8193, 0, 23)

GlobalV6(n) ==
    /\ Within(Unicast, "ipv6", n)
    /\ ~\E network \in {Documentation, V6(8194, 0, 16), ProtocolAssignments} :
          Within(network, "ipv6", n)

Global(family, n) == IF family = "ipv4" THEN GlobalV4(n) ELSE GlobalV6(n)

DestinationAllowed(role, family, n) ==
    /\ role.denyPrivate => Global(family, n)
    /\ \E network \in role.allow : Within(network, family, n)
    /\ ~\E network \in role.deny : Within(network, family, n)

AuthorizeDestination(roles, family, n) ==
    \E role \in roles : DestinationAllowed(role, family, n)

ContainsNetwork(container, network) ==
    /\ Within(container, network.family, network.first)
    /\ Within(container, network.family, network.last)

(* At least as long as /8 or /7, and neither end is global. *)
EntirelyNonGlobal(prefix) ==
    /\ prefix.last - prefix.first < (IF prefix.family = "ipv4" THEN 2 ^ 16 ELSE 2 ^ 23)
    /\ ~Global(prefix.family, prefix.first) /\ ~Global(prefix.family, prefix.last)

AuthorizePrefix(roles, prefix) ==
    \E role \in roles :
        /\ \E network \in role.allow : Overlap(network, prefix)
        /\ ~\E network \in role.deny : ContainsNetwork(network, prefix)
        /\ ~(role.denyPrivate /\ EntirelyNonGlobal(prefix))

(* Mutant: only the ends of the range are looked up in the network. *)
MutantOverlapsRange(network, range) ==
    \/ Within(network, range.family, range.start)
    \/ Within(network, range.family, range.end)

OverlapsRange(network, range) ==
    \/ Within(network, range.family, range.start)
    \/ Within(network, range.family, range.end)
    \/ /\ SameFamily(network, range)
       /\ range.start <= network.first /\ network.last <= range.end

AuthorizeRange(roles, range) ==
    \E role \in roles :
        /\ \E network \in role.allow : /\ Within(network, range.family, range.start)
                                       /\ Within(network, range.family, range.end)
        /\ ~\E network \in role.deny : OverlapsRange(network, range)
        /\ role.denyPrivate => ~\E network \in DefaultDenied : OverlapsRange(network, range)
=============================================================================
