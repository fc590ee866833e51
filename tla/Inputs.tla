------------------------------- MODULE Inputs -------------------------------
(***************************************************************************)
(* What the server reads and decides on without other actors: the capsules *)
(* of a stream (Capsules), the routes and ranges it compares and the       *)
(* questions it puts to a policy (Ranges), the packets, address requests   *)
(* and charges of a session (Packets), and the configuration it validates  *)
(* and compiles (Config).  A behaviour has one input: a stream is decoded  *)
(* step by step, the others are answered in one.                           *)
(***************************************************************************)
EXTENDS Capsules, Config, Packets

CONSTANTS
    Questions,      \* sets of the inputs other than streams, each with its kind
    Boundaries,     \* per family, the numbers the answers of a policy change at
    Numbers         \* the numbers the networks of the route questions are made of

(* The addresses of a family in the terms of Ranges. *)
Universe(family) == IF family = "ipv4" THEN 0..(2 ^ 24 - 1) ELSE 0..(2 ^ 30 - 1)

Families == {"ipv4", "ipv6"}

(* A network has as many addresses as a power of two, and starts at a        *)
(* multiple of it.                                                           *)
IsRange(n) == n.first \in Universe(n.family) /\ n.last \in Universe(n.family)
Sizes == {2 ^ bits : bits \in 0..30}
IsNetwork(n) ==
    /\ IsRange(n) /\ n.first <= n.last
    /\ \E size \in Sizes : n.last = n.first + size - 1 /\ n.first % size = 0

(* The questions are put to policies of networks, and a prefix is a network. *)
PolicyQuestion(q) ==
    /\ q.prefix \in BOOLEAN
    /\ \A role \in q.roles : \A n \in role.allow \cup role.deny :
          n.family \in Families /\ IsNetwork(n)
    /\ q.range.family \in Families
    /\ LET asked == [family |-> q.range.family, first |-> q.range.start, last |-> q.range.end]
       IN IsRange(asked) /\ (q.prefix => IsNetwork(asked))

RangesQuestion(q) ==
    q.ranges \in Seq([family : Families, start : Nat, end : Nat, protocol : 0..255])

(* The networks of a route question are prefixes: two of them nest or share  *)
(* nothing.  What a name was resolved to are single addresses.               *)
IsBlock(n) == n \in [family : Families, first : Nat, last : Nat] /\ n.first <= n.last
Inside(a, b) == SameFamily(a, b) /\ b.first <= a.first /\ a.last <= b.last
Nest(a, b) ==
    \/ Inside(a, b) \/ Inside(b, a)
    \/ ~SameFamily(a, b) \/ a.last < b.first \/ b.last < a.first

RoutesQuestion(q) ==
    /\ q.configured \in Seq([family : Families, first : Nat, last : Nat])
    /\ \A i \in DOMAIN q.configured : IsBlock(q.configured[i])
    /\ q.assigned \subseteq Families /\ q.scope.protocol \in 0..255
    /\ \/ q.scope.kind = "any"
       \/ /\ q.scope.kind = "prefix" /\ IsBlock(q.scope.target)
          /\ \A i \in DOMAIN q.configured : Nest(q.scope.target, q.configured[i])
       \/ /\ q.scope.kind = "resolved" /\ IsFiniteSet(q.scope.target)
          /\ \A host \in q.scope.target : IsBlock(host) /\ host.first = host.last

(* A packet has the addresses of its family; the ends of its headers ascend. *)
Addresses == [family : Families, n : Nat]
IsPacket(p) ==
    /\ p \in [family : Families, length : Nat, declared : Nat, header : Nat,
              extensions : Seq([type : STRING, end : Nat]), protocol : 0..255, hop : 0..255,
              source : Addresses, destination : Addresses, body : {p.body}]
    /\ p.source.family = p.family /\ p.destination.family = p.family
    /\ p.family = "ipv4" => p.extensions = <<>>
    /\ \A i, j \in 0..Len(p.extensions) : i <= j => ExtensionEnd(p, i) <= ExtensionEnd(p, j)
    /\ p.body.kind \in {"data", "message", "error"}

(* The least MTU is what validate.rs asks of proxy.ip.mtu. *)
PacketQuestion(q) ==
    /\ IsPacket(q.packet)
    /\ q.routers \subseteq Addresses
    /\ q.session.mtu \in Nat /\ q.session.mtu >= 1280

(* A document: lists are sequences, a switch is on or off, and a network     *)
(* that parses is one.                                                       *)
IsList(s) == s \in Seq(Range(s))
ConfigQuestion(q) ==
    LET d == q.document
    IN /\ IsList(d.principals) /\ \A p \in Range(d.principals) : IsList(p.certificates)
       /\ IsList(d.tokens) /\ \A t \in Range(d.tokens) : t.enabled \in BOOLEAN
       /\ IsList(d.roles) /\ \A role \in Range(d.roles) : Range(role.limits) \subseteq Nat
       /\ IsList(d.listen) /\ d.required \in BOOLEAN
       /\ d.files.clientCa \in {"set", "none", "blank"}
       /\ IsList(d.ip.pools) /\ IsList(d.ip.routes)
       /\ \A i \in DOMAIN d.ip.routes : Parses(d.ip.routes[i]) => IsBlock(d.ip.routes[i])

(* A session has one address of each family at most (address_pool.rs).       *)
RequestsQuestion(q) ==
    /\ q.assigned \in Seq([family : Families, first : Nat, last : Nat])
    /\ \A i, j \in DOMAIN q.assigned : q.assigned[i].family = q.assigned[j].family => i = j
    /\ q.capsules \in Seq(Seq([id : Nat, prefix : [family : Families, first : Nat, last : Nat]]))

BucketQuestion(q) ==
    /\ q.rate \in Nat /\ q.burst \in Nat
    /\ q.calls \in Seq([elapsed : Nat, amount : Nat])

ASSUME QuestionsAssumption ==
    \A i \in DOMAIN Questions : \A q \in Questions[i] :
        /\ q.kind # "stream"
        /\ q.kind = "policy" => PolicyQuestion(q)
        /\ q.kind = "ranges" => RangesQuestion(q)
        /\ q.kind = "routes" => RoutesQuestion(q)
        /\ q.kind = "packet" => PacketQuestion(q)
        /\ q.kind = "config" => ConfigQuestion(q)
        /\ q.kind = "requests" => RequestsQuestion(q)
        /\ q.kind = "bucket" => BucketQuestion(q)

VARIABLE given

vars == <<capsuleVars, given>>

Stream == [kind |-> "stream"]

Init ==
    \/ given = Stream /\ CapsulesInit
    \/ /\ \E i \in DOMAIN Questions : given \in Questions[i]
       /\ stream = <<>> /\ position = 0 /\ chunk = 0 /\ decoder = Empty
       /\ events = <<>> /\ returned = <<>> /\ offered = <<>> /\ outcome = "open"

Next == given = Stream /\ CapsulesNext /\ UNCHANGED given

Spec == Init /\ [][Next]_vars

----------------------------------------------------------------------------
Key(range) == <<Version(range.family), range.protocol, range.start>>
NotAfter(a, b) ==
    \/ a[1] < b[1]
    \/ a[1] = b[1] /\ a[2] < b[2]
    \/ a[1] = b[1] /\ a[2] = b[2] /\ a[3] <= b[3]

SharesAddress(a, b) == SameFamily(a, b) /\ a.start <= b.end /\ b.start <= a.end
Conflict(a, b) == SharesAddress(a, b) /\ (a.protocol = b.protocol \/ 0 \in {a.protocol, b.protocol})

(* What RFC 9484 asks of a route advertisement, of all pairs of ranges. *)
Lawful(ranges) ==
    /\ \A i \in DOMAIN ranges : ranges[i].start <= ranges[i].end
    /\ \A i, j \in DOMAIN ranges :
          i < j => NotAfter(Key(ranges[i]), Key(ranges[j])) /\ ~Conflict(ranges[i], ranges[j])

Reachable(scope, configured, family, n) ==
    CASE scope.kind = "any"      -> \E i \in DOMAIN configured : Within(configured[i], family, n)
      [] scope.kind = "prefix"   -> /\ Within(scope.target, family, n)
                                    /\ \E i \in DOMAIN configured : Within(configured[i], family, n)
      [] scope.kind = "resolved" -> \E host \in scope.target : Within(host, family, n)

Holding(ranges, family, n) ==
    {i \in DOMAIN ranges : ranges[i].family = family /\ n \in ranges[i].start..ranges[i].end}

(* The checks that look at neighbours only accept just the sequences of      *)
(* ranges whose every pair is in order and apart (capsule/route.rs).         *)
RangesCheckedExactly ==
    given.kind = "ranges" => (RangesValid(given.ranges) <=> Lawful(given.ranges))

(* Which holds of what a client advertises (RangesCheckedExactly); and       *)
(* from configured routes that were accepted (validate.rs), whatever the     *)
(* scope and the families assigned, the advertisement is one of these, so    *)
(* that sending it never fails: each number the scope reaches is in exactly  *)
(* one range, and no range leaves what is configured or was resolved         *)
(* (proxy/ip_scope.rs).                                                      *)
RoutesStayApart ==
    /\ RangesCheckedExactly
    /\ given.kind = "routes" /\ AdvertiseRoutesValid(given.configured) =>
          LET ranges == Advertisement(given.scope, given.configured, given.assigned)
          IN /\ Lawful(ranges)
             /\ \A family \in given.assigned, n \in Numbers :
                   /\ Reachable(given.scope, given.configured, family, n)
                          => Cardinality(Holding(ranges, family, n)) = 1
                   /\ Holding(ranges, family, n) # {}
                          => \/ given.scope.kind = "resolved"
                             \/ \E i \in DOMAIN given.configured :
                                   Within(given.configured[i], family, n)
             /\ \A i \in DOMAIN ranges : ranges[i].family \in given.assigned

(* A test of proxy/ip_scope.rs says that configured routes are intersected   *)
(* with the prefix of the scope: no number outside it is advertised.         *)
ScopeBoundsAdvertisement ==
    given.kind = "routes" /\ AdvertiseRoutesValid(given.configured) =>
        LET ranges == Advertisement(given.scope, given.configured, given.assigned)
        IN \A family \in given.assigned, n \in Numbers :
              Holding(ranges, family, n) # {} => Reachable(given.scope, given.configured, family, n)

(* What classify_v6() refuses and default_denied_networks() does not name:   *)
(* 2001::/23, and all outside of 2000::/3 but ::, ::1, fc00::/7, fe80::/10   *)
(* and ff00::/8.  In turn: the rest of ::/3, 4000::/2, 8000::/2, c000::/3,   *)
(* e000::/4, f000::/5, f800::/6, fe00::/9, fec0::/10.                        *)
Unnamed ==
    {ProtocolAssignments, Block("ipv6", 1, 2 ^ 27 - 1), V6(16384, 0, 2), V6(32768, 0, 2),
     V6(49152, 0, 3), V6(57344, 0, 4), V6(61440, 0, 5), V6(63488, 0, 6), V6(65024, 0, 9),
     V6(65216, 0, 10)}

IsUnnamed(family, n) == \E network \in Unnamed : Within(network, family, n)

AllowsButPrivate(role, family, n) ==
    DestinationAllowed([allow |-> role.allow, deny |-> role.deny, denyPrivate |-> FALSE], family, n)

(* The three questions a policy answers agree: a prefix is refused only when *)
(* no address of it is allowed, a range is granted only when each of its     *)
(* addresses is (policy.rs), but for what the two tables differ in: a range  *)
(* of IPv6 addresses that the list of denied networks does not name is       *)
(* granted by a role that denies private ones, and each address of it is     *)
(* refused, for that alone (policy.rs:62-81, 117-123, packet/scope.rs:84-99).                *)
PolicyChecksAgree ==
    given.kind = "policy" =>
        LET roles   == given.roles
            range   == given.range
            within  == {n \in Boundaries[range.family] : n \in range.start..range.end}
            prefix  == [family |-> range.family, first |-> range.start, last |-> range.end]
        IN /\ given.prefix /\ ~AuthorizePrefix(roles, prefix) =>
                 \A n \in within : ~AuthorizeDestination(roles, range.family, n)
           /\ AuthorizeRange(roles, range) =>
                 \A n \in within :
                    \/ AuthorizeDestination(roles, range.family, n)
                    \/ /\ IsUnnamed(range.family, n) /\ ~Global(range.family, n)
                       /\ \E role \in roles :
                             role.denyPrivate /\ AllowsButPrivate(role, range.family, n)

(* What a peer makes of a packet: its answer, and a router's error about it, *)
(* which quotes the headers and eight bytes at least.                        *)
AnswerTo(p) ==
    [p EXCEPT !.source = p.destination, !.destination = p.source, !.hop = 64,
              !.body = [kind |-> IF p.protocol \in Icmp THEN "message" ELSE "data"]]

Quotes(p) ==
    {q \in {HeaderEnd(p) + 8, 548, 1232, p.length} :
        q <= Min({p.length, QuoteLimit(p.family)}) /\ q >= Min({p.length, HeaderEnd(p) + 8})}

RouterError(p, router, quote) ==
    LET total == FixedHeader(p.family) + 8 + quote
    IN [p EXCEPT !.length = total, !.declared = total, !.header = FixedHeader(p.family),
                 !.extensions = <<>>, !.protocol = IF p.family = "ipv4" THEN 1 ELSE 58,
                 !.source = router, !.destination = p.source, !.hop = 64,
                 !.body = [kind |-> "error", about |-> p]]

(* The checks of the two directions fit each other (proxy/ip.rs): what the   *)
(* client may send may be answered, and the errors that routers send about   *)
(* it reach the client from wherever they are, outside of the scope and the  *)
(* policy too; and what reaches an address of the client may be answered by  *)
(* it, but for ICMP errors.  A packet for a range that the client advertised *)
(* may not: the client has no right to answer from there.  (ICMP without a   *)
(* message passes one way only.)                                             *)
WayBackIsOpen ==
    given.kind = "packet" =>
        LET s == given.session
            p == given.packet
        IN /\ ValidateFromClient(s, p) = "ok" =>
                 /\ Payload(p) > 0 => SendFromTun(s, AnswerTo(p)) = "ok"
                 /\ \A router \in given.routers, quote \in Quotes(p) :
                       router.family = p.family
                          => SendFromTun(s, RouterError(p, router, quote)) = "ok"
           /\ SendFromTun(s, p) = "ok" /\ ~IsError(p) /\ Assigned(s, p.destination) =>
                 ValidateFromClient(s, AnswerTo(p)) = "ok"

(* A packet of the client that is refused for its destination, its protocol  *)
(* or its size is answered with an ICMP error whatever its length: the quote *)
(* leaves room for the headers in the least MTU that validate.rs accepts.    *)
(* The error is whole, is for the client alone and quotes what it is about   *)
(* (packet/icmp.rs), but for extension headers longer than the quote.        *)
ErrorsComeHome ==
    given.kind = "packet" =>
        LET s == given.session
            p == given.packet
            reason == ValidateFromClient(s, p)
            errors == ForwardingError(s, p, reason)
        IN /\ /\ reason \in {"destination", "protocol", "oversized"}
              /\ ParsesPrefix(p) /\ Assigned(s, p.source)
              => errors # {}
           /\ \A e \in errors :
                 /\ ParsesWhole(e) /\ e.length <= s.mtu /\ Assigned(s, e.destination)
                 /\ HeaderEnd(p) <= QuoteLimit(p.family) =>
                       InvokingParses(e) /\ Invoking(e).source = e.destination

(* Over the ADDRESS_REQUESTs of a session (proxy/ip.rs): each answer has     *)
(* every address of the session once, and an answer for each request, which  *)
(* is refused only when no address of its family is left; an identifier is   *)
(* never answered twice; and only an unlawful capsule ends the session, but  *)
(* for one whose answer has no room left for the addresses not asked for.    *)
AnswersComplete ==
    given.kind = "requests" =>
        LET session == AddressSession(given.assigned, given.capsules)[Len(given.capsules)]
            Ids(entries) == {entries[j].id : j \in DOMAIN entries} \ {0}
            Answered(k) == UNION {Ids(session.answers[j]) : j \in 1..(k - 1)}
            failing == given.capsules[Len(session.answers) + 1]
            unasked == {i \in DOMAIN given.assigned :
                           \A j \in DOMAIN failing :
                              failing[j].prefix.family # given.assigned[i].family}
        IN /\ \A k \in DOMAIN session.answers :
                 LET entries  == session.answers[k]
                     requests == given.capsules[k]
                 IN /\ \A i \in DOMAIN given.assigned :
                          Cardinality({j \in DOMAIN entries :
                                         entries[j].prefix = given.assigned[i]}) = 1
                    /\ Ids(entries) = {requests[i].id : i \in DOMAIN requests}
                    /\ Ids(entries) \cap Answered(k) = {}
                    /\ \A j \in DOMAIN requests :
                          /\ entries[j].id = requests[j].id
                          /\ entries[j].prefix.family = requests[j].prefix.family
                          /\ entries[j].prefix = Refused(requests[j].prefix.family) =>
                                \A i \in DOMAIN given.assigned :
                                   given.assigned[i].family = requests[j].prefix.family =>
                                      \E earlier \in 1..(j - 1) :
                                         entries[earlier].prefix = given.assigned[i]
           /\ session.failed # <<>> =>
                 \/ ~RequestsLawful(failing, Answered(Len(session.answers) + 1))
                 \/ Len(failing) + Cardinality(unasked) > MaxEntries

(* What the first numbers of a sequence add up to. *)
Sums(numbers) ==
    LET sum[k \in 0..Len(numbers)] == IF k = 0 THEN 0 ELSE sum[k - 1] + numbers[k]
    IN sum

(* Of any calls in a row, a session admits no more than its burst and what   *)
(* its rate earns from the first to the last (proxy/ip.rs, proxy/udp.rs);    *)
(* and a call within the burst is refused only when less than it was earned  *)
(* since the last that was admitted, but for one token a call, which is what *)
(* small amounts lose to the new timestamp.                                  *)
RateHolds ==
    given.kind = "bucket" =>
        LET calls     == given.calls
            tokens    == Bucket(given.rate, given.burst, calls)
            Admitted(k) == Admits(tokens[k - 1], given.rate, given.burst, calls[k])
            elapsed   == Sums([k \in DOMAIN calls |-> calls[k].elapsed])
            amounts   == Sums([k \in DOMAIN calls |-> IF Admitted(k) THEN calls[k].amount ELSE 0])
            Earned(i, j) == given.rate * (elapsed[j] - elapsed[i])
        IN \A j \in DOMAIN calls :
              /\ \A i \in 1..j :
                    Second * (amounts[j] - amounts[i - 1]) <= Second * given.burst + Earned(i, j)
              /\ ~Admitted(j) /\ calls[j].amount <= given.burst =>
                    \A i \in 0..(j - 1) :
                       (\A k \in (i + 1)..j : ~Admitted(k)) =>
                          Earned(i, j) < Second * (calls[j].amount + j - i)

(* A configuration that loads is closed: every role, principal, token and    *)
(* certificate it names is there and belongs to the one that named it,       *)
(* though each ends in a map of its own (validate.rs, compile.rs); asking    *)
(* for certificates is possible, no limit is zero, addresses are of the      *)
(* family they are leased for, and the metrics are for this host only.  What  *)
(* validate() accepts with IP on also compiles.                              *)
CompiledConfigClosed ==
    given.kind = "config" /\ Valid(given.document) /\ (given.document.ip.enabled \/ Compiles(given.document)) =>
        LET d == given.document
            c == CompiledConfig(d)
        IN /\ Compiles(d)
           /\ \A i \in DOMAIN d.principals :
                 LET p == d.principals[i]
                 IN /\ c.principals[p.id] = p.roles /\ Range(p.roles) \subseteq DOMAIN c.roles
                    /\ \A k \in DOMAIN p.certificates :
                          c.certificates[p.certificates[k].value] = p.id
           /\ \A i \in DOMAIN d.tokens :
                 LET t == d.tokens[i]
                 IN IF t.enabled THEN c.tokens[t.id] = t.principal /\ t.principal \in DOMAIN c.principals
                    ELSE t.id \notin DOMAIN c.tokens
           /\ c.required = (c.mode # "none")
           /\ c.mode \in {"mtls", "bearer-or-mtls"} =>
                 c.clientCa = "set" /\ DOMAIN c.certificates # {}
           /\ \A name \in DOMAIN c.roles : \A limit \in Range(c.roles[name].limits) : limit > 0
           /\ c.ip.enabled => /\ c.pools # {} /\ c.ip.mtu >= 1280
                              /\ \A i \in DOMAIN c.ip.pools :
                                    c.ip.pools[i].declared = c.ip.pools[i].network.family
                              /\ RangesValid(Advertisement([kind |-> "any", protocol |-> 0],
                                                           c.ip.routes, {"ipv4", "ipv6"}))
           /\ c.ip.nat = "managed" => c.ip.enabled
           /\ c.metrics.ip \in {"127.0.0.1", "::1"} /\ c.metrics \notin Range(c.listen)
=============================================================================
