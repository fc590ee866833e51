------------------------------- MODULE Packets -------------------------------
(***************************************************************************)
(* What a CONNECT-IP session decides about one packet, one ADDRESS_REQUEST *)
(* or one charge of a rate: the bounds of the headers (packet/ipv4.rs,     *)
(* packet/ipv6.rs), the checks of each direction and the ICMP errors       *)
(* (proxy/ip.rs, packet/icmp.rs), the assignments (proxy/ip.rs,            *)
(* capsule/address.rs) and the token bucket (proxy/ip.rs, proxy/udp.rs).   *)
(*                                                                         *)
(* A packet: its bytes in hand are "length", its length fields "header"    *)
(* and "declared", its extension headers a sequence of [type, end], each   *)
(* with the place it ends at; its body is of the kind data, message (an    *)
(* ICMP message that is no error) or error, which quotes the packet it is  *)
(* about.  Addresses are [family, n], networks and ranges those of Ranges. *)
(***************************************************************************)
EXTENDS Ranges

CONSTANTS
    MaxEntries,     \* entries of one ADDRESS capsule, MAX_ADDRESS_REQUESTS (256)
    Second          \* ticks of a second; 10^9 nanoseconds in the code

ASSUME PacketBounds == MaxEntries \in Nat \ {0} /\ Second \in Nat \ {0}

MaxExtensionHeaders == 8
Icmp == {1, 58}

(* One check of several: its reason when it does not hold, or else what the  *)
(* checks after it say.                                                      *)
Check(holds, reason, rest) == IF holds THEN rest ELSE reason

----------------------------------------------------------------------------
FixedHeader(family) == IF family = "ipv4" THEN 20 ELSE 40
Available(p) == Min({p.length, p.declared})

(* Where the extension headers up to the i-th end. *)
ExtensionEnd(p, i) == IF i = 0 THEN p.header ELSE p.extensions[i].end
HeaderEnd(p) == ExtensionEnd(p, Len(p.extensions))

ExtensionsParse(p) ==
    /\ Len(p.extensions) <= MaxExtensionHeaders
    /\ \A i \in DOMAIN p.extensions :
          /\ p.extensions[i].type = "hop-by-hop" => i = 1
          /\ ExtensionEnd(p, i) <= Available(p)
    /\ \A i, j \in DOMAIN p.extensions :
          p.extensions[i].type = "fragment" /\ p.extensions[j].type = "fragment" => i = j

(* parse_prefix(): the packet may go on beyond the bytes in hand.  (A wrong  *)
(* checksum of IPv4, which makes it malformed as well, is left out.)         *)
ParsesPrefix(p) ==
    /\ p.length >= FixedHeader(p.family)
    /\ p.header \in FixedHeader(p.family)..60 /\ p.header <= p.length
    /\ p.declared >= p.header
    /\ p.family = "ipv6" => ExtensionsParse(p)

ParsesWhole(p) == ParsesPrefix(p) /\ p.declared = p.length

Payload(p) == Available(p) - HeaderEnd(p)
IsError(p) == p.protocol \in Icmp /\ p.body.kind = "error"

(* The packet an ICMP error is about, after the eight bytes of its header.   *)
Invoking(p) == [p.body.about EXCEPT !.length = Min({@, Payload(p) - 8})]
InvokingParses(p) == Payload(p) > 8 /\ ParsesPrefix(Invoking(p))

----------------------------------------------------------------------------
(* A session: [assigned, scope, roles, protocols, routes, mtu]; assigned is  *)
(* the sequence of its host networks, routes what its client advertised.     *)
Assigned(s, a) == \E i \in DOMAIN s.assigned : Within(s.assigned[i], a.family, a.n)

DestinationMatches(scope, a) ==
    CASE scope.kind = "any"      -> TRUE
      [] scope.kind = "prefix"   -> Within(scope.target, a.family, a.n)
      [] scope.kind = "resolved" -> \E host \in scope.target : Within(host, a.family, a.n)

MayReach(s, a) == DestinationMatches(s.scope, a) /\ AuthorizeDestination(s.roles, a.family, a.n)

ProtocolMatches(scope, protocol) == protocol \in Icmp \/ scope.protocol \in {0, protocol}
AuthorizeProtocol(s, protocol) == protocol \in Icmp \cup s.protocols
MayUse(s, protocol) == ProtocolMatches(s.scope, protocol) /\ AuthorizeProtocol(s, protocol)

Permits(range, a, protocol) ==
    /\ range.family = a.family /\ a.n \in range.start..range.end
    /\ range.protocol \in {0, protocol} \/ protocol \in Icmp

LeadsToClient(s, a, protocol) ==
    Assigned(s, a) \/ \E i \in DOMAIN s.routes : Permits(s.routes[i], a, protocol)

WellFormed(s, p, rest) ==
    Check(p.length \in 1..s.mtu, "oversized",
    Check(ParsesWhole(p), "malformed", rest))

ValidateFromClient(s, p) ==
    WellFormed(s, p,
    Check(Assigned(s, p.source), "source",
    Check(MayReach(s, p.destination), "destination",
    Check(MayUse(s, p.protocol), "protocol", "ok"))))

(* A packet that is no ICMP error, on the way to the client. *)
ValidateReverse(s, source, protocol) ==
    Check(MayReach(s, source), "source",
    Check(MayUse(s, protocol), "protocol", "ok"))

(* Mutant: the source of every packet is looked at first. *)
MutantValidateFromTun(s, p) ==
    WellFormed(s, p,
    Check(LeadsToClient(s, p.destination, p.protocol), "destination",
          ValidateReverse(s, p.source, p.protocol)))

(* An ICMP error is judged by the packet it is about, as sent by the client. *)
ValidateInvocation(s, about) ==
    Check(Assigned(s, about.source), "source",
    Check(MayReach(s, about.destination), "destination",
    Check(MayUse(s, about.protocol), "protocol", "ok")))

ValidateFromTun(s, p) ==
    WellFormed(s, p,
    Check(LeadsToClient(s, p.destination, p.protocol), "destination",
    Check(p.protocol \in Icmp => Payload(p) > 0, "malformed",
          IF IsError(p)
          THEN Check(InvokingParses(p), "malformed", ValidateInvocation(s, p.body.about))
          ELSE ValidateReverse(s, p.source, p.protocol))))

Decrements(p) == p.hop > 1

(* The hop limit is the last check on the way to the client. *)
SendFromTun(s, p) ==
    LET verdict == ValidateFromTun(s, p)
    IN Check(verdict = "ok", verdict, Check(Decrements(p), "hop limit", "ok"))

(* Mutant: as much as makes 1280 bytes, without the headers. *)
MutantQuoteLimit(family) == IF family = "ipv4" THEN 548 ELSE 1280

QuoteLimit(family) == IF family = "ipv4" THEN 548 ELSE 1232

IcmpError(p, source) ==
    LET total == FixedHeader(p.family) + 8 + Min({Available(p), QuoteLimit(p.family)})
    IN [family |-> p.family, length |-> total, declared |-> total,
        header |-> FixedHeader(p.family), extensions |-> <<>>, hop |-> 64,
        protocol |-> IF p.family = "ipv4" THEN 1 ELSE 58,
        source |-> source, destination |-> p.source,
        body |-> [kind |-> "error", about |-> p]]

(* The error about a packet of the client that was refused, from the address *)
(* of the client itself; none goes to an address that is not the client's,   *)
(* and none is longer than the MTU.                                          *)
ForwardingError(s, p, reason) ==
    IF /\ reason \in {"destination", "protocol", "source", "oversized"}
       /\ ParsesPrefix(p) /\ Assigned(s, p.source)
    THEN LET mine  == {i \in DOMAIN s.assigned : s.assigned[i].family = p.family}
             error == IcmpError(p, [family |-> p.family, n |-> s.assigned[Min(mine)].first])
         IN {e \in {error} : e.length <= s.mtu}
    ELSE {}

----------------------------------------------------------------------------
(* A request: [id, prefix], where 0.0.0.0/0 and ::/0 ask for any address.    *)
Refused(family) == [family |-> family, refused |-> TRUE]

RequestsLawful(requests, known) ==
    /\ Len(requests) \in 1..MaxEntries
    /\ \A i \in DOMAIN requests : requests[i].id \notin known \cup {0}
    /\ IsInjective([i \in DOMAIN requests |-> requests[i].id])

(* Mutant: an address may be given twice. *)
MutantUnused(assigned, used, family) ==
    {i \in DOMAIN assigned : assigned[i].family = family}

Unused(assigned, used, family) ==
    {i \in DOMAIN assigned \ used : assigned[i].family = family}

(* The address asked for, or else any of the family: an index, or none.      *)
Choice(assigned, used, prefix) ==
    LET unused    == Unused(assigned, used, prefix.family)
        preferred == {i \in unused : Within(prefix, prefix.family, assigned[i].first)}
        choices   == IF preferred # {} THEN preferred ELSE unused
    IN IF choices = {} THEN {} ELSE {Min(choices)}

Serve(assigned, answer, request) ==
    LET choice == Choice(assigned, answer.used, request.prefix)
        prefix == IF choice = {} THEN Refused(request.prefix.family)
                  ELSE assigned[CHOOSE i \in choice : TRUE]
    IN [used    |-> answer.used \cup choice,
        entries |-> Append(answer.entries, [id |-> request.id, prefix |-> prefix])]

(* address_request_capsule(): what was asked for, then what was not. *)
Served(assigned, requests) ==
    LET served[k \in 0..Len(requests)] ==
            IF k = 0 THEN [used |-> {}, entries |-> <<>>]
            ELSE Serve(assigned, served[k - 1], requests[k])
    IN served

Extended(assigned, served) ==
    LET entries[i \in 0..Len(assigned)] ==
            IF i = 0 THEN served.entries
            ELSE IF i \in served.used THEN entries[i - 1]
            ELSE Append(entries[i - 1], [id |-> 0, prefix |-> assigned[i]])
    IN entries

Answer(assigned, requests) ==
    Extended(assigned, Served(assigned, requests)[Len(requests)])[Len(assigned)]

Encodes(entries) == Len(entries) <= MaxEntries

(* One ADDRESS_REQUEST of a session: the first that fails ends it. *)
AddressRequest(assigned, session, requests) ==
    LET answer == Answer(assigned, requests)
    IN IF session.failed # <<>> THEN session
       ELSE IF RequestsLawful(requests, session.ids) /\ Encodes(answer)
       THEN [session EXCEPT !.ids = @ \cup {requests[i].id : i \in DOMAIN requests},
                            !.answers = Append(@, answer)]
       ELSE [session EXCEPT !.failed = <<requests>>]

(* The session after each of its capsules. *)
AddressSession(assigned, capsules) ==
    LET session[k \in 0..Len(capsules)] ==
            IF k = 0 THEN [ids |-> {}, answers |-> <<>>, failed |-> <<>>]
            ELSE AddressRequest(assigned, session[k - 1], capsules[k])
    IN session

----------------------------------------------------------------------------
(* Mutant: what is earned has no limit. *)
MutantReplenished(tokens, rate, burst, elapsed) == tokens + (rate * elapsed) \div Second

(* The fraction of a token that was earned is lost with the new timestamp.   *)
(* The quotient is one of 128 bits that the code cuts to 64: left out, since  *)
(* it takes a rate of more than 2^64 tokens earned between two calls.        *)
Replenished(tokens, rate, burst, elapsed) ==
    Min({tokens + (rate * elapsed) \div Second, burst})

(* allow(): a call is [elapsed, amount]. *)
Admits(tokens, rate, burst, call) ==
    call.amount <= Replenished(tokens, rate, burst, call.elapsed)
Allow(tokens, rate, burst, call) ==
    Replenished(tokens, rate, burst, call.elapsed)
        - IF Admits(tokens, rate, burst, call) THEN call.amount ELSE 0

(* The tokens there are after each of the calls, and before the first. *)
Bucket(rate, burst, calls) ==
    LET tokens[k \in 0..Len(calls)] ==
            IF k = 0 THEN burst ELSE Allow(tokens[k - 1], rate, burst, calls[k])
    IN tokens
=============================================================================
