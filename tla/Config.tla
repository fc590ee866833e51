------------------------------- MODULE Config -------------------------------
(***************************************************************************)
(* The configuration document, what validate() asks of it and what         *)
(* compile() makes of it (crates/maskman-config).                          *)
(*                                                                         *)
(* Text is what its parser makes of it: Bad is a text that does not      *)
(* parse, a time is a count of seconds, a network one of Ranges, a digest  *)
(* its value and whether it is written in upper case.                      *)
(***************************************************************************)
EXTENDS Ranges, Functions

CONSTANT Bad
Parses(x) == x # Bad
AllParse(s) == \A i \in DOMAIN s : Parses(s[i])
Distinct(s) == IsInjective(s)
Field(s, field) == [i \in DOMAIN s |-> s[i][field]]

(* The parts a file may leave out, with the defaults of model.rs. *)
DefaultUdp ==
    [enabled |-> FALSE, idle |-> 300, maxPayload |-> 65527]

DefaultIp ==
    [enabled |-> FALSE, interface |-> "owned", mtu |-> 1280, pools |-> <<>>, routes |-> <<>>,
     nat |-> "disabled", egress |-> "auto"]

DefaultMetrics == [ip |-> "127.0.0.1", port |-> 9464]

DefaultCheckInterval == 86400

(* ConfigDocument::default(). *)
DefaultDocument ==
    [schema |-> 1,
     listen |-> <<[ip |-> "0.0.0.0", port |-> 443], [ip |-> "::", port |-> 443]>>,
     basePath |-> "absolute", idleTimeout |-> 300, drainTimeout |-> 20,
     maxConnections |-> 20000, maxRequests |-> 64, maxHeaderBytes |-> 16384,
     files |-> [certificate |-> "set", key |-> "set", stateDir |-> "set", clientCa |-> "none"],
     required |-> TRUE, mode |-> "bearer", principals |-> <<>>, tokens |-> <<>>, roles |-> <<>>,
     udp |-> DefaultUdp, ip |-> DefaultIp, metrics |-> DefaultMetrics,
     checkInterval |-> DefaultCheckInterval]

DefaultLimits ==
    [active |-> 32, new |-> 120, ingress |-> 104857600, egress |-> 104857600, burst |-> 4194304]

(* A role of which only the name is given. *)
DefaultRole ==
    [name |-> "default", capabilities |-> {}, allow |-> <<>>, deny |-> <<>>, denyPrivate |-> TRUE,
     protocols |-> <<>>, limits |-> DefaultLimits]

----------------------------------------------------------------------------
Lower(digest) == digest.value

ServerValid(d) ==
    /\ d.schema = 1
    /\ d.listen # <<>> /\ AllParse(d.listen) /\ \A i \in DOMAIN d.listen : d.listen[i].port # 0
    /\ d.basePath = "absolute"
    /\ "blank" \notin {d.files.certificate, d.files.key, d.files.stateDir}
    /\ AllParse(<<d.idleTimeout, d.drainTimeout, d.udp.idle, d.checkInterval>>)
    /\ d.maxConnections > 0 /\ d.maxRequests > 0 /\ d.maxHeaderBytes \in 1..1048576

(* The places where a certificate is named: a principal and one of its. *)
Slots(d) == UNION {{i} \X DOMAIN d.principals[i].certificates : i \in DOMAIN d.principals}
CertificateAt(d, slot) == d.principals[slot[1]].certificates[slot[2]]

(* Mutant: two spellings of one digest are two digests. *)
MutantDigestsOf(d) == [slot \in Slots(d) |-> CertificateAt(d, slot)]

DigestsOf(d) == [slot \in Slots(d) |-> Lower(CertificateAt(d, slot))]

UsesMtls(d) == d.mode \in {"mtls", "bearer-or-mtls"}

AuthValid(d) ==
    LET ids   == Range(Field(d.principals, "id"))
        names == Range(Field(d.roles, "name"))
    IN /\ Bad \notin ids \cup names /\ Distinct(Field(d.principals, "id"))
       /\ Distinct(Field(d.roles, "name"))
       /\ \A p \in Range(d.principals) : AllParse(p.certificates) /\ Range(p.roles) \subseteq names
       /\ Distinct(DigestsOf(d))
       /\ Distinct(Field(d.tokens, "id"))
       /\ \A t \in Range(d.tokens) : /\ AllParse(<<t.id, t.hash, t.expires>>)
                                     /\ t.principal \in ids
       /\ d.required <=> d.mode # "none"
       /\ UsesMtls(d) => /\ d.files.clientCa \notin {"none", "blank"}
                         /\ \E p \in Range(d.principals) : p.certificates # <<>>

PolicyValid(d) ==
    \A role \in Range(d.roles) :
        /\ role.allow # <<>> /\ AllParse(role.allow \o role.deny)
        /\ role.capabilities \subseteq {"connect-ip", "connect-udp"}
        /\ AllParse(role.protocols)
        /\ 0 \notin Range(role.limits)

UdpValid(d) ==
    d.udp.enabled => d.udp.idle >= 120 /\ d.udp.maxPayload \in 1..65527

(* The pools are those the document names, each with the family its field    *)
(* is for: [declared, network].  What is switched off is not looked at.      *)
IpValid(d) ==
    /\ d.ip.nat = "managed" => d.ip.enabled /\ d.ip.egress # "blank"
    /\ d.ip.enabled =>
          /\ d.ip.interface = "owned" /\ d.ip.mtu >= 1280
          /\ d.ip.pools # <<>>
          /\ \A i \in DOMAIN d.ip.pools : /\ Parses(d.ip.pools[i].network)
                                          /\ d.ip.pools[i].network.family = d.ip.pools[i].declared
          /\ \A i, j \in DOMAIN d.ip.pools :
                i < j => ~Overlap(d.ip.pools[i].network, d.ip.pools[j].network)
          /\ Parses(d.ip.egress)
          /\ AllParse(d.ip.routes) /\ AdvertiseRoutesValid(d.ip.routes)

Unspecified(ip) == ip \in {"0.0.0.0", "::"}

MetricsValid(d) ==
    /\ Parses(d.metrics) /\ d.metrics.port # 0
    /\ d.metrics.ip \in {"127.0.0.1", "::1"}
    /\ \A i \in DOMAIN d.listen :
          d.listen[i].port = d.metrics.port =>
              ~Unspecified(d.listen[i].ip) /\ d.listen[i].ip # d.metrics.ip

Valid(d) ==
    /\ ServerValid(d) /\ AuthValid(d) /\ PolicyValid(d) /\ UdpValid(d) /\ IpValid(d)
    /\ MetricsValid(d)

----------------------------------------------------------------------------
(* A HashMap filled from entries in their order: the last one of a key stays. *)
MapOf(entries) ==
    [k \in {e.key : e \in Range(entries)} |->
        entries[CHOOSE i \in DOMAIN entries :
                    /\ entries[i].key = k
                    /\ \A j \in DOMAIN entries : j > i => entries[j].key # k].value]

(* The entries of those members of a list that are asked for. *)
Entries(s, members, key, value) ==
    [i \in members |-> [key |-> s[i][key], value |-> s[i][value]]]

CertificatesOf(principal) == {Lower(c) : c \in Range(principal.certificates)}
Certificates(d) ==
    [digest \in UNION {CertificatesOf(p) : p \in Range(d.principals)} |->
        d.principals[CHOOSE i \in DOMAIN d.principals :
                        /\ digest \in CertificatesOf(d.principals[i])
                        /\ \A j \in DOMAIN d.principals :
                              j > i => digest \notin CertificatesOf(d.principals[j])].id]

(* compile(): every text of the document is parsed, also of what is off. *)
Compiles(d) ==
    /\ Valid(d)
    /\ \A i \in DOMAIN d.ip.pools : Parses(d.ip.pools[i].network)
    /\ AllParse(d.ip.routes)

CompiledConfig(d) ==
    [listen |-> d.listen, metrics |-> d.metrics, required |-> d.required, mode |-> d.mode,
     clientCa |-> d.files.clientCa,
     principals |-> MapOf(Entries(d.principals, DOMAIN d.principals, "id", "roles")),
     tokens |-> MapOf(Entries(d.tokens, {i \in DOMAIN d.tokens : d.tokens[i].enabled},
                              "id", "principal")),
     certificates |-> Certificates(d),
     roles |-> MapOf([i \in DOMAIN d.roles |-> [key |-> d.roles[i].name, value |-> d.roles[i]]]),
     udp |-> d.udp,
     pools |-> {d.ip.pools[i].network : i \in DOMAIN d.ip.pools},
     ip |-> d.ip]
=============================================================================
