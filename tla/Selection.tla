------------------------------- MODULE Selection -------------------------------
(***************************************************************************)
(* The decisions of the operator that are functions of what it reads:      *)
(* which certificate, which port of a service, which token, which host of  *)
(* NPM.  A question is chosen within the bounds, then the code answers it. *)
(***************************************************************************)
EXTENDS CertificateSelection

CONSTANTS AutoNames,    \* domain names where no certificate is referred to
          GivenNames,   \* domain names where one may be
          References,   \* references to certificates
          HostPorts,    \* ports that a domain of a ProxyHost may carry
          MaxDomains,   \* bound: domains of a resource or of a host of NPM
          MaxListed,    \* bound: certificates in NPM
          MaxPorts,     \* bound: ports of a service
          MaxHosts,     \* bound: hosts in NPM
          HostDomains,  \* domains of hosts
          Own, Other, Name, DefaultName, SystemNamespace, DefaultNamespace,
          NoToken,
          Unset,        \* an optional field that is not given
          Undecided     \* nothing has been answered yet

\* A domain name is a sequence of labels; no certificate has a wildcard for a
\* top-level domain.
ASSUME NamesAssumption ==
  \A name \in AutoNames \cup GivenNames :
    /\ name \in Seq(STRING) \ {<< >>}
    /\ Head(name) = "*" => Len(name) > 2

\* An error is no id.
ASSUME FailedAssumption == Failed \notin Nat

ASSUME BoundsAssumption ==
  MaxDomains \in Nat /\ MaxListed \in Nat /\ MaxPorts \in Nat /\ MaxHosts \in Nat

Ports == INSTANCE ServicePorts
Lookup == INSTANCE TokenLookup
Matching == INSTANCE DomainMatching

VARIABLES question, answer

requestVars == <<question, answer>>

ListsOf(S, n) == UNION {[1 .. m -> S] : m \in 0 .. n}
-----------------------------------------------------------------------------
(* Which certificate                                                        *)

SslWith(references) ==
  [auto: BOOLEAN, letsEncrypt: references, custom: references, certificateId: references \ {Unresolved}]

Certs(names) == [provider: {"letsencrypt", "other"}, names: (SUBSET names) \ {{}}]

CertificatesAsked(sections, names, domains) ==
  [kind: {"certificate"}, ssl: sections,
   domains: ListsOf([name: names, port: HostPorts], domains) \ {<< >>},
   list: ListsOf(Certs(names) \cup {NoCertificate}, MaxListed)]

CertificateQuestions ==
  CertificatesAsked({NoSsl} \cup SslWith({Absent}), AutoNames, MaxDomains)
    \cup CertificatesAsked(SslWith(References), GivenNames, 1)

Asked(kind) == question.kind = kind /\ answer = Undecided
Answered(kind) == question.kind = kind /\ answer # Undecided

Names == extractDomainsWithoutPorts(question.domains)

ChooseCertificate ==
  /\ Asked("certificate")
  /\ answer' = [chosen |-> makeCertificate(question.ssl, question.list, question.domains),
                adopted |-> ExistingCertificate(question.list, Names)]
  /\ UNCHANGED question

\* A name of a certificate is valid for a domain in the sense of TLS: they are
\* equal, or the name is a wildcard for one label.
Covers(name, d) ==
  name = d \/ (Head(name) = "*" /\ Len(name) = Len(d) /\ Tail(name) = Tail(d))
-----------------------------------------------------------------------------
(* Which port                                                               *)

\* Words of the names "", "http", "https" and "dns".
PortWords == {{}, {"http"}, {"http", "https"}, {"dns"}}

\* Port i of a service has the number i and the node port 100 + i.
Port(i, like) ==
  [words |-> like.words, protocol |-> like.protocol, port |-> i, nodePort |-> 100 + i]

PortLists(n) ==
  {[i \in 1 .. n |-> Port(i, l[i])] : l \in [1 .. n -> [words: PortWords, protocol: {"tcp", "udp"}]]}

Services == [type: {"NodePort", "ClusterIP"}, ports: UNION {PortLists(n) : n \in 0 .. MaxPorts}]

Forwards ==
  [scheme: {"http", "https"}, tcp: BOOLEAN, udp: BOOLEAN,
   portName: {"http", "https", Unset}, port: {8080, Unset}]

PortQuestions == [kind: {"port"}, service: Services, forward: Forwards]

ChoosePort ==
  /\ Asked("port")
  /\ answer' = [proxyHost |-> Ports!ProxyHostPort(question.service, question.forward),
                stream |-> Ports!StreamPort(question.service, question.forward)]
  /\ UNCHANGED question
-----------------------------------------------------------------------------
(* Which token                                                              *)

Namespaces == {Own, Other, SystemNamespace, DefaultNamespace}
TokenNames == {Name, DefaultName}
TokenStates == {"absent", "empty", "ready"}

TokenQuestions ==
  [kind: {"token"}, tokens: [Namespaces -> [TokenNames -> TokenStates]],
   reference: {Unset} \cup [name: {Name}, namespace: {Unset, Own, Other}]]

ChooseToken ==
  /\ Asked("token")
  /\ answer' = [used |-> Lookup!FindToken(question.tokens, question.reference, Own)]
  /\ UNCHANGED question

Exists(ns, n) == question.tokens[ns][n] # "absent"
-----------------------------------------------------------------------------
(* Which host of NPM: no list has a domain twice                            *)

Distinct == {l \in ListsOf(HostDomains, MaxDomains) : l # << >> /\ IsInjective(l)}

HostQuestions == [kind: {"host"}, domains: Distinct, hosts: ListsOf(Distinct, MaxHosts)]

ChooseHost ==
  /\ Asked("host")
  /\ answer' = [found |-> Matching!FindProxyHostByDomain(question.hosts, question.domains)]
  /\ UNCHANGED question

Same(i) == ToSet(question.hosts[i]) = ToSet(question.domains)
-----------------------------------------------------------------------------
SelectionInit ==
  /\ answer = Undecided
  /\ \/ question \in CertificateQuestions
     \/ question \in PortQuestions
     \/ question \in TokenQuestions
     \/ question \in HostQuestions

SelectionNext ==
  \/ ChooseCertificate
  \/ ChoosePort
  \/ ChooseToken
  \/ ChooseHost

SelectionSpec == SelectionInit /\ [][SelectionNext]_requestVars
-----------------------------------------------------------------------------
\* CreateLetEncryptCertificate against its intent: if every domain has a
\* certificate, it is adopted exactly when it is the same one for all.
UnanimousOrNew ==
  Answered("certificate") =>
    LET found == {FindLetEncryptCertificate(question.list, Names[i]) : i \in DOMAIN Names}
    IN  Nil \notin found =>
          answer.adopted = (IF \E c \in found : found = {c} THEN CHOOSE c \in found : TRUE ELSE Nil)

\* Without an error, the first of certificateId, customCertificate and
\* letsEncryptCertificate that is given decides, and no certificate is requested
\* while NPM has it or one that is good for all the domains (makeCertificate).
PriorityHonoured ==
  Answered("certificate") /\ question.ssl # NoSsl /\ answer.chosen # Failed =>
    LET ssl == question.ssl
        references == <<ssl.certificateId, ssl.custom, ssl.letsEncrypt>>
        given == {i \in 1 .. 3 : references[i] # Absent}
        listed == Certificates(question.list)
    IN  /\ given # {} /\ references[Min(given)] \in listed => answer.chosen = references[Min(given)]
        /\ answer.chosen > Len(question.list) =>
             ~\E c \in listed : \A i \in DOMAIN Names :
                \E n \in question.list[c].names : Covers(n, Names[i])

\* A certificate that is found for the one domain of a request is valid for it
\* in the sense of TLS, if the domain has a subdomain part (ExtractRootDomain).
FoundIsValid ==
  Answered("certificate") /\ answer.adopted # Nil /\ Len(Names) = 1 /\ Len(Head(Names)) > 2 =>
    \E n \in question.list[answer.adopted].names : Covers(n, Head(Names))

\* What spec.forward.service asks for is used (proxy_forward.go): a port that
\* is given alone is taken as it is, for a NodePort service too; a name that is
\* given alone finds a port whose name contains it, if there is one, and for a
\* ProxyHost "http" does not find "https"; without both, the first port is used
\* unless the code prefers another: for a ProxyHost one named for https or, if
\* that is not its scheme, for http, for a Stream one that speaks a protocol it
\* forwards.
PortAsAsked ==
  Answered("port") =>
    LET forward == question.forward
        service == question.service
        Numbers(is) == {Ports!Number(service, i) : i \in is}
        containing == {i \in DOMAIN service.ports : forward.portName \in service.ports[i].words}
        named == {i \in containing : forward.portName = "http" => "https" \notin service.ports[i].words}
        preferred == {i \in DOMAIN service.ports :
                        \/ "https" \in service.ports[i].words
                        \/ forward.scheme # "https" /\ "http" \in service.ports[i].words}
        speaking == {i \in DOMAIN service.ports :
                       \/ forward.tcp /\ service.ports[i].protocol = "tcp"
                       \/ forward.udp /\ service.ports[i].protocol = "udp"}
    IN  /\ forward.portName = Unset /\ forward.port # Unset =>
             answer.proxyHost = forward.port /\ answer.stream = forward.port
        /\ forward.portName # Unset /\ forward.port = Unset =>
             /\ named # {} => answer.proxyHost \in Numbers(named)
             /\ containing # {} => answer.stream \in Numbers(containing)
        /\ forward.portName = Unset /\ forward.port = Unset /\ service.ports # << >> =>
             /\ preferred = {} => answer.proxyHost = Ports!Number(service, 1)
             /\ speaking = {} => answer.stream = Ports!Number(service, 1)

\* A reference is never answered with a token from farther away than the
\* resource's own or the named namespace while that namespace has a token for
\* it, and a token that is not usable yet is waited for, not replaced.
NearestToken ==
  Answered("token") =>
    LET reference == question.reference
        names == Lookup!NamesOf(reference)
        near == IF reference = Unset \/ reference.namespace = Unset THEN Own ELSE reference.namespace
    IN  /\ reference # Unset /\ Exists(near, reference.name)
             => answer.used \in {<<near, reference.name>>, NoToken}
        /\ (\E i \in DOMAIN names : Exists(near, names[i]))
             => answer.used = NoToken \/ answer.used[1] = near

\* A host whose domains are those of the spec, in whatever order, is found
\* although NPM is asked for the first domain only, and it is the first of
\* its kind (FindProxyHostByDomain).
MatchIsFound ==
  Answered("host") =>
    IF \E i \in DOMAIN question.hosts : Same(i)
    THEN answer.found = CHOOSE i \in DOMAIN question.hosts : Same(i) /\ \A j \in 1 .. i - 1 : ~Same(j)
    ELSE answer.found = Nil
===============================================================================
