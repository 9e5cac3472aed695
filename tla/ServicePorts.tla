----------------------------- MODULE ServicePorts -----------------------------
(***************************************************************************)
(* Which port of a Service a ProxyHost or a Stream forwards to:            *)
(* proxyhost/proxy_forward.go and stream/proxy_forward.go, as functions of *)
(* the service's ports and of spec.forward.  The name of a port is the set *)
(* of the words it contains; port and nodePort are numbers, and 0 is the   *)
(* number that no port has.                                                *)
(***************************************************************************)
EXTENDS Naturals, Sequences, FiniteSetsExt

CONSTANT Unset   \* an optional field that is not given

NotFound == 0

\* A service is [type, ports].  Traffic reaches a NodePort service through the
\* nodes, any other through its own address.
Number(service, i) ==
  IF service.type = "NodePort" THEN service.ports[i].nodePort ELSE service.ports[i].port

\* matchPort: the first of the ports in is.
FirstNumber(service, is) == IF is = {} THEN NotFound ELSE Number(service, Min(is))

FirstPort(service) == FirstNumber(service, DOMAIN service.ports)

\* Mutant: "https" contains "http".
MatchPortContains(service, word) ==
  FirstNumber(service, {i \in DOMAIN service.ports : word \in service.ports[i].words})

\* The matchPort closures of the ProxyHost reconciler.
MatchPort(service, word) ==
  FirstNumber(service, {i \in DOMAIN service.ports :
                          /\ word \in service.ports[i].words
                          /\ word = "http" => "https" \notin service.ports[i].words})

FirstFound(numbers) ==
  LET found == {i \in DOMAIN numbers : numbers[i] # NotFound}
  IN  IF found = {} THEN NotFound ELSE numbers[Min(found)]

Named(match, portName) == IF portName = Unset THEN NotFound ELSE match

\* forwardWhenNotNodePortType and forwardWhenNodePortType of a ProxyHost: the
\* given number is taken as it is, for either type of service.
ProxyHostPort(service, f) ==
  FirstFound(<<
    Named(MatchPort(service, f.portName), f.portName),
    IF f.port = Unset THEN NotFound ELSE f.port,
    IF f.scheme = "https" THEN NotFound ELSE MatchPort(service, "http"),
    MatchPort(service, "https"),
    FirstPort(service)>>)

\* portMatched of the Stream reconciler.
PortMatched(word, port) == word = port.protocol \/ word \in port.words

StreamMatch(service, word) ==
  FirstNumber(service, {i \in DOMAIN service.ports : PortMatched(word, service.ports[i])})

\* getServiceDestination and the fallback of its callers.
StreamPort(service, f) ==
  FirstFound(<<
    Named(StreamMatch(service, f.portName), f.portName),
    IF f.port = Unset THEN NotFound ELSE f.port,
    IF f.tcp THEN StreamMatch(service, "tcp") ELSE NotFound,
    IF f.udp THEN StreamMatch(service, "udp") ELSE NotFound,
    FirstPort(service)>>)
===============================================================================
