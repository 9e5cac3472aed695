\* Three domains, two certificates, three ports, two hosts, four namespaces with
\* a named and a default token.
SPECIFICATION SelectionSpec
CONSTANTS
  NoCertificate = NoCertificate
  Absent = Absent
  Unresolved = Unresolved
  NoSsl = NoSsl
  Failed = Failed
  Unset = Unset
  NoToken = NoToken
  Undecided = Undecided
  DefaultName = DefaultName
  SystemNamespace = SystemNamespace
  DefaultNamespace = DefaultNamespace
  Own = Own
  Other = Other
  Name = Name
  AutoNames <- DeepNames
  GivenNames <- ShortNames
  References = {Absent, Unresolved, 1, 2}
  HostPorts = {0, 8080}
  HostDomains = {d1, d2, d3}
  MaxDomains = 3
  MaxListed = 2
  MaxPorts = 3
  MaxHosts = 2
\* A question that is answered.
CHECK_DEADLOCK FALSE
INVARIANTS UnanimousOrNew PriorityHonoured FoundIsValid PortAsAsked NearestToken MatchIsFound
