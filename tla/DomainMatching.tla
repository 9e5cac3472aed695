---------------------------- MODULE DomainMatching ----------------------------
(***************************************************************************)
(* Which host of NPM a ProxyHost adopts: FindProxyHostByDomain and         *)
(* domainsMatch of pkg/nginxpm/proxy_host.go, on lists of domains as they  *)
(* are in the spec and in NPM.  ProxyHostController has sets instead; the  *)
(* property MatchIsFound of Selection says when the two agree.             *)
(***************************************************************************)
EXTENDS Naturals, Sequences, SequencesExt

Nil == 0

\* Mutant: the lengths are not compared.
DomainsContained(hostDomains, searchDomains) ==
  \A i \in DOMAIN searchDomains : Contains(hostDomains, searchDomains[i])

domainsMatch(hostDomains, searchDomains) ==
  /\ Len(hostDomains) = Len(searchDomains)
  /\ \A i \in DOMAIN searchDomains : Contains(hostDomains, searchDomains[i])

\* NPM's answer to ?query=: the hosts that have the text among their domains.
Queried(hosts, text) == {i \in DOMAIN hosts : Contains(hosts[i], text)}

\* The first match in the answer to a query for the first domain.
FindProxyHostByDomain(hosts, domains) ==
  LET matches == {i \in Queried(hosts, Head(domains)) : domainsMatch(hosts[i], domains)}
  IN  IF matches = {} THEN Nil ELSE Min(matches)
===============================================================================
