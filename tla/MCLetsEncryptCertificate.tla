----------------------- MODULE MCLetsEncryptCertificate -----------------------
(* Instances of LetsEncryptCertificateController for TLC. *)
EXTENDS LetsEncryptCertificateController

A == <<"a", "example", "com">>
B == <<"b", "example", "com">>

SpecOf(domainNames, dns) == [domainNames |-> domainNames, dnsChallenge |-> dns]

OneSpec == {SpecOf(<<A>>, FALSE)}
DnsSpec == {SpecOf(<<A>>, TRUE)}

BothDomains == {<<A, B>>}
===============================================================================
