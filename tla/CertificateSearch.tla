-------------------------- MODULE CertificateSearch --------------------------
(***************************************************************************)
(* How the operator finds a certificate in NPM (pkg/nginxpm/certificate.go *)
(* and letsencrypt_certificate.go), as functions of the list that NPM      *)
(* returns.  A domain name is the sequence of its labels.  A list maps an  *)
(* id to a certificate or to NoCertificate, in NPM's order; Nil, which is  *)
(* no id, is the nil pointer of the Go code.                               *)
(***************************************************************************)
EXTENDS Naturals, Sequences, SequencesExt

CONSTANT NoCertificate

Nil == 0

\* Mutant: the registered domain, not the domain without its first label.
RegisteredDomain(d) == IF Len(d) <= 2 THEN d ELSE SubSeq(d, Len(d) - 1, Len(d))

ExtractRootDomain(d) == IF Len(d) <= 2 THEN d ELSE Tail(d)

\* The domain itself, or the wildcard of its root domain.
MatchedDomain(name, d) == name = d \/ name = <<"*">> \o ExtractRootDomain(d)

FirstOf(ids) == IF ids = {} THEN Nil ELSE Min(ids)

Certificates(list) == {i \in DOMAIN list : list[i] # NoCertificate}

FindCertificateByID(list, id) == IF id \in Certificates(list) THEN id ELSE Nil

FindLetEncryptCertificate(list, d) ==
  FirstOf({i \in Certificates(list) :
             list[i].provider = "letsencrypt" /\ \E n \in list[i].names : MatchedDomain(n, d)})

\* Any provider, but the first domain only.
FindCertificateByDomain(list, domains) ==
  FirstOf({i \in Certificates(list) : \E n \in list[i].names : MatchedDomain(n, Head(domains))})

\* Mutant: the certificate of the last domain is kept whatever came before.
LastCertificate(list, domains) == FindLetEncryptCertificate(list, Last(domains))

\* The search of CreateLetEncryptCertificate: the domains in turn, until two
\* neighbours have different certificates, which ends the search without one.
\* A domain that has none is passed over; the last one's certificate is taken.
ExistingCertificate(list, domains) ==
  LET found(i) == FindLetEncryptCertificate(list, domains[i])
      differ(i) == Nil \notin {found(i - 1), found(i)} /\ found(i - 1) # found(i)
  IN  IF domains = << >> \/ \E i \in 2 .. Len(domains) : differ(i)
      THEN Nil
      ELSE found(Len(domains))

\* The certificate that is adopted or, under the next id, requested.
CreateLetEncryptCertificate(list, domains) ==
  LET found == ExistingCertificate(list, domains)
  IN  IF found # Nil THEN found ELSE Len(list) + 1
===============================================================================
