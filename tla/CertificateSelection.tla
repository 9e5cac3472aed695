------------------------- MODULE CertificateSelection -------------------------
(***************************************************************************)
(* Which certificate a ProxyHost or a Stream gets:                         *)
(* internal/controller/certificate.go and makeCertificate of the ProxyHost *)
(* reconciler, as functions of the Ssl section and of NPM's list.  A       *)
(* reference of the section is Absent, Unresolved (the resource is missing *)
(* or has no id yet) or the id that the resource's status records.         *)
(***************************************************************************)
EXTENDS CertificateSearch

CONSTANTS Absent,      \* a reference that is not given
          Unresolved,  \* a reference to a resource without an id
          NoSsl,       \* no Ssl section
          Failed       \* an error is returned

\* Mutant: the reference that is looked up first is the one that counts.
RetrieveInReverse(ssl, list) ==
  IF Unresolved \in {ssl.letsEncrypt, ssl.custom} THEN Failed
  ELSE IF ssl.letsEncrypt # Absent THEN FindCertificateByID(list, ssl.letsEncrypt)
  ELSE IF ssl.custom # Absent THEN FindCertificateByID(list, ssl.custom)
  ELSE IF ssl.certificateId # Absent THEN FindCertificateByID(list, ssl.certificateId)
  ELSE Nil

\* Every reference that is given is looked up, and the last one found or not
\* found is the answer; an id that NPM does not have is nil without an error.
RetrieveCertificate(ssl, list) ==
  IF Unresolved \in {ssl.letsEncrypt, ssl.custom} THEN Failed
  ELSE IF ssl.certificateId # Absent THEN FindCertificateByID(list, ssl.certificateId)
  ELSE IF ssl.custom # Absent THEN FindCertificateByID(list, ssl.custom)
  ELSE IF ssl.letsEncrypt # Absent THEN FindCertificateByID(list, ssl.letsEncrypt)
  ELSE Nil

findOrCreateCertificate(list, domains) ==
  LET found == FindCertificateByDomain(list, domains)
  IN  IF found # Nil THEN found ELSE CreateLetEncryptCertificate(list, domains)

\* A domain of a ProxyHost may carry a port.
extractDomainsWithoutPorts(domains) == [i \in DOMAIN domains |-> domains[i].name]

makeCertificate(ssl, list, domains) ==
  IF ssl = NoSsl THEN Nil
  ELSE LET given == RetrieveCertificate(ssl, list)
       IN  IF given = Nil /\ ssl.auto
           THEN findOrCreateCertificate(list, extractDomainsWithoutPorts(domains))
           ELSE given
===============================================================================
