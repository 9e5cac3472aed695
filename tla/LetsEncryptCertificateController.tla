------------------- MODULE LetsEncryptCertificateController -------------------
(***************************************************************************)
(* internal/controller/letsencryptcertificate and                          *)
(* pkg/nginxpm/letsencrypt_certificate.go: a LetsEncryptCertificate adopts *)
(* a certificate of NPM that matches its domains (bound) or requests one   *)
(* from Let's Encrypt through NPM, once.  Adopted certificates may be an   *)
(* administrator's or another resource's.  The CRD requires                *)
(* status.domainNames, so that the API server refuses every status before  *)
(* the names are recorded, conditions included (ValidStatus).              *)
(***************************************************************************)
EXTENDS ResourceReconciler

CONSTANT AdminDomains  \* the lists of domains that administrators request
                       \* certificates for

Search == INSTANCE CertificateSearch WITH NoCertificate <- NoRemote

VARIABLES credentials, \* credentials[k]: the DNS provider's Secret is readable
          givenUp      \* history: resources whose last reconciliation ended in
                       \* a search or request that NPM failed to carry out

lecVars == <<vars, credentials, givenUp>>

Requested == {s.domainNames : s \in Specs} \cup AdminDomains

Domains == UNION {{list[i] : i \in DOMAIN list} : list \in Requested}

\* A certificate in NPM: all are Let's Encrypt's in this module.
RemoteCertificate == [provider: {"letsencrypt"}, names: SUBSET Domains]

Issued(domainNames) ==
  [provider |-> "letsencrypt", names |-> {domainNames[i] : i \in DOMAIN domainNames}]

\* What createCertificate learns from NPM for the status.
Answers == [bound: BOOLEAN, domainNames: SUBSET Domains]

LetsEncryptCertificate ==
  [spec: Specs, deleting: BOOLEAN, fin: BOOLEAN, id: Ids \cup {NoId},
   conds: SUBSET ConditionTypes, bound: BOOLEAN, domainNames: SUBSET Domains]

ASSUME NullsAssumption == NoObj \notin LetsEncryptCertificate /\ NoRemote \notin RemoteCertificate

\* What the CRD requires of a status: domainNames, and a name in it.
ValidStatus(o) == o.domainNames # {}

\* Mutant: an id that was never assigned is 0, not nil.
NewCertificateZeroId(s) ==
  [spec |-> s, deleting |-> FALSE, fin |-> FALSE, id |-> 0, conds |-> {},
   bound |-> FALSE, domainNames |-> {}]

NewCertificate(s) ==
  [spec |-> s, deleting |-> FALSE, fin |-> FALSE, id |-> NoId, conds |-> {},
   bound |-> FALSE, domainNames |-> {}]

PCs == {"idle", "finalizer", "reconciling", "client", "delete", "removeFinalizer", "find",
        "credentials", "search", "request", "save", "ready", "fail", "done", "requeue"}
-----------------------------------------------------------------------------
\* An id that is recorded ends the work, whether or not NPM still has the
\* certificate and whatever the domains are by now.
FindLetEncryptCertificateByID ==
  /\ pc = "find"
  /\ \/ pc' = (IF obj.id # NoId THEN "ready" ELSE "credentials") /\ UNCHANGED faults
     \/ obj.id # NoId /\ Fault("npm") /\ pc' = "fail"
  /\ UNCHANGED <<kubeVars, req, obj, fresh, marked, rid, input, remoteVars, ops, credentials, givenUp>>

getDnsChallengeProviderCredentials ==
  /\ pc = "credentials"
  /\ pc' = IF obj.spec.dnsChallenge => credentials[req] THEN "search" ELSE "fail"
  /\ UNCHANGED <<kubeVars, helperVars, marked, rid, input, remoteVars, ops, credentials, givenUp>>

\* CreateLetEncryptCertificate fails.  That is no error to Reconcile: the retry
\* it asks for is dropped.
GiveUp == pc' = "ready" /\ givenUp' = givenUp \cup {req}

\* The searches of CreateLetEncryptCertificate.
SearchExisting ==
  /\ pc = "search"
  /\ \/ LET found == Search!ExistingCertificate(remote, obj.spec.domainNames)
        IN  IF found = Search!Nil
            THEN pc' = "request" /\ UNCHANGED <<rid, input, givenUp, faults>>
            ELSE /\ pc' = "save"
                 /\ rid' = found
                 /\ input' = [bound |-> TRUE, domainNames |-> remote[found].names]
                 /\ UNCHANGED <<givenUp, faults>>
     \/ Fault("npm") /\ GiveUp /\ UNCHANGED <<rid, input>>
  /\ UNCHANGED <<kubeVars, req, obj, fresh, marked, remoteVars, ops, credentials>>

RequestCertificate ==
  /\ pc = "request"
  /\ \E ok \in BOOLEAN :
       /\ CreateRemote(Issued(obj.spec.domainNames), FALSE, ok)
       /\ IF ok THEN pc' = "save" /\ UNCHANGED givenUp ELSE GiveUp
       /\ rid' = IF ok THEN nextId ELSE NoId
       /\ input' = IF ok
                   THEN [bound |-> FALSE, domainNames |-> Issued(obj.spec.domainNames).names]
                   ELSE NoInput
  /\ UNCHANGED <<kubeVars, req, obj, fresh, marked, ops, credentials>>

\* Mutant: the id is not recorded.
RecordedWithoutId(o) == [o EXCEPT !.bound = input.bound, !.domainNames = input.domainNames]

\* Mutant: bound is not recorded.
RecordedUnbound(o) == [o EXCEPT !.id = rid, !.domainNames = input.domainNames]

Recorded(o) ==
  [o EXCEPT !.id = rid, !.bound = input.bound, !.domainNames = input.domainNames]

SaveStatus ==
  /\ pc = "save"
  /\ \E ok \in BOOLEAN :
       /\ StatusWrite(Recorded(Cached), ValidStatus(Recorded(Cached)), ok)
       /\ pc' = IF ok THEN "ready" ELSE "fail"
  /\ UNCHANGED <<cache, queue, req, marked, rid, input, remoteVars, ops, credentials, givenUp>>

createCertificate ==
  \/ FindLetEncryptCertificateByID
  \/ getDnsChallengeProviderCredentials
  \/ SearchExisting
  \/ RequestCertificate
  \/ SaveStatus

\* Finalization leaves a bound certificate alone.
Reconcile ==
  \/ createCertificate
  \/ /\ \/ EnsureFinalizer(api[req])
        \/ MarkReconciling(ValidStatus(Cached))
        \/ InitNginxPMClient(obj.id # NoId /\ ~obj.bound)
        \/ DeleteRemote
        \/ DropFinalizer(api[req])
        \/ MarkReady(ValidStatus(Cached))
        \/ MarkError(ValidStatus(Cached))
        \/ Return
     /\ UNCHANGED <<credentials, givenUp>>
-----------------------------------------------------------------------------
\* The Secret of the DNS provider is written or removed.
CredentialsChange(k) ==
  /\ Op("secret")
  /\ credentials' = [credentials EXCEPT ![k] = ~@]
  /\ queue' = IF cache[k] # NoObj /\ cache[k].spec.dnsChallenge THEN queue \cup {k} ELSE queue
  /\ UNCHANGED <<api, cache, watch, helperVars, localVars, remoteVars, givenUp>>

\* An administrator requests a certificate in NPM's own interface.
AdminCreate(domainNames) ==
  /\ Op("adminCreate")
  /\ Post(NoKey, Issued(domainNames))
  /\ UNCHANGED <<kubeVars, helperVars, localVars>>

Environment ==
  \/ \E k \in Keys : CredentialsChange(k)
  \/ /\ \/ \E k \in Keys :
             \/ \E s \in Specs : UserCreate(k, NewCertificate(s)) \/ UserEdit(k, s)
             \/ UserDelete(k)
             \/ Trigger(k)
        \/ \E domainNames \in AdminDomains : AdminCreate(domainNames)
        \/ \E i \in Ids : AdminRemove(i)
        \/ Crash
     /\ UNCHANGED <<credentials, givenUp>>

Init == FrameInit /\ credentials \in [Keys -> BOOLEAN] /\ givenUp = {}

\* A new reconciliation of k begins.
Take(k) == Dequeue(k) /\ givenUp' = givenUp \ {k} /\ UNCHANGED credentials

DeliverTo(k) == WatchEvent(k) /\ UNCHANGED <<credentials, givenUp>>

Next ==
  \/ \E k \in Keys : Take(k) \/ DeliverTo(k)
  \/ Reconcile
  \/ Environment

Spec == Init /\ [][Next]_lecVars

(* As for the other kinds: the worker runs, watch events arrive, the queue  *)
(* is first in, first out.                                                  *)
FairSpec ==
  /\ Spec
  /\ WF_lecVars(Reconcile)
  /\ \A k \in Keys : WF_lecVars(DeliverTo(k)) /\ SF_lecVars(Take(k))
-----------------------------------------------------------------------------
\* Every stored, cached or delivered object is a LetsEncryptCertificate and the
\* worker's variables have the types of the Go variables they stand for.
TypeOK ==
  /\ FrameTypeOK(LetsEncryptCertificate, RemoteCertificate, Answers, PCs)
  /\ credentials \in [Keys -> BOOLEAN]
  /\ givenUp \subseteq Keys

\* What the reconciler promises about the certificates it requested: see
\* RemoteLedger.  A bound certificate is not held, so that none that belongs to
\* an administrator or to another resource is ever removed.  A resource whose
\* record is lost or not seen finds its own certificate again and is bound to it.
Ledger ==
  INSTANCE RemoteLedger WITH
    Nobody <- NoKey,
    MayDisown <- TRUE,
    present <- {k \in Keys : Live(k)},
    leaving <- {k \in Keys : Live(k) /\ api[k].deleting},
    held <- [k \in Keys |-> IF Live(k) /\ ~api[k].bound THEN api[k].id ELSE NoId],
    alive <- {i \in Ids : Alive(i)},
    owner <- maker,
    turns <- ops

ImplementsLedger == Ledger!Spec

\* A resource that is stored as Ready has the id of a certificate and its names:
\* while NPM has that certificate, its names are status.domainNames.  Reconcile
\* reports Ready after a failed request too, and on any cached version; that no
\* such report is stored rests on the required domainNames, which are recorded
\* with the id of the certificate they belong to and with no other.
ReadyMeansIssued ==
  \A k \in Keys :
    Live(k) /\ "Ready" \in api[k].conds =>
      /\ api[k].id # NoId
      /\ Alive(api[k].id) => remote[api[k].id].names = api[k].domainNames

\* A resource whose credentials stay readable gets a certificate, unless NPM
\* fails to carry out the last attempt.
GetsCertificate ==
  \A k \in Keys :
    <>[](Live(k) /\ ~api[k].deleting /\ credentials[k] /\ k \notin givenUp)
      => <>(Live(k) /\ api[k].id # NoId)

\* "The "Ready" condition indicates if the certificate is successfully issued
\* and active" (letsencryptcertificate_types.go).  Checked where no
\* administrator removes certificates.
ReadyMeansActive ==
  Quiet => \A k \in Keys : Live(k) /\ "Ready" \in api[k].conds => Alive(api[k].id)
===============================================================================
