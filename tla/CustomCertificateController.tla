---------------------- MODULE CustomCertificateController ----------------------
(***************************************************************************)
(* internal/controller/customcertificate and                               *)
(* pkg/nginxpm/custom_certificate.go: a CustomCertificate resource uploads *)
(* the certificate and key of a Secret to NPM, once.  The Secret of a      *)
(* resource is read by the reconciler and changed by users.                *)
(***************************************************************************)
EXTENDS ResourceReconciler

CONSTANTS Pairs,     \* contents of a Secret that NPM accepts
          Missing,   \* no Secret, or one without a field that is read
          Rejected   \* both fields, but NPM's validation refuses them

ASSUME SecretsAssumption == Missing \notin Pairs /\ Rejected \notin Pairs /\ Missing # Rejected

VARIABLES secret,    \* secret[k]: content of the Secret that resource k names
          givenUp    \* history: resources whose last reconciliation ended in a
                     \* creation that NPM failed to carry out

certVars == <<vars, secret, givenUp>>

Secrets == Pairs \cup {Missing, Rejected}

Messages == {"", "Failed to find", "Failed to retrieve keys", "Failed to create", "Certificate ready"}

NoExpiry == "unset"

\* status.expiresOn is a date of the pair it was uploaded from.
CustomCertificate ==
  [spec: Specs, deleting: BOOLEAN, fin: BOOLEAN, id: Ids \cup {NoId},
   conds: SUBSET ConditionTypes, status: Messages, expiresOn: Pairs \cup {NoExpiry}]

\* Mutant: an id that was never assigned is 0, not nil.
NewCertificateZeroId(s) ==
  [spec |-> s, deleting |-> FALSE, fin |-> FALSE, id |-> 0, conds |-> {},
   status |-> "", expiresOn |-> NoExpiry]

NewCertificate(s) ==
  [spec |-> s, deleting |-> FALSE, fin |-> FALSE, id |-> NoId, conds |-> {},
   status |-> "", expiresOn |-> NoExpiry]

\* NPM's record of a certificate: made empty, filled by the upload.
Empty == "empty"

RemoteCertificate == [niceName: Specs, files: Pairs \cup {Empty}]

ASSUME NullsAssumption == NoObj \notin CustomCertificate /\ NoRemote \notin RemoteCertificate

PCs == {"idle", "finalizer", "reconciling", "client", "delete", "removeFinalizer", "find",
        "keys", "validate", "create", "upload", "lookUp", "save", "noteFind", "noteKeys",
        "noteCreate", "ready", "fail", "done", "requeue"}
-----------------------------------------------------------------------------
\* An id that is recorded ends the work, whether or not NPM still has the
\* certificate; only a failed request is an error.
FindCustomCertificateByID ==
  /\ pc = "find"
  /\ \/ pc' = (IF obj.id # NoId THEN "ready" ELSE "keys") /\ UNCHANGED faults
     \/ obj.id # NoId /\ Fault("npm") /\ pc' = "noteFind"
  /\ UNCHANGED <<kubeVars, req, obj, fresh, marked, rid, input, remoteVars, ops, secret, givenUp>>

\* CreateCustomCertificate returns an error that is not the Secret's fault.
GiveUp == pc' = "noteCreate" /\ givenUp' = givenUp \cup {req}

getCertificateKeys ==
  /\ pc = "keys"
  /\ IF secret[req] = Missing
     THEN pc' = "noteKeys" /\ UNCHANGED input
     ELSE pc' = "validate" /\ input' = secret[req]
  /\ UNCHANGED <<kubeVars, helperVars, marked, rid, remoteVars, ops, secret, givenUp>>

ValidateCustomCertificate ==
  /\ pc = "validate"
  /\ \/ /\ pc' = IF input \in Pairs THEN "create" ELSE "noteCreate"
        /\ UNCHANGED <<givenUp, faults>>
     \/ Fault("npm") /\ GiveUp
  /\ UNCHANGED <<kubeVars, req, obj, fresh, marked, rid, input, remoteVars, ops, secret>>

CreateEmptyCustomCertificate ==
  /\ pc = "create"
  /\ \E ok \in BOOLEAN :
       /\ CreateRemote([niceName |-> obj.spec, files |-> Empty], FALSE, ok)
       /\ rid' = IF ok THEN nextId ELSE NoId
       /\ IF ok THEN pc' = "upload" /\ UNCHANGED givenUp ELSE GiveUp
  /\ UNCHANGED <<kubeVars, req, obj, fresh, marked, input, ops, secret>>

Uploaded == IF Alive(rid) THEN [remote[rid] EXCEPT !.files = input] ELSE NoRemote

\* Mutant: the result of the upload is not looked at.
UploadUnchecked ==
  /\ pc = "upload"
  /\ \E ok \in BOOLEAN : UpdateRemote(rid, Uploaded, ok)
  /\ pc' = "lookUp"
  /\ UNCHANGED <<kubeVars, req, obj, fresh, marked, rid, input, ops, secret, givenUp>>

UploadCustomCertificate ==
  /\ pc = "upload"
  /\ \E ok \in BOOLEAN :
       /\ UpdateRemote(rid, Uploaded, ok)
       /\ IF ok THEN pc' = "lookUp" /\ UNCHANGED givenUp ELSE GiveUp
  /\ UNCHANGED <<kubeVars, req, obj, fresh, marked, rid, input, ops, secret>>

\* The certificate is read back.  If it is gone by now the answer is nil
\* without an error, the closure of the status write dereferences it, and
\* controller-runtime turns the panic into a retry.
LookUpCreated ==
  /\ pc = "lookUp"
  /\ \/ /\ pc' = IF Alive(rid) THEN "save" ELSE "requeue"
        /\ UNCHANGED <<givenUp, faults>>
     \/ Fault("npm") /\ GiveUp
  /\ UNCHANGED <<kubeVars, req, obj, fresh, marked, rid, input, remoteVars, ops, secret>>

CreateCustomCertificate ==
  \/ ValidateCustomCertificate
  \/ CreateEmptyCustomCertificate
  \/ UploadCustomCertificate
  \/ LookUpCreated

\* Every failure leaves a message in the status.  A failed creation is no error
\* to Reconcile: the retry it asks for is dropped and Ready follows.
Note(at, message, next) ==
  /\ pc = at
  /\ \E ok \in BOOLEAN : StatusWrite([Cached EXCEPT !.status = message], TRUE, ok)
  /\ pc' = next
  /\ UNCHANGED <<cache, queue, req, marked, rid, input, remoteVars, ops, secret, givenUp>>

SaveStatus ==
  /\ pc = "save"
  /\ \E ok \in BOOLEAN :
       /\ StatusWrite([Cached EXCEPT !.id = rid, !.status = "Certificate ready",
                                     !.expiresOn = input], TRUE, ok)
       /\ pc' = IF ok THEN "ready" ELSE "fail"
  /\ UNCHANGED <<cache, queue, req, marked, rid, input, remoteVars, ops, secret, givenUp>>

createCertificate ==
  \/ FindCustomCertificateByID
  \/ getCertificateKeys
  \/ CreateCustomCertificate
  \/ Note("noteFind", "Failed to find", "fail")
  \/ Note("noteKeys", "Failed to retrieve keys", "fail")
  \/ Note("noteCreate", "Failed to create", "ready")
  \/ SaveStatus

Reconcile ==
  \/ createCertificate
  \/ /\ \/ EnsureFinalizer(api[req])
        \/ MarkReconciling(TRUE)
        \/ InitNginxPMClient(obj.id # NoId)
        \/ DeleteRemote
        \/ DropFinalizer(api[req])
        \/ MarkReady(TRUE)
        \/ MarkError(TRUE)
        \/ Return
     /\ UNCHANGED <<secret, givenUp>>
-----------------------------------------------------------------------------
\* Mutant: a Secret's event queues nothing.
SecretChangeUnwatched(k, c) ==
  /\ Op("secret")
  /\ c # secret[k]
  /\ secret' = [secret EXCEPT ![k] = c]
  /\ UNCHANGED <<kubeVars, helperVars, localVars, remoteVars, givenUp>>

\* A Secret is written: findObjectsForMap queues the resources that name it.
SecretChange(k, c) ==
  /\ Op("secret")
  /\ c # secret[k]
  /\ secret' = [secret EXCEPT ![k] = c]
  /\ queue' = IF cache[k] # NoObj THEN queue \cup {k} ELSE queue
  /\ UNCHANGED <<api, cache, watch, helperVars, localVars, remoteVars, givenUp>>

Environment ==
  \/ \E k \in Keys, c \in Secrets : SecretChange(k, c)
  \/ /\ \/ \E k \in Keys :
             \/ \E s \in Specs : UserCreate(k, NewCertificate(s)) \/ UserEdit(k, s)
             \/ UserDelete(k)
             \/ Trigger(k)
        \/ \E i \in Ids : AdminRemove(i)
        \/ Crash
     /\ UNCHANGED <<secret, givenUp>>

Init == FrameInit /\ secret \in [Keys -> Secrets] /\ givenUp = {}

\* A new reconciliation of k begins.
Take(k) == Dequeue(k) /\ givenUp' = givenUp \ {k} /\ UNCHANGED secret

DeliverTo(k) == WatchEvent(k) /\ UNCHANGED <<secret, givenUp>>

Next ==
  \/ \E k \in Keys : Take(k) \/ DeliverTo(k)
  \/ Reconcile
  \/ Environment

Spec == Init /\ [][Next]_certVars

(* As for the other kinds: the worker runs, watch events arrive, the queue  *)
(* is first in, first out.                                                  *)
FairSpec ==
  /\ Spec
  /\ WF_certVars(Reconcile)
  /\ \A k \in Keys : WF_certVars(DeliverTo(k)) /\ SF_certVars(Take(k))
-----------------------------------------------------------------------------
\* Every stored, cached or delivered object is a CustomCertificate and the
\* worker's variables have the types of the Go variables they stand for.
TypeOK ==
  /\ FrameTypeOK(CustomCertificate, RemoteCertificate, Secrets, PCs)
  /\ secret \in [Keys -> Secrets]
  /\ givenUp \subseteq Keys

\* What the reconciler promises about certificates in NPM: see RemoteLedger.
Ledger ==
  INSTANCE RemoteLedger WITH
    Nobody <- NoKey,
    MayDisown <- FALSE,
    present <- {k \in Keys : Live(k)},
    leaving <- {k \in Keys : Live(k) /\ api[k].deleting},
    held <- [k \in Keys |-> IF Live(k) THEN api[k].id ELSE NoId],
    alive <- {i \in Ids : Alive(i)},
    owner <- maker,
    turns <- ops

ImplementsLedger == Ledger!Spec

\* A recorded certificate is never one of the empty records that a failed or
\* interrupted upload leaves in NPM, and its expiry is that of its files.
RecordedIsUploaded ==
  \A k \in Keys : Live(k) /\ api[k].id # NoId =>
    /\ api[k].expiresOn \in Pairs
    /\ Alive(api[k].id) => remote[api[k].id].files = api[k].expiresOn

\* Correcting the Secret is enough to get a resource its certificate, unless
\* NPM fails to carry out the last attempt.
GoodSecretIsServed ==
  \A k \in Keys :
    <>[](Live(k) /\ ~api[k].deleting /\ secret[k] \in Pairs /\ k \notin givenUp)
      => <>(Live(k) /\ api[k].id # NoId)
===============================================================================
