------------------------- MODULE CustomCertificateProofs -------------------------
(***************************************************************************)
(* Theorems about CustomCertificateController, for every value of the      *)
(* constants.                                                              *)
(***************************************************************************)
EXTENDS CustomCertificateController, FrameProofs

\* A resource owns the certificate that its status records.
Certificates ==
  [objects |-> CustomCertificate, owned |-> {o \in CustomCertificate : o.id # NoId},
   remote |-> RemoteCertificate, inputs |-> Secrets, pcs |-> PCs, disowns |-> FALSE]

\* What the worker fills and records is a certificate made for its resource,
\* and it does so with a pair that NPM has validated.
FoundInv ==
  /\ pc \in {"upload", "lookUp", "save"} => rid \in Ids /\ maker[rid] = req
  /\ pc \in {"create", "upload", "lookUp", "save"} => input \in Pairs
  /\ pc = "validate" => input \in Secrets

OtherTypes == secret \in [Keys -> Secrets] /\ givenUp \subseteq Keys

CertificateInv == FrameInv(Certificates) /\ FoundInv /\ OtherTypes

\* The parts of the kind.
LEMMA CertificatesParts ==
  /\ Certificates.objects = CustomCertificate
  /\ Certificates.remote = RemoteCertificate /\ Certificates.inputs = Secrets
  /\ Certificates.pcs = PCs /\ Certificates.disowns = FALSE
  /\ \A o \in CustomCertificate : o \in Certificates.owned <=> o.id # NoId
  /\ Certificates.owned \subseteq CustomCertificate
BY DEF Certificates

\* A certificate as a kind of the frame.
LEMMA CertificateIsKind == IsKind(Certificates)
<1>1. \A o \in CustomCertificate : o # NoObj
  BY NullsAssumption
<1>2. {"idle", "finalizer", "reconciling", "client", "delete", "removeFinalizer", "find", "fail",
       "done", "requeue"} \subseteq PCs
  BY DEF PCs
<1>3. \A v, o \in CustomCertificate :
        v.fin = o.fin /\ v.deleting = o.deleting /\ v.id = o.id => Agrees(v, o, Certificates)
  BY <1>1, CertificatesParts DEF Agrees, SameLife
<1>4. ASSUME NEW o \in CustomCertificate, NEW type \in ConditionTypes
      PROVE  SetCondition(o, type) \in CustomCertificate /\ Agrees(SetCondition(o, type), o, Certificates)
  <2> DEFINE v == SetCondition(o, type)
  <2>1. v \in CustomCertificate /\ v.fin = o.fin /\ v.deleting = o.deleting /\ v.id = o.id
    BY DEF CustomCertificate, SetCondition
  <2> HIDE DEF v
  <2>2. v \in CustomCertificate /\ Agrees(v, o, Certificates)
    BY <1>3, <2>1
  <2> QED BY <2>2 DEF v
<1>5. ASSUME NEW o \in CustomCertificate, NEW s \in Specs
      PROVE  [o EXCEPT !.spec = s] \in CustomCertificate /\ Agrees([o EXCEPT !.spec = s], o, Certificates)
  <2> DEFINE v == [o EXCEPT !.spec = s]
  <2>1. v \in CustomCertificate /\ v.fin = o.fin /\ v.deleting = o.deleting /\ v.id = o.id
    BY NullsAssumption DEF CustomCertificate
  <2> HIDE DEF v
  <2>2. v \in CustomCertificate /\ Agrees(v, o, Certificates)
    BY <1>3, <2>1
  <2> QED BY <2>2 DEF v
<1>6. ASSUME NEW o \in CustomCertificate
      PROVE  /\ o.fin \in BOOLEAN /\ o.deleting \in BOOLEAN
             /\ LET v == WithFinalizer(o)
                IN  /\ v \in CustomCertificate /\ v.fin /\ v.deleting = o.deleting /\ v.id = o.id
                    /\ v \in Certificates.owned <=> o \in Certificates.owned
             /\ LET v == [o EXCEPT !.deleting = TRUE]
                IN  /\ v \in CustomCertificate /\ v.fin = o.fin /\ v.deleting /\ v.id = o.id
                    /\ v \in Certificates.owned <=> o \in Certificates.owned
  <2> DEFINE v == WithFinalizer(o)
             w == [o EXCEPT !.deleting = TRUE]
  <2>1. /\ o.fin \in BOOLEAN /\ o.deleting \in BOOLEAN
        /\ v \in CustomCertificate /\ v.fin /\ v.deleting = o.deleting /\ v.id = o.id
        /\ w \in CustomCertificate /\ w.fin = o.fin /\ w.deleting /\ w.id = o.id
    BY DEF CustomCertificate, WithFinalizer
  <2> HIDE DEF v, w
  <2>2. /\ v \in Certificates.owned <=> o \in Certificates.owned
        /\ w \in Certificates.owned <=> o \in Certificates.owned
    BY <2>1, CertificatesParts
  <2> QED BY <2>1, <2>2 DEF v, w
<1>7. \A o \in Certificates.owned : o.id \in Ids
  BY CertificatesParts DEF CustomCertificate
<1> QED BY <1>2, <1>4, <1>5, <1>6, <1>7, CertificatesParts, NullsAssumption DEF IsKind

-----------------------------------------------------------------------------
(* The calls of createCertificate                                           *)

\* The worker's copy, while it works.
LEMMA WorkerFacts ==
  ASSUME CertificateInv, pc # "idle"
  PROVE  /\ IsKind(Certificates) /\ FrameInv(Certificates) /\ FoundInv /\ Types(Certificates)
         /\ OwnersInv(Certificates)
         /\ req \in Keys /\ obj \in CustomCertificate /\ faults \in Nat
         /\ rid \in Ids \cup {NoId} /\ input \in Secrets \cup {NoInput}
         /\ secret[req] \in Secrets
<1>1. /\ req \in Keys /\ obj \in CustomCertificate /\ faults \in Nat
      /\ rid \in Ids \cup {NoId} /\ input \in Secrets \cup {NoInput}
  BY CertificatesParts DEF CertificateInv, FrameInv, WorkerInv, Types, FrameTypeOK
<1> QED BY <1>1, CertificateIsKind DEF CertificateInv, FrameInv, OtherTypes

\* Steps that neither touch stored objects nor record anything.
LEMMA CallStep ==
  ASSUME CertificateInv, RemoteEffect(Certificates), faults' \in Nat,
         UNCHANGED <<kubeVars, req, obj, fresh, marked, ops, secret>>,
         givenUp' \in {givenUp, givenUp \cup {req}},
         pc \in {"find", "keys", "validate", "create", "upload", "lookUp"},
         pc' \in {"keys", "validate", "create", "upload", "lookUp", "save", "noteFind", "noteKeys",
                  "noteCreate", "ready", "requeue"},
         rid' \in Ids \cup {NoId}, input' \in Secrets \cup {NoInput}, FoundInv'
  PROVE  CertificateInv' /\ LedgerStep(Certificates)
<1>1. /\ Creating /\ pc' \in Certificates.pcs /\ pc # "idle"
      /\ Creating' \/ pc' = "requeue"
  BY CertificatesParts DEF Creating, PCs
<1>2. FrameInv(Certificates)' /\ LedgerStep(Certificates)
  BY <1>1, WorkerFacts, WorkStep, CertificatesParts
<1>3. OtherTypes'
  BY <1>1, WorkerFacts DEF CertificateInv, OtherTypes
<1> QED BY <1>2, <1>3 DEF CertificateInv

\* The calls that change nothing in NPM.
LEMMA ReadSteps ==
  ASSUME CertificateInv,
         \/ FindCustomCertificateByID \/ getCertificateKeys
         \/ ValidateCustomCertificate \/ LookUpCreated
  PROVE  CertificateInv' /\ LedgerStep(Certificates)
<1>1. /\ UNCHANGED <<kubeVars, req, obj, fresh, marked, rid, remoteVars, ops, secret>>
      /\ givenUp' \in {givenUp, givenUp \cup {req}}
      /\ pc \in {"find", "keys", "validate", "lookUp"}
      /\ pc' \in {"keys", "validate", "create", "save", "noteFind", "noteKeys", "noteCreate",
                  "ready", "requeue"}
      /\ input' \in {input, secret[req]}
      /\ UNCHANGED faults \/ Fault("npm")
      /\ pc' = "validate" => input' = secret[req]
      /\ pc' = "create" => input' = input /\ input \in Pairs
      /\ pc' = "save" => pc = "lookUp" /\ input' = input
  BY DEF FindCustomCertificateByID, getCertificateKeys, ValidateCustomCertificate, LookUpCreated,
         GiveUp, helperVars
<1>2. faults' \in Nat
  BY <1>1, WorkerFacts, FaultKeeps
<1>3. RemoteEffect(Certificates)
  BY <1>1 DEF RemoteEffect
<1>4. FoundInv'
  BY <1>1, WorkerFacts DEF FoundInv, remoteVars
<1>5. rid' \in Ids \cup {NoId} /\ input' \in Secrets \cup {NoInput}
  BY <1>1, WorkerFacts
<1> QED BY <1>1, <1>2, <1>3, <1>4, <1>5, CallStep

\* An empty certificate is made for this resource.
LEMMA CreateStep ==
  ASSUME CertificateInv, CreateEmptyCustomCertificate
  PROVE  CertificateInv' /\ LedgerStep(Certificates)
<1>0. pc = "create" /\ input \in Pairs /\ Pairs \subseteq Secrets
  BY WorkerFacts DEF CreateEmptyCustomCertificate, FoundInv, Secrets
<1> DEFINE v == [niceName |-> obj.spec, files |-> Empty]
<1>1. PICK ok \in BOOLEAN :
        /\ UNCHANGED <<kubeVars, req, obj, fresh, marked, input, ops, secret>>
        /\ CreateRemote(v, FALSE, ok)
        /\ rid' = (IF ok THEN nextId ELSE NoId)
        /\ IF ok THEN pc' = "upload" /\ UNCHANGED givenUp
           ELSE pc' = "noteCreate" /\ givenUp' = givenUp \cup {req}
  BY DEF CreateEmptyCustomCertificate, GiveUp
<1>2. v \in RemoteCertificate
  BY <1>0, WorkerFacts DEF RemoteCertificate, CustomCertificate
<1> HIDE DEF v
<1>3. RemoteEffect(Certificates) /\ faults' \in Nat
  BY <1>0, <1>1, <1>2, WorkerFacts, RequestEffects, CertificatesParts
<1>4. ASSUME ok
      PROVE  nextId \in Ids /\ maker'[nextId] = req
  <2>1. Post(req, v)
    BY <1>1, <1>4 DEF CreateRemote
  <2>2. nextId \in Ids /\ maker' = [maker EXCEPT ![nextId] = req]
    BY <1>0, <1>2, <2>1, WorkerFacts, PostKeeps, CertificatesParts
  <2> QED BY <1>0, <2>2, WorkerFacts DEF Types, FrameTypeOK
<1>5. FoundInv'
  BY <1>0, <1>1, <1>4 DEF FoundInv
<1>6. rid' \in Ids \cup {NoId} /\ input' \in Secrets \cup {NoInput}
  BY <1>0, <1>1, <1>4
<1> QED BY <1>0, <1>1, <1>3, <1>5, <1>6, CallStep

\* The certificate just made is filled.
LEMMA UploadStep ==
  ASSUME CertificateInv, UploadCustomCertificate
  PROVE  CertificateInv' /\ LedgerStep(Certificates)
<1>0. /\ pc = "upload" /\ input \in Pairs /\ Pairs \subseteq Secrets
      /\ rid \in Ids /\ maker[rid] = req
  BY WorkerFacts DEF UploadCustomCertificate, FoundInv, Secrets
<1>1. PICK ok \in BOOLEAN :
        /\ UNCHANGED <<kubeVars, req, obj, fresh, marked, rid, input, ops, secret>>
        /\ UpdateRemote(rid, Uploaded, ok)
        /\ IF ok THEN pc' = "lookUp" /\ UNCHANGED givenUp
           ELSE pc' = "noteCreate" /\ givenUp' = givenUp \cup {req}
  BY DEF UploadCustomCertificate, GiveUp
<1>2. Alive(rid) => Uploaded \in RemoteCertificate
  <2>1. Alive(rid) => remote[rid] \in RemoteCertificate
    BY <1>0, WorkerFacts, CertificatesParts DEF Types, FrameTypeOK, Alive
  <2> QED BY <1>0, <2>1 DEF Uploaded, RemoteCertificate
<1>3. RemoteEffect(Certificates) /\ faults' \in Nat
  BY <1>0, <1>1, <1>2, WorkerFacts, RequestEffects, CertificatesParts
<1>4. maker' = maker
  BY <1>1 DEF UpdateRemote, Put, remoteVars
<1>5. FoundInv'
  BY <1>0, <1>1, <1>4 DEF FoundInv
<1>6. rid' \in Ids \cup {NoId} /\ input' \in Secrets \cup {NoInput}
  BY <1>0, <1>1
<1> QED BY <1>0, <1>1, <1>3, <1>5, <1>6, CallStep

\* Messages in the status, and the record of the certificate.
LEMMA StatusSteps ==
  ASSUME CertificateInv,
         \/ Note("noteFind", "Failed to find", "fail")
         \/ Note("noteKeys", "Failed to retrieve keys", "fail")
         \/ Note("noteCreate", "Failed to create", "ready")
         \/ SaveStatus
  PROVE  CertificateInv' /\ LedgerStep(Certificates)
<1> DEFINE noted(m) == [Cached EXCEPT !.status = m]
           saved == [Cached EXCEPT !.id = rid, !.status = "Certificate ready", !.expiresOn = input]
<1>1. /\ UNCHANGED <<cache, queue, req, marked, rid, input, remoteVars, ops, secret, givenUp>>
      /\ pc \in {"noteFind", "noteKeys", "noteCreate", "save"} /\ pc' \in {"ready", "fail"}
      /\ \E ok \in BOOLEAN :
           \/ \E m \in Messages : StatusWrite(noted(m), TRUE, ok)
           \/ pc = "save" /\ StatusWrite(saved, TRUE, ok)
  BY DEF Note, SaveStatus, Messages
<1>2. /\ IsKind(Certificates) /\ FrameInv(Certificates) /\ req \in Keys
      /\ pc = "save" => rid \in Ids /\ maker[rid] = req /\ rid # NoId /\ input \in Pairs
  <2>1. pc # "idle"
    BY <1>1
  <2> QED BY <2>1, WorkerFacts, NilIsNoId DEF FoundInv
<1>3. Creating /\ Creating' /\ pc' \in Certificates.pcs
  BY <1>1, CertificatesParts DEF Creating, PCs
<1>4. ASSUME cache[req] # NoObj
      PROVE  cache[req] \in CustomCertificate /\ Cached = cache[req]
  BY <1>2, <1>4, FrameTypes, CertificatesParts DEF Cached
<1>5. ASSUME cache[req] # NoObj, NEW m \in Messages
      PROVE  StatusOf(noted(m), cache[req], Certificates)
  <2> DEFINE v == noted(m)
  <2>1. /\ v \in CustomCertificate /\ v.fin = cache[req].fin /\ v.deleting = cache[req].deleting
        /\ v.id = cache[req].id
    BY <1>4, <1>5 DEF CustomCertificate
  <2> HIDE DEF v
  <2>2. v # NoObj /\ v \in Certificates.objects
        /\ (v \in Certificates.owned <=> cache[req] \in Certificates.owned)
    BY <1>4, <1>5, <2>1, CertificatesParts, NullsAssumption
  <2>3. StatusOf(v, cache[req], Certificates)
    BY <1>5, <2>1, <2>2 DEF StatusOf, SameLife, Agrees
  <2> QED BY <2>3 DEF v
<1>6. ASSUME cache[req] # NoObj, pc = "save"
      PROVE  StatusOf(saved, cache[req], Certificates)
  <2> DEFINE v == saved
  <2>1. /\ v \in CustomCertificate /\ v.fin = cache[req].fin /\ v.deleting = cache[req].deleting
        /\ v.id = rid
    BY <1>2, <1>4, <1>6 DEF CustomCertificate, Messages
  <2> HIDE DEF v
  <2>2. v # NoObj /\ v \in Certificates.objects /\ v \in Certificates.owned
    BY <1>2, <1>6, <2>1, CertificatesParts, NullsAssumption
  <2>3. StatusOf(v, cache[req], Certificates)
    BY <1>2, <1>3, <1>6, <2>1, <2>2 DEF StatusOf, SameLife
  <2> QED BY <2>3 DEF v
<1> HIDE DEF noted, saved
<1>7. FrameInv(Certificates)' /\ LedgerStep(Certificates)
  BY <1>1, <1>2, <1>3, <1>5, <1>6, StatusStep
<1> QED BY <1>1, <1>7 DEF CertificateInv, FoundInv, OtherTypes
-----------------------------------------------------------------------------
(* All steps                                                                *)

\* Every step of the certificate's controller keeps the invariant and is a step of
\* the ledger.
LEMMA NextCertificateInv ==
  ASSUME CertificateInv, [Next]_certVars
  PROVE  CertificateInv' /\ LedgerStep(Certificates)
<1>0. FrameInv(Certificates) /\ IsKind(Certificates) /\ FoundInv
  BY CertificateIsKind DEF CertificateInv
<1>1. ASSUME FrameInv(Certificates)' /\ LedgerStep(Certificates),
             \/ pc' \notin {"validate", "create", "upload", "lookUp", "save"}
             \/ UNCHANGED <<pc, req, rid, input, maker>>,
             OtherTypes'
      PROVE  CertificateInv' /\ LedgerStep(Certificates)
  BY <1>0, <1>1 DEF CertificateInv, FoundInv, OtherTypes
<1>13. UNCHANGED <<secret, givenUp>> => OtherTypes'
  BY DEF CertificateInv, OtherTypes
<1>2. CASE createCertificate
  BY <1>2, ReadSteps, CreateStep, UploadStep, StatusSteps
  DEF createCertificate, CreateCustomCertificate
<1>3. CASE (EnsureFinalizer(api[req]) \/ DropFinalizer(api[req])) /\ UNCHANGED <<secret, givenUp>>
  <2>1. api[req] \in Certificates.objects =>
          api[req] \in Certificates.objects /\ Agrees(api[req], api[req], Certificates)
    BY <1>0, ObjectFacts DEF Agrees, SameLife
  <2>2. FrameInv(Certificates)' /\ LedgerStep(Certificates)
    BY <1>0, <1>3, <2>1, EnsureFinalizerStep, DropFinalizerStep
  <2> QED BY <1>1, <1>13, <1>3, <2>2 DEF EnsureFinalizer, DropFinalizer
<1>4. CASE (MarkReconciling(TRUE) \/ MarkReady(TRUE) \/ MarkError(TRUE)) /\ UNCHANGED <<secret, givenUp>>
  BY <1>0, <1>1, <1>13, <1>4, ConditionSteps DEF MarkReconciling, MarkReady, MarkError
<1>5. CASE InitNginxPMClient(obj.id # NoId) /\ UNCHANGED <<secret, givenUp>>
  <2>1. obj \in Certificates.objects => (obj.id # NoId <=> obj \in Certificates.owned)
    BY CertificatesParts
  <2>2. FrameInv(Certificates)' /\ LedgerStep(Certificates)
    BY <1>0, <1>5, <2>1, InitNginxPMClientStep
  <2> QED BY <1>1, <1>13, <1>5, <2>2 DEF InitNginxPMClient
<1>6. CASE (DeleteRemote \/ Return \/ Crash) /\ UNCHANGED <<secret, givenUp>>
  BY <1>0, <1>1, <1>13, <1>6, DeleteRemoteStep, ReturnStep, CrashStep DEF DeleteRemote, Return, Reset, Crash
<1>7. ASSUME NEW k \in Keys, Take(k) \/ DeliverTo(k)
      PROVE  CertificateInv' /\ LedgerStep(Certificates)
  <2>1. FrameInv(Certificates)' /\ LedgerStep(Certificates)
    BY <1>0, <1>7, DequeueStep, WatchEventStep DEF Take, DeliverTo
  <2>2. OtherTypes'
    BY <1>7 DEF Take, DeliverTo, CertificateInv, OtherTypes
  <2> QED BY <1>1, <1>7, <2>1, <2>2
      DEF Take, DeliverTo, Dequeue, WatchEvent, helperVars, localVars, remoteVars
<1>8. ASSUME NEW k \in Keys, NEW s \in Specs, UserCreate(k, NewCertificate(s)) \/ UserEdit(k, s),
             UNCHANGED <<secret, givenUp>>
      PROVE  CertificateInv' /\ LedgerStep(Certificates)
  <2>1. /\ NewCertificate(s) \in Certificates.objects /\ NewCertificate(s) \notin Certificates.owned
        /\ ~NewCertificate(s).fin /\ ~NewCertificate(s).deleting
    BY CertificatesParts DEF NewCertificate, CustomCertificate, Messages
  <2>2. FrameInv(Certificates)' /\ LedgerStep(Certificates)
    BY <1>0, <1>8, <2>1, UserCreateStep, UserEditStep
  <2> QED BY <1>1, <1>13, <1>8, <2>2 DEF UserCreate, UserEdit, UserWrite, localVars, remoteVars
<1>9. ASSUME NEW k \in Keys, UserDelete(k) \/ Trigger(k), UNCHANGED <<secret, givenUp>>
      PROVE  CertificateInv' /\ LedgerStep(Certificates)
  <2>1. CASE UserDelete(k)
    BY <1>0, <1>1, <1>13, <1>9, <2>1, UserDeleteStep DEF UserDelete, UserWrite, localVars, remoteVars
  <2>2. CASE Trigger(k)
    <3>1. queue' \subseteq Keys
      BY <1>0, <2>2 DEF Trigger, FrameInv, Types, FrameTypeOK
    <3>2. FrameInv(Certificates)' /\ LedgerStep(Certificates)
      BY <1>0, <2>2, <3>1, QueueStep DEF Trigger
    <3> QED BY <1>1, <1>13, <1>9, <2>2, <3>2 DEF Trigger, helperVars, localVars, remoteVars
  <2> QED BY <1>9, <2>1, <2>2
<1>10. ASSUME NEW i \in Ids, AdminRemove(i), UNCHANGED <<secret, givenUp>>
       PROVE  CertificateInv' /\ LedgerStep(Certificates)
  BY <1>0, <1>1, <1>13, <1>10, AdminRemoveStep DEF AdminRemove, helperVars, localVars
<1>11. ASSUME NEW k \in Keys, NEW c \in Secrets, SecretChange(k, c)
       PROVE  CertificateInv' /\ LedgerStep(Certificates)
  <2>1. /\ UNCHANGED <<api, cache, watch, helperVars, localVars, remoteVars>>
        /\ queue' \subseteq Keys /\ ops' = ops + 1
    BY <1>0, <1>11 DEF SecretChange, Op, FrameInv, Types, FrameTypeOK
  <2>2. FrameInv(Certificates)' /\ LedgerStep(Certificates)
    BY <1>0, <2>1, QueueStep
  <2>3. OtherTypes'
    BY <1>11 DEF SecretChange, CertificateInv, OtherTypes
  <2> QED BY <1>1, <2>1, <2>2, <2>3 DEF helperVars, localVars, remoteVars
<1>12. CASE UNCHANGED certVars
  <2>1. UNCHANGED vars /\ UNCHANGED <<pc, req, rid, input, maker, secret, givenUp>>
    BY <1>12 DEF certVars, vars, helperVars, localVars, remoteVars
  <2> QED BY <1>0, <1>1, <2>1, FrameStutters DEF CertificateInv, OtherTypes
<1> QED BY <1>2, <1>3, <1>4, <1>5, <1>6, <1>7, <1>8, <1>9, <1>10, <1>11, <1>12
        DEF Next, Reconcile, Environment

-----------------------------------------------------------------------------
(* The theorems                                                             *)

\* The initial states.
LEMMA CertificateStarts ==
  ASSUME Init
  PROVE  CertificateInv /\ Ledgers(Certificates)!Init
<1>1. OtherTypes
  BY DEF Init, OtherTypes
<1> QED BY <1>1, CertificateIsKind, FrameInitInv DEF CertificateInv, FoundInv, FrameInit, Init

\* What the ledger of the kind holds is what CustomCertificateController's holds.
LEMMA SameHeld ==
  ASSUME NEW f \in [Keys -> CustomCertificate \cup {NoObj}]
  PROVE  [k \in Keys |-> IF f[k] \in Certificates.owned THEN f[k].id ELSE NoId]
         = [k \in Keys |-> IF f[k] # NoObj THEN f[k].id ELSE NoId]
<1>1. ASSUME NEW k \in Keys
      PROVE  (IF f[k] \in Certificates.owned THEN f[k].id ELSE NoId)
             = IF f[k] # NoObj THEN f[k].id ELSE NoId
  BY CertificatesParts, NullsAssumption
<1> QED BY <1>1

\* The two ledgers start alike.
LEMMA SameStart ==
  ASSUME CertificateInv, Ledgers(Certificates)!Init
  PROVE  Ledger!Init
<1>1. api \in [Keys -> CustomCertificate \cup {NoObj}]
  BY CertificatesParts, FrameTypes DEF CertificateInv
<1>2. Held(Certificates) = [k \in Keys |-> IF Live(k) THEN api[k].id ELSE NoId]
  BY <1>1, SameHeld DEF Held, Live
<1> QED BY <1>2 DEF Ledger!Init, Ledgers!Init, Present, Leaving, AliveIds

\* And their steps are the same.
LEMMA SameSteps ==
  ASSUME CertificateInv, CertificateInv', LedgerStep(Certificates)
  PROVE  [Ledger!Next]_Ledger!ledgerVars
<1>1. /\ Held(Certificates) = [k \in Keys |-> IF Live(k) THEN api[k].id ELSE NoId]
      /\ Held(Certificates)' = [k \in Keys |-> IF Live(k)' THEN api'[k].id ELSE NoId]
  <2>1. api \in [Keys -> CustomCertificate \cup {NoObj}] /\ api' \in [Keys -> CustomCertificate \cup {NoObj}]
    BY CertificatesParts DEF CertificateInv, FrameInv, Types, FrameTypeOK
  <2> QED BY <2>1, SameHeld DEF Held, Live
<1> QED BY <1>1, CertificatesParts
        DEF LedgerStep, Present, Leaving, AliveIds,
            Ledger!ledgerVars, Ledger!Next, Ledger!Others, Ledger!Operator, Ledger!Appear,
            Ledger!Edit, Ledger!Mark, Ledger!Withdraw, Ledger!Outside, Ledger!Create,
            Ledger!Record, Ledger!Disown, Ledger!Removable, Ledger!Remove, Ledger!Abandon,
            Ledger!Leave,
            Ledgers!ledgerVars, Ledgers!Next, Ledgers!Others, Ledgers!Operator, Ledgers!Appear,
            Ledgers!Edit, Ledgers!Mark, Ledgers!Withdraw, Ledgers!Outside, Ledgers!Create,
            Ledgers!Record, Ledgers!Disown, Ledgers!Removable, Ledgers!Remove, Ledgers!Abandon,
            Ledgers!Leave

\* The certificate's controller implements the ledger, though a creation takes
\* four requests and a failed one is not repeated.
THEOREM CustomCertificateLedger == Spec => ImplementsLedger
<1>1. Init => CertificateInv /\ Ledger!Init
  BY CertificateStarts, SameStart
<1>2. CertificateInv /\ [Next]_certVars => CertificateInv' /\ [Ledger!Next]_Ledger!ledgerVars
  BY NextCertificateInv, SameSteps
<1> QED BY <1>1, <1>2, PTL DEF Spec, ImplementsLedger, Ledger!Spec

\* Every stored, cached or delivered certificate, every Secret's content and everything
\* the worker holds has its type.
THEOREM CustomCertificateTypes == Spec => []TypeOK
<1>1. Init => CertificateInv
  BY CertificateStarts
<1>2. CertificateInv /\ [Next]_certVars => CertificateInv'
  BY NextCertificateInv
<1>3. CertificateInv => TypeOK
  BY CertificatesParts DEF CertificateInv, FrameInv, Types, OtherTypes, TypeOK
<1> QED BY <1>1, <1>2, <1>3, PTL DEF Spec

-----------------------------------------------------------------------------
(* A certificate that is recorded is uploaded                               *)

\* What a version records of a certificate is true of the one in NPM.
Sound(x) ==
  x.id # NoId =>
    /\ x.expiresOn \in Pairs
    /\ Alive(x.id) => remote[x.id].files = x.expiresOn

\* Every version is sound, no version records a certificate that is still to be
\* filled, and once it is filled it holds the pair that will be recorded.
SoundInv ==
  /\ \A k \in Keys : \A x \in Seen(k) : x # NoObj =>
       Sound(x) /\ (pc = "upload" => x.id # rid)
  /\ pc \in {"lookUp", "save"} /\ Alive(rid) => remote[rid].files = input

\* Certificates as users make them.
News == {NewCertificate(s) : s \in Specs}

\* The versions of every resource, and whose certificates they record.
LEMMA VersionFacts ==
  ASSUME CertificateInv, NEW k \in Keys, NEW x \in Seen(k), x # NoObj
  PROVE  x \in CustomCertificate /\ (x.id # NoId => x.id \in Ids /\ maker[x.id] = k)
<1>1. x \in CustomCertificate
  <2>1. cache[k] \in CustomCertificate \cup {NoObj}
        /\ watch[k] \in Seq(CustomCertificate \cup {NoObj})
    BY FrameTypes, CertificatesParts DEF CertificateInv
  <2> QED BY <2>1 DEF Seen
<1> QED BY <1>1, CertificatesParts DEF CertificateInv, FrameInv, OwnersInv, CustomCertificate

\* Steps that fill no certificate: what was true of NPM stays so.
LEMMA SoundStays ==
  ASSUME CertificateInv, SoundInv, VersionsKept(Certificates, News, Certificates.objects),
         \A i \in Ids : Alive(i)' => remote'[i] = remote[i],
         \/ pc' \notin {"upload", "lookUp", "save"}
         \/ UNCHANGED <<pc, rid, input>>
         \/ pc = "lookUp" /\ pc' = "save" /\ UNCHANGED <<rid, input>>
  PROVE  SoundInv'
<1>1. ASSUME NEW k \in Keys, NEW x \in Seen(k)', x # NoObj
      PROVE  x \in CustomCertificate /\ Sound(x) /\ (pc = "upload" => x.id # rid)
  <2>1. PICK P : P = {o \in CustomCertificate : Sound(o) /\ (pc = "upload" => o.id # rid)}
    OBVIOUS
  <2>2. P \in SUBSET Certificates.objects
    BY <2>1, CertificatesParts
  <2>3. SeenIn(P)
    BY <2>1, VersionFacts DEF SoundInv, SeenIn
  <2>4. \A v, o \in CustomCertificate :
          o \in P /\ v.id = o.id /\ v.expiresOn = o.expiresOn => v \in P
    BY <2>1 DEF Sound
  <2>5. Closed(P, Certificates.objects)
    <3> SUFFICES ASSUME NEW o \in P
                 PROVE  /\ WithFinalizer(o) \in P
                        /\ [o EXCEPT !.fin = FALSE] \in P /\ [o EXCEPT !.deleting = TRUE] \in P
                        /\ \A s \in Specs : [o EXCEPT !.spec = s] \in P
                        /\ \A type \in ConditionTypes : SetCondition(o, type) \in P
      BY DEF Closed
    <3>1. o \in CustomCertificate
      BY <2>1
    <3>2. /\ WithFinalizer(o) \in CustomCertificate /\ WithFinalizer(o).id = o.id
          /\ WithFinalizer(o).expiresOn = o.expiresOn
      BY <3>1 DEF CustomCertificate, WithFinalizer
    <3>3. ASSUME NEW f \in BOOLEAN
          PROVE  [o EXCEPT !.fin = f] \in P /\ [o EXCEPT !.deleting = f] \in P
      <4>1. /\ [o EXCEPT !.fin = f] \in CustomCertificate /\ [o EXCEPT !.fin = f].id = o.id
            /\ [o EXCEPT !.fin = f].expiresOn = o.expiresOn
            /\ [o EXCEPT !.deleting = f] \in CustomCertificate /\ [o EXCEPT !.deleting = f].id = o.id
            /\ [o EXCEPT !.deleting = f].expiresOn = o.expiresOn
        BY <3>1 DEF CustomCertificate
      <4> QED BY <2>4, <3>1, <4>1
    <3>4. ASSUME NEW s \in Specs
          PROVE  [o EXCEPT !.spec = s] \in P
      <4>1. /\ [o EXCEPT !.spec = s] \in CustomCertificate /\ [o EXCEPT !.spec = s].id = o.id
            /\ [o EXCEPT !.spec = s].expiresOn = o.expiresOn
        BY <3>1 DEF CustomCertificate
      <4> QED BY <2>4, <3>1, <4>1
    <3>5. ASSUME NEW type \in ConditionTypes
          PROVE  SetCondition(o, type) \in P
      <4>1. /\ SetCondition(o, type) \in CustomCertificate /\ SetCondition(o, type).id = o.id
            /\ SetCondition(o, type).expiresOn = o.expiresOn
        BY <3>1 DEF CustomCertificate, SetCondition
      <4> QED BY <2>4, <3>1, <4>1
    <3> QED BY <2>4, <3>1, <3>2, <3>3, <3>4, <3>5
  <2>6. News \subseteq P
    <3>1. ASSUME NEW s \in Specs
          PROVE  NewCertificate(s) \in CustomCertificate /\ NewCertificate(s).id = NoId
      BY DEF NewCertificate, CustomCertificate, Messages
    <3>2. pc = "upload" => rid # NoId
      BY NilIsNoId DEF CertificateInv, FoundInv
    <3> QED BY <2>1, <3>1, <3>2 DEF News, Sound
  <2>7. x \in P
    BY <1>1, <2>2, <2>3, <2>5, <2>6 DEF VersionsKept
  <2> QED BY <2>1, <2>7
<1>2. \A x \in CustomCertificate : Sound(x) => Sound(x)'
  BY DEF Sound, Alive, CustomCertificate
<1>3. pc \in {"lookUp", "save"} => rid \in Ids
  BY DEF CertificateInv, FoundInv
<1>4. pc \in {"lookUp", "save"} /\ remote'[rid] # NoRemote => remote'[rid] = remote[rid] /\ Alive(rid)
  BY <1>3 DEF Alive
<1> QED BY <1>1, <1>2, <1>4 DEF SoundInv, Alive

\* A certificate is made: no version records it yet.
LEMMA CreateSound ==
  ASSUME CertificateInv, SoundInv, CreateEmptyCustomCertificate
  PROVE  SoundInv'
<1> DEFINE v == [niceName |-> obj.spec, files |-> Empty]
<1>1. /\ UNCHANGED <<api, cache, watch>> /\ pc = "create" /\ pc' \in {"upload", "noteCreate"}
      /\ \/ UNCHANGED remote /\ pc' = "noteCreate"
         \/ Post(req, v) /\ (pc' = "upload" => rid' = nextId)
  BY DEF CreateEmptyCustomCertificate, GiveUp, CreateRemote, kubeVars, remoteVars
<1>2. v \in RemoteCertificate
  BY <1>1, WorkerFacts DEF RemoteCertificate, CustomCertificate
<1> HIDE DEF v
<1>3. \A k \in Keys : Seen(k)' = Seen(k)
  BY <1>1 DEF Seen
<1>4. CASE UNCHANGED remote /\ pc' = "noteCreate"
  BY <1>3, <1>4 DEF SoundInv, Sound, Alive
<1>5. CASE Post(req, v) /\ (pc' = "upload" => rid' = nextId)
  <2>1. maker[nextId] = NoKey /\ \A i \in Ids : maker[i] \in Keys => remote'[i] = remote[i]
    BY <1>1, <1>2, <1>5, WorkerFacts, PostKeeps, CertificatesParts
  <2>2. ASSUME NEW k \in Keys, NEW x \in Seen(k), x # NoObj, x.id # NoId
        PROVE  x.id # nextId /\ remote'[x.id] = remote[x.id]
    BY <2>1, <2>2, VersionFacts, KeysAssumption
  <2>3. nextId # NoId
    BY <1>5, NilIsNoId DEF Post
  <2> QED BY <1>1, <1>3, <1>5, <2>2, <2>3 DEF SoundInv, Sound, Alive
<1> QED BY <1>1, <1>4, <1>5

\* It is filled while no version records it.
LEMMA UploadSound ==
  ASSUME CertificateInv, SoundInv, UploadCustomCertificate
  PROVE  SoundInv'
<1>1. /\ UNCHANGED <<api, cache, watch, rid, input>>
      /\ pc = "upload" /\ pc' \in {"lookUp", "noteCreate"}
      /\ pc' = "lookUp" => Alive(rid) /\ Put(rid, Uploaded)
      /\ UNCHANGED remote \/ Put(rid, Uploaded)
  BY DEF UploadCustomCertificate, GiveUp, UpdateRemote, kubeVars, remoteVars
<1>2. /\ rid \in Ids /\ rid # NoId
      /\ remote \in [Ids -> RemoteCertificate \cup {NoRemote}]
  BY <1>1, WorkerFacts, NilIsNoId, CertificatesParts DEF FoundInv, Types, FrameTypeOK
<1>3. \A k \in Keys : Seen(k)' = Seen(k)
  BY <1>1 DEF Seen
<1>4. \A i \in Ids \ {rid} : remote'[i] = remote[i]
  BY <1>1, <1>2 DEF Put
<1>5. ASSUME NEW k \in Keys, NEW x \in Seen(k), x # NoObj
      PROVE  Sound(x)'
  <2>1. Sound(x) /\ x.id # rid /\ (x.id # NoId => x.id \in Ids)
    BY <1>1, <1>5, VersionFacts DEF SoundInv
  <2> QED BY <1>4, <2>1 DEF Sound, Alive
<1>6. pc' = "lookUp" => remote'[rid].files = input
  <2>1. Alive(rid) => remote[rid] \in RemoteCertificate /\ Uploaded.files = input
    BY <1>2 DEF Alive, Uploaded, RemoteCertificate
  <2> QED BY <1>1, <1>2, <2>1 DEF Put
<1> QED BY <1>1, <1>3, <1>5, <1>6 DEF SoundInv

\* What is recorded is the pair that was uploaded.
LEMMA SaveSound ==
  ASSUME CertificateInv, SoundInv, SaveStatus
  PROVE  SoundInv'
<1> DEFINE saved == [Cached EXCEPT !.id = rid, !.status = "Certificate ready", !.expiresOn = input]
<1>1. PICK ok \in BOOLEAN : StatusWrite(saved, TRUE, ok)
  BY DEF SaveStatus
<1>2. /\ pc = "save" /\ pc' \in {"ready", "fail"} /\ UNCHANGED <<cache, remote>>
  BY DEF SaveStatus, remoteVars
<1>3. /\ req \in Keys /\ rid \in Ids /\ input \in Pairs /\ faults \in Nat /\ fresh \in BOOLEAN
      /\ cache[req] # NoObj => cache[req] \in CustomCertificate
  BY <1>2, WorkerFacts, FrameTypes, CertificatesParts DEF FoundInv
<1>4. cache[req] # NoObj =>
        saved \in CustomCertificate /\ saved.id = rid /\ saved.expiresOn = input
  BY <1>3 DEF CustomCertificate, Cached, Messages
<1> HIDE DEF saved
<1>5. UNCHANGED <<api, watch>> \/ (cache[req] # NoObj /\ Publish(req, saved))
  BY <1>1, <1>3, StatusWriteCases
<1>6. ASSUME NEW k \in Keys, NEW x \in Seen(k)', x # NoObj
      PROVE  Sound(x)
  <2>1. CASE UNCHANGED <<api, watch>>
    <3>1. Seen(k)' = Seen(k)
      BY <1>2, <2>1 DEF Seen
    <3> QED BY <1>6, <3>1 DEF SoundInv
  <2>2. CASE cache[req] # NoObj /\ Publish(req, saved)
    <3>1. PICK P : P = {o \in CustomCertificate : Sound(o)}
      OBVIOUS
    <3>2. SeenIn(P)
      BY <3>1, VersionFacts DEF SoundInv, SeenIn
    <3>3. saved \in P
      BY <1>2, <1>3, <1>4, <2>2, <3>1 DEF SoundInv, Sound
    <3>4. saved \in Certificates.objects \cup {NoObj}
      BY <1>4, <2>2, CertificatesParts
    <3>5. Seen(k)' \subseteq P \cup {NoObj}
      BY <1>2, <1>3, <2>2, <3>2, <3>3, <3>4, StoreStays DEF CertificateInv
    <3> QED BY <1>6, <3>1, <3>5
  <2> QED BY <1>5, <2>1, <2>2
<1> QED BY <1>2, <1>6 DEF SoundInv, Sound, Alive

\* A message says nothing of the certificate.
LEMMA NoteSound ==
  ASSUME CertificateInv, SoundInv, NEW at, NEW m \in Messages, NEW next \in {"ready", "fail"},
         Note(at, m, next), at \in {"noteFind", "noteKeys", "noteCreate"}
  PROVE  SoundInv'
<1> DEFINE noted == [Cached EXCEPT !.status = m]
<1>1. PICK ok \in BOOLEAN : StatusWrite(noted, TRUE, ok)
  BY DEF Note
<1>2. pc # "idle" /\ pc' \in {"ready", "fail"} /\ UNCHANGED <<cache, remote>>
  BY DEF Note, remoteVars
<1>3. /\ req \in Keys /\ faults \in Nat /\ fresh \in BOOLEAN
      /\ cache[req] # NoObj => cache[req] \in CustomCertificate
  BY <1>2, WorkerFacts, FrameTypes, CertificatesParts
<1>4. cache[req] # NoObj =>
        /\ noted \in CustomCertificate /\ noted.id = cache[req].id
        /\ noted.expiresOn = cache[req].expiresOn
  BY <1>3 DEF CustomCertificate, Cached
<1> HIDE DEF noted
<1>5. UNCHANGED <<api, watch>> \/ (cache[req] # NoObj /\ Publish(req, noted))
  BY <1>1, <1>3, StatusWriteCases
<1>6. ASSUME NEW k \in Keys, NEW x \in Seen(k)', x # NoObj
      PROVE  Sound(x)
  <2>1. CASE UNCHANGED <<api, watch>>
    <3>1. Seen(k)' = Seen(k)
      BY <1>2, <2>1 DEF Seen
    <3> QED BY <1>6, <3>1 DEF SoundInv
  <2>2. CASE cache[req] # NoObj /\ Publish(req, noted)
    <3>1. PICK P : P = {o \in CustomCertificate : Sound(o)}
      OBVIOUS
    <3>2. SeenIn(P)
      BY <3>1, VersionFacts DEF SoundInv, SeenIn
    <3>3. noted \in P
      <4>1. cache[req] \in Seen(req)
        BY DEF Seen
      <4>2. Sound(cache[req])
        BY <1>3, <2>2, <4>1 DEF SoundInv
      <4> QED BY <1>4, <2>2, <3>1, <4>2 DEF Sound
    <3>4. noted \in Certificates.objects \cup {NoObj}
      BY <1>4, <2>2, CertificatesParts
    <3>5. Seen(k)' \subseteq P \cup {NoObj}
      BY <1>2, <1>3, <2>2, <3>2, <3>3, <3>4, StoreStays DEF CertificateInv
    <3> QED BY <1>6, <3>1, <3>5
  <2> QED BY <1>5, <2>1, <2>2
<1> QED BY <1>2, <1>6 DEF SoundInv, Sound, Alive

\* Every step.
LEMMA NextSound ==
  ASSUME CertificateInv, SoundInv, [Next]_certVars
  PROVE  SoundInv'
<1>0. FrameInv(Certificates) /\ IsKind(Certificates)
  BY CertificateIsKind DEF CertificateInv
<1>1. ASSUME UNCHANGED <<api, cache, watch>>
      PROVE  VersionsKept(Certificates, News, Certificates.objects)
  BY <1>0, <1>1, OutsideVersions
<1>2. ASSUME UNCHANGED remote
      PROVE  \A i \in Ids : Alive(i)' => remote'[i] = remote[i]
  BY <1>2
<1>3. CASE createCertificate
  <2>1. CASE FindCustomCertificateByID \/ getCertificateKeys \/ ValidateCustomCertificate \/ LookUpCreated
    <3>1. UNCHANGED <<api, cache, watch, remote, rid>>
          /\ (pc' \notin {"upload", "lookUp"})
          /\ (pc' = "save" => pc = "lookUp" /\ input' = input)
      BY <2>1
      DEF FindCustomCertificateByID, getCertificateKeys, ValidateCustomCertificate, LookUpCreated,
          GiveUp, kubeVars, remoteVars
    <3> QED BY <1>1, <1>2, <3>1, SoundStays
  <2>2. CASE \/ Note("noteFind", "Failed to find", "fail")
             \/ Note("noteKeys", "Failed to retrieve keys", "fail")
             \/ Note("noteCreate", "Failed to create", "ready")
    BY <2>2, NoteSound DEF Messages
  <2> QED BY <1>3, <2>1, <2>2, CreateSound, UploadSound, SaveSound
          DEF createCertificate, CreateCustomCertificate
<1>4. CASE FrameWrites(api[req], TRUE)
  <2>1. VersionsKept(Certificates, News, Certificates.objects)
    <3>1. pc # "idle"
      BY <1>4
      DEF FrameWrites, MarkReconciling, MarkReady, MarkError, EnsureFinalizer, DropFinalizer
    <3>2. cache[req] # NoObj => cache[req] \in Certificates.objects
      BY <1>0, <3>1, FrameTypes DEF FrameInv, WorkerInv
    <3>3. ASSUME NEW P, api[req] \in P
          PROVE  api[req] \in P /\ api[req].deleting = api[req].deleting
      BY <3>3
    <3> QED BY <1>0, <1>4, <3>2, <3>3, WorkerVersions
  <2>2. UNCHANGED remote /\ pc' \notin {"upload", "lookUp", "save"}
    BY <1>4
    DEF FrameWrites, MarkReconciling, MarkReady, MarkError, EnsureFinalizer, DropFinalizer, remoteVars
  <2> QED BY <1>2, <2>1, <2>2, SoundStays
<1>5. CASE DeleteRemote \/ \E i \in Ids : AdminRemove(i)
  <2>1. /\ UNCHANGED <<api, cache, watch>>
        /\ UNCHANGED remote \/ \E i : remote' = [remote EXCEPT ![i] = NoRemote]
        /\ pc' \notin {"upload", "lookUp", "save"} \/ UNCHANGED <<pc, rid, input>>
    BY <1>5 DEF DeleteRemote, AdminRemove, kubeVars, localVars
  <2>2. \A i \in Ids : Alive(i)' => remote'[i] = remote[i]
    <3>1. remote \in [Ids -> RemoteCertificate \cup {NoRemote}]
      BY CertificatesParts DEF CertificateInv, FrameInv, Types, FrameTypeOK
    <3> QED BY <2>1, <3>1 DEF Alive
  <2> QED BY <1>1, <2>1, <2>2, SoundStays
<1>6. CASE \/ InitNginxPMClient(obj.id # NoId) \/ Return
           \/ \E k \in Keys : Take(k) \/ Trigger(k) \/ \E c \in Secrets : SecretChange(k, c)
           \/ UNCHANGED certVars
  <2>1. /\ UNCHANGED <<api, cache, watch, remote>>
        /\ pc' \notin {"upload", "lookUp", "save"} \/ UNCHANGED <<pc, rid, input>>
    BY <1>6
    DEF InitNginxPMClient, Return, Reset, Take, Dequeue, Trigger, SecretChange, certVars, vars,
        kubeVars, localVars, remoteVars
  <2> QED BY <1>1, <1>2, <2>1, SoundStays
<1>7. CASE \/ \E k \in Keys :
                \/ \E s \in Specs : UserCreate(k, NewCertificate(s)) \/ UserEdit(k, s)
                \/ UserDelete(k) \/ DeliverTo(k)
           \/ Crash
  <2>1. /\ UNCHANGED remote
        /\ pc' \notin {"upload", "lookUp", "save"} \/ UNCHANGED <<pc, rid, input>>
    BY <1>7
    DEF UserCreate, UserEdit, UserDelete, UserWrite, DeliverTo, WatchEvent, Crash, Reset, localVars,
        remoteVars
  <2>2. VersionsKept(Certificates, News, Certificates.objects)
    BY <1>0, <1>7, OutsideVersions DEF News, DeliverTo
  <2> QED BY <1>2, <2>1, <2>2, SoundStays
<1> QED BY <1>3, <1>4, <1>5, <1>6, <1>7 DEF Next, Reconcile, Environment, FrameWrites

\* A certificate that a resource records was uploaded, and its expiry is that
\* of the files in NPM: none of the empty certificates that a failed or
\* interrupted creation leaves behind is ever recorded.
THEOREM RecordsAreUploaded == Spec => []RecordedIsUploaded
<1>1. Init => CertificateInv /\ SoundInv
  <2> SUFFICES ASSUME Init
               PROVE  CertificateInv /\ SoundInv
    OBVIOUS
  <2>1. CertificateInv
    BY CertificateStarts
  <2>2. \A k \in Keys : Seen(k) = {NoObj}
    <3>1. CacheFollows /\ \A k \in Keys : Fresh(k) /\ api[k] = NoObj
      BY DEF Init, FrameInit, CacheFollows, Fresh
    <3> QED BY <3>1, FreshSeen
  <2> QED BY <2>1, <2>2 DEF SoundInv, Init, FrameInit
<1>2. CertificateInv /\ SoundInv /\ [Next]_certVars => CertificateInv' /\ SoundInv'
  BY NextCertificateInv, NextSound
<1>3. CertificateInv /\ SoundInv => RecordedIsUploaded
  <2> SUFFICES ASSUME CertificateInv, SoundInv, NEW k \in Keys, Live(k), api[k].id # NoId
               PROVE  Sound(api[k])
    BY DEF RecordedIsUploaded, Sound
  <2>1. api[k] \in Seen(k)
    BY FrameTypes, StoredIsSeen DEF CertificateInv
  <2> QED BY <2>1 DEF SoundInv, Live
<1> QED BY <1>1, <1>2, <1>3, PTL DEF Spec
==============================================================================
