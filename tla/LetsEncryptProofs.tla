----------------------------- MODULE LetsEncryptProofs -----------------------------
(***************************************************************************)
(* Theorems about LetsEncryptCertificateController and, from the same      *)
(* facts on least numbers, about the choices of Selection, for every value *)
(* of the constants.                                                       *)
(***************************************************************************)
EXTENDS LetsEncryptCertificateController, Selection, FrameProofs, FiniteSetTheorems,
        WellFoundedInduction

\* A resource owns the certificate that its status records, unless it is bound
\* to one that it did not request.
OwnCertificates ==
  [objects |-> LetsEncryptCertificate,
   owned |-> {o \in LetsEncryptCertificate : o.id # NoId /\ ~o.bound},
   remote |-> RemoteCertificate, inputs |-> Answers, pcs |-> PCs, disowns |-> TRUE]

\* What the worker records is a certificate made for its resource, or it says
\* that it is bound.
FoundInv ==
  pc = "save" => rid \in Ids /\ input \in Answers /\ (~input.bound => maker[rid] = req)

OtherTypes == credentials \in [Keys -> BOOLEAN] /\ givenUp \subseteq Keys

CertificateInv == FrameInv(OwnCertificates) /\ FoundInv /\ OtherTypes

\* The parts of the kind.
LEMMA CertificatesParts ==
  /\ OwnCertificates.objects = LetsEncryptCertificate
  /\ OwnCertificates.remote = RemoteCertificate /\ OwnCertificates.inputs = Answers
  /\ OwnCertificates.pcs = PCs /\ OwnCertificates.disowns = TRUE
  /\ \A o \in LetsEncryptCertificate : o \in OwnCertificates.owned <=> o.id # NoId /\ ~o.bound
  /\ OwnCertificates.owned \subseteq LetsEncryptCertificate
BY DEF OwnCertificates

\* A certificate as a kind of the frame.
LEMMA CertificateIsKind == IsKind(OwnCertificates)
<1>1. \A o \in LetsEncryptCertificate : o # NoObj
  BY NullsAssumption
<1>2. {"idle", "finalizer", "reconciling", "client", "delete", "removeFinalizer", "find", "fail",
       "done", "requeue"} \subseteq PCs
  BY DEF PCs
<1>3. \A v, o \in LetsEncryptCertificate :
        v.fin = o.fin /\ v.deleting = o.deleting /\ v.id = o.id /\ v.bound = o.bound
          => Agrees(v, o, OwnCertificates)
  BY <1>1, CertificatesParts DEF Agrees, SameLife
<1>4. ASSUME NEW o \in LetsEncryptCertificate, NEW type \in ConditionTypes
      PROVE  /\ SetCondition(o, type) \in LetsEncryptCertificate
             /\ Agrees(SetCondition(o, type), o, OwnCertificates)
  <2> DEFINE v == SetCondition(o, type)
  <2>1. /\ v \in LetsEncryptCertificate /\ v.fin = o.fin /\ v.deleting = o.deleting
        /\ v.id = o.id /\ v.bound = o.bound
    BY DEF LetsEncryptCertificate, SetCondition
  <2> HIDE DEF v
  <2>2. v \in LetsEncryptCertificate /\ Agrees(v, o, OwnCertificates)
    BY <1>3, <2>1
  <2> QED BY <2>2 DEF v
<1>5. ASSUME NEW o \in LetsEncryptCertificate, NEW s \in Specs
      PROVE  /\ [o EXCEPT !.spec = s] \in LetsEncryptCertificate
             /\ Agrees([o EXCEPT !.spec = s], o, OwnCertificates)
  <2> DEFINE v == [o EXCEPT !.spec = s]
  <2>1. /\ v \in LetsEncryptCertificate /\ v.fin = o.fin /\ v.deleting = o.deleting
        /\ v.id = o.id /\ v.bound = o.bound
    BY DEF LetsEncryptCertificate
  <2> HIDE DEF v
  <2>2. v \in LetsEncryptCertificate /\ Agrees(v, o, OwnCertificates)
    BY <1>3, <2>1
  <2> QED BY <2>2 DEF v
<1>6. ASSUME NEW o \in LetsEncryptCertificate
      PROVE  /\ o.fin \in BOOLEAN /\ o.deleting \in BOOLEAN
             /\ LET v == WithFinalizer(o)
                IN  /\ v \in LetsEncryptCertificate /\ v.fin /\ v.deleting = o.deleting /\ v.id = o.id
                    /\ v \in OwnCertificates.owned <=> o \in OwnCertificates.owned
             /\ LET v == [o EXCEPT !.deleting = TRUE]
                IN  /\ v \in LetsEncryptCertificate /\ v.fin = o.fin /\ v.deleting /\ v.id = o.id
                    /\ v \in OwnCertificates.owned <=> o \in OwnCertificates.owned
  <2> DEFINE v == WithFinalizer(o)
             w == [o EXCEPT !.deleting = TRUE]
  <2>1. /\ o.fin \in BOOLEAN /\ o.deleting \in BOOLEAN
        /\ v \in LetsEncryptCertificate /\ v.fin /\ v.deleting = o.deleting /\ v.id = o.id
        /\ v.bound = o.bound
        /\ w \in LetsEncryptCertificate /\ w.fin = o.fin /\ w.deleting /\ w.id = o.id
        /\ w.bound = o.bound
    BY DEF LetsEncryptCertificate, WithFinalizer
  <2> HIDE DEF v, w
  <2>2. /\ v \in OwnCertificates.owned <=> o \in OwnCertificates.owned
        /\ w \in OwnCertificates.owned <=> o \in OwnCertificates.owned
    BY <2>1, CertificatesParts
  <2> QED BY <2>1, <2>2 DEF v, w
<1>7. \A o \in OwnCertificates.owned : o.id \in Ids
  BY CertificatesParts DEF LetsEncryptCertificate
<1> QED BY <1>2, <1>4, <1>5, <1>6, <1>7, CertificatesParts, NullsAssumption DEF IsKind

-----------------------------------------------------------------------------
(* The search in NPM                                                        *)

\* Every set of ids that is not empty has a least one.
LEMMA HasLeast ==
  ASSUME NEW S, S \subseteq Nat, S # {}
  PROVE  \E i \in S : \A j \in S : i <= j
<1> DEFINE Less == {p \in Nat \X Nat : p[1] < p[2]}
<1>1. IsWellFoundedOn(Less, Nat)
  BY NatLessThanWellFounded, Zenon DEF OpToRel
<1>2. \A i, j \in S : j < i => <<j, i>> \in Less
  OBVIOUS
<1> HIDE DEF Less
<1>3. PICK i \in S : \A j \in S : ~(<<j, i>> \in Less)
  BY <1>1, WFMin
<1>4. \A j \in S : ~(j < i)
  BY <1>2, <1>3, Zenon
<1> QED BY <1>4

\* What the search finds for a domain, or for all of them, is in NPM.
LEMMA FoundIsListed ==
  ASSUME NEW list, DOMAIN list \subseteq Nat, NEW domains,
         Search!ExistingCertificate(list, domains) # Search!Nil
  PROVE  LET found == Search!ExistingCertificate(list, domains)
         IN  found \in DOMAIN list /\ list[found] # NoRemote
<1>1. PICK d : Search!ExistingCertificate(list, domains) = Search!FindLetEncryptCertificate(list, d)
  BY DEF Search!ExistingCertificate
<1> DEFINE S == {i \in Search!Certificates(list) :
                   list[i].provider = "letsencrypt"
                   /\ \E n \in list[i].names : Search!MatchedDomain(n, d)}
<1>2. S \subseteq DOMAIN list /\ \A i \in S : list[i] # NoRemote
  BY DEF Search!Certificates
<1>3. Search!FindLetEncryptCertificate(list, d) = Search!FirstOf(S)
  BY DEF Search!FindLetEncryptCertificate
<1> HIDE DEF S
<1>4. S # {}
  BY <1>1, <1>3 DEF Search!FirstOf
<1>5. Search!FirstOf(S) \in S
  BY <1>2, <1>4, HasLeast DEF Search!FirstOf, Search!Min
<1> QED BY <1>1, <1>2, <1>3, <1>5


-----------------------------------------------------------------------------
(* The calls of createCertificate                                           *)

\* The worker's copy, while it works.
LEMMA WorkerFacts ==
  ASSUME CertificateInv, pc # "idle"
  PROVE  /\ IsKind(OwnCertificates) /\ FrameInv(OwnCertificates) /\ FoundInv /\ Types(OwnCertificates)
         /\ OwnersInv(OwnCertificates)
         /\ req \in Keys /\ obj \in LetsEncryptCertificate /\ faults \in Nat
         /\ rid \in Ids \cup {NoId} /\ input \in Answers \cup {NoInput}
         /\ remote \in [Ids -> RemoteCertificate \cup {NoRemote}]
<1>1. /\ req \in Keys /\ obj \in LetsEncryptCertificate /\ faults \in Nat
      /\ rid \in Ids \cup {NoId} /\ input \in Answers \cup {NoInput}
      /\ remote \in [Ids -> RemoteCertificate \cup {NoRemote}]
  BY CertificatesParts DEF CertificateInv, FrameInv, WorkerInv, Types, FrameTypeOK
<1> QED BY <1>1, CertificateIsKind DEF CertificateInv, FrameInv

\* Steps that neither touch stored objects nor record anything.
LEMMA CallStep ==
  ASSUME CertificateInv, RemoteEffect(OwnCertificates), faults' \in Nat,
         UNCHANGED <<kubeVars, req, obj, fresh, marked, ops, credentials>>,
         givenUp' \in {givenUp, givenUp \cup {req}},
         pc \in {"find", "credentials", "search", "request"},
         pc' \in {"credentials", "search", "request", "save", "ready", "fail"},
         rid' \in Ids \cup {NoId}, input' \in Answers \cup {NoInput}, FoundInv'
  PROVE  CertificateInv' /\ LedgerStep(OwnCertificates)
<1>1. /\ Creating /\ pc' \in OwnCertificates.pcs /\ pc # "idle" /\ Creating'
  BY CertificatesParts DEF Creating, PCs
<1>2. FrameInv(OwnCertificates)' /\ LedgerStep(OwnCertificates)
  BY <1>1, WorkerFacts, WorkStep, CertificatesParts
<1>3. OtherTypes'
  BY <1>1, WorkerFacts DEF CertificateInv, OtherTypes
<1> QED BY <1>2, <1>3 DEF CertificateInv

\* The calls before the search.
LEMMA ReadSteps ==
  ASSUME CertificateInv, FindLetEncryptCertificateByID \/ getDnsChallengeProviderCredentials
  PROVE  CertificateInv' /\ LedgerStep(OwnCertificates)
<1>1. /\ UNCHANGED <<kubeVars, req, obj, fresh, marked, rid, input, remoteVars, ops, credentials>>
      /\ givenUp' = givenUp
      /\ pc \in {"find", "credentials"} /\ pc' \in {"ready", "credentials", "search", "fail"}
      /\ UNCHANGED faults \/ Fault("npm")
  BY DEF FindLetEncryptCertificateByID, getDnsChallengeProviderCredentials, helperVars
<1>2. faults' \in Nat
  BY <1>1, WorkerFacts, FaultKeeps
<1>3. RemoteEffect(OwnCertificates) /\ FoundInv'
  BY <1>1 DEF RemoteEffect, FoundInv
<1>4. rid' \in Ids \cup {NoId} /\ input' \in Answers \cup {NoInput}
  BY <1>1, WorkerFacts
<1> QED BY <1>1, <1>2, <1>3, <1>4, CallStep

\* A certificate that is found is one of NPM's, and the resource is bound to it.
LEMMA SearchStep ==
  ASSUME CertificateInv, SearchExisting
  PROVE  CertificateInv' /\ LedgerStep(OwnCertificates)
<1> DEFINE found == Search!ExistingCertificate(remote, obj.spec.domainNames)
<1>0. pc = "search"
  BY DEF SearchExisting
<1>1. /\ UNCHANGED <<kubeVars, req, obj, fresh, marked, remoteVars, ops, credentials>>
      /\ \/ pc' = "request" /\ UNCHANGED <<rid, input, givenUp, faults>>
         \/ /\ found # Search!Nil /\ pc' = "save" /\ rid' = found
            /\ input' = [bound |-> TRUE, domainNames |-> remote[found].names]
            /\ UNCHANGED <<givenUp, faults>>
         \/ Fault("npm") /\ GiveUp /\ UNCHANGED <<rid, input>>
  BY DEF SearchExisting
<1>2. found # Search!Nil => found \in Ids /\ remote[found] # NoRemote
  <2>1. DOMAIN remote = Ids /\ Ids \subseteq Nat
    BY <1>0, WorkerFacts, FrameAssumption DEF Ids
  <2> QED BY <2>1, FoundIsListed
<1> HIDE DEF found
<1>3. pc' = "save" => rid' \in Ids /\ input' \in Answers /\ input'.bound
  <2>1. found # Search!Nil => remote[found].names \in SUBSET Domains
    BY <1>0, <1>2, WorkerFacts DEF RemoteCertificate
  <2> SUFFICES ASSUME pc' = "save"
               PROVE  rid' \in Ids /\ input' \in Answers /\ input'.bound
    OBVIOUS
  <2>2. /\ found # Search!Nil /\ rid' = found
        /\ input' = [bound |-> TRUE, domainNames |-> remote[found].names]
    BY <1>1 DEF GiveUp
  <2>3. input' \in Answers /\ input'.bound
    BY <2>1, <2>2 DEF Answers
  <2> QED BY <1>2, <2>2, <2>3
<1>4. faults' \in Nat
  BY <1>0, <1>1, WorkerFacts, FaultKeeps
<1>5. RemoteEffect(OwnCertificates) /\ FoundInv'
  BY <1>1, <1>3 DEF RemoteEffect, FoundInv
<1>6. rid' \in Ids \cup {NoId} /\ input' \in Answers \cup {NoInput}
  BY <1>0, <1>1, <1>3, WorkerFacts DEF GiveUp
<1>7. /\ pc' \in {"credentials", "search", "request", "save", "ready", "fail"}
      /\ givenUp' \in {givenUp, givenUp \cup {req}}
  BY <1>1 DEF GiveUp
<1> QED BY <1>0, <1>1, <1>4, <1>5, <1>6, <1>7, CallStep

\* What NPM issues has the domains it was asked for.
LEMMA IssuedType ==
  ASSUME NEW list \in Requested
  PROVE  Issued(list) \in RemoteCertificate
<1>1. {list[i] : i \in DOMAIN list} \subseteq Domains
  BY DEF Domains
<1> QED BY <1>1 DEF Issued, RemoteCertificate

\* A certificate is requested for this resource.
LEMMA RequestStep ==
  ASSUME CertificateInv, RequestCertificate
  PROVE  CertificateInv' /\ LedgerStep(OwnCertificates)
<1> DEFINE v == Issued(obj.spec.domainNames)
<1>0. pc = "request"
  BY DEF RequestCertificate
<1>1. PICK ok \in BOOLEAN :
        /\ UNCHANGED <<kubeVars, req, obj, fresh, marked, ops, credentials>>
        /\ CreateRemote(v, FALSE, ok)
        /\ rid' = (IF ok THEN nextId ELSE NoId)
        /\ input' = (IF ok THEN [bound |-> FALSE, domainNames |-> v.names] ELSE NoInput)
        /\ IF ok THEN pc' = "save" /\ UNCHANGED givenUp
           ELSE pc' = "ready" /\ givenUp' = givenUp \cup {req}
  BY DEF RequestCertificate, GiveUp
<1>2. v \in RemoteCertificate /\ v.names \in SUBSET Domains
  <2>1. obj.spec.domainNames \in Requested
    BY <1>0, WorkerFacts DEF LetsEncryptCertificate, Requested
  <2>2. v \in RemoteCertificate
    BY <2>1, IssuedType
  <2> QED BY <2>2 DEF RemoteCertificate
<1> HIDE DEF v
<1>3. RemoteEffect(OwnCertificates) /\ faults' \in Nat
  BY <1>0, <1>1, <1>2, WorkerFacts, RequestEffects, CertificatesParts
<1>4. ASSUME ok
      PROVE  nextId \in Ids /\ maker'[nextId] = req
  <2>1. Post(req, v)
    BY <1>1, <1>4 DEF CreateRemote
  <2>2. nextId \in Ids /\ maker' = [maker EXCEPT ![nextId] = req]
    BY <1>0, <1>2, <2>1, WorkerFacts, PostKeeps, CertificatesParts
  <2> QED BY <1>0, <2>2, WorkerFacts DEF Types, FrameTypeOK
<1>5. ok => input' \in Answers
  BY <1>1, <1>2 DEF Answers
<1>6. FoundInv'
  BY <1>0, <1>1, <1>4, <1>5 DEF FoundInv
<1>7. rid' \in Ids \cup {NoId} /\ input' \in Answers \cup {NoInput}
  BY <1>0, <1>1, <1>4, <1>5
<1> QED BY <1>0, <1>1, <1>3, <1>6, <1>7, CallStep

\* The record of the certificate.
LEMMA SaveStep ==
  ASSUME CertificateInv, SaveStatus
  PROVE  CertificateInv' /\ LedgerStep(OwnCertificates)
<1>1. /\ UNCHANGED <<cache, queue, req, marked, rid, input, remoteVars, ops, credentials, givenUp>>
      /\ pc = "save" /\ pc' \in {"ready", "fail"}
  BY DEF SaveStatus
<1>2. /\ IsKind(OwnCertificates) /\ FrameInv(OwnCertificates) /\ req \in Keys
      /\ rid \in Ids /\ rid # NoId /\ input \in Answers /\ (~input.bound => maker[rid] = req)
  BY <1>1, WorkerFacts, NilIsNoId DEF FoundInv
<1>3. Creating /\ Creating' /\ pc' \in OwnCertificates.pcs
  BY <1>1, CertificatesParts DEF Creating, PCs
<1>4. ASSUME cache[req] # NoObj
      PROVE  StatusOf(Recorded(Cached), cache[req], OwnCertificates)
  <2> DEFINE v == Recorded(Cached)
  <2>0. cache[req] \in LetsEncryptCertificate /\ Cached = cache[req]
    BY <1>2, <1>4, FrameTypes, CertificatesParts DEF Cached
  <2>1. /\ v \in LetsEncryptCertificate /\ v.fin = cache[req].fin
        /\ v.deleting = cache[req].deleting /\ v.id = rid /\ v.bound = input.bound
    BY <1>2, <2>0 DEF LetsEncryptCertificate, Recorded, Answers
  <2> HIDE DEF v
  <2>2. v # NoObj /\ v \in OwnCertificates.objects /\ (v \in OwnCertificates.owned <=> ~input.bound)
    BY <1>2, <2>1, CertificatesParts, NullsAssumption
  <2>3. StatusOf(v, cache[req], OwnCertificates)
    BY <1>2, <1>3, <1>4, <2>1, <2>2, CertificatesParts DEF StatusOf, SameLife
  <2> QED BY <2>3 DEF v
<1>5. FrameInv(OwnCertificates)' /\ LedgerStep(OwnCertificates)
  <2>1. PICK ok \in BOOLEAN : StatusWrite(Recorded(Cached), ValidStatus(Recorded(Cached)), ok)
    BY DEF SaveStatus
  <2>2. ValidStatus(Recorded(Cached)) \in BOOLEAN
    BY DEF ValidStatus
  <2> QED BY <1>1, <1>2, <1>3, <1>4, <2>1, <2>2, StatusStep
<1> QED BY <1>1, <1>5 DEF CertificateInv, FoundInv, OtherTypes


-----------------------------------------------------------------------------
(* All steps                                                                *)

\* A certificate that an administrator requests is nobody's.
LEMMA AdminCreateStep ==
  ASSUME CertificateInv, NEW list \in AdminDomains, AdminCreate(list)
  PROVE  FrameInv(OwnCertificates)' /\ LedgerStep(OwnCertificates)
<1> DEFINE v == Issued(list)
<1>0. /\ FrameInv(OwnCertificates) /\ IsKind(OwnCertificates) /\ Types(OwnCertificates)
      /\ ClusterInv(OwnCertificates) /\ WorkerInv(OwnCertificates)
      /\ OwnersInv(OwnCertificates) /\ RemovalInv(OwnCertificates)
      /\ v \in OwnCertificates.remote
  BY CertificateIsKind, CertificatesParts, IssuedType DEF CertificateInv, FrameInv, Requested
<1> HIDE DEF v
<1>1. /\ UNCHANGED <<api, cache, watch, queue, req, obj, fresh, faults, pc, marked, rid, input>>
      /\ ops' = ops + 1 /\ ops' \in Nat /\ Post(NoKey, v)
  BY <1>0, OpCounts DEF AdminCreate, kubeVars, helperVars, localVars, v
<1>2. /\ remote' \in [Ids -> OwnCertificates.remote \cup {NoRemote}] /\ nextId' \in 1 .. MaxRemote + 1
      /\ maker' \in [Ids -> Keys \cup {NoKey}] /\ UNCHANGED abandoned
      /\ nextId \in Ids /\ maker[nextId] = NoKey
      /\ AliveIds' = AliveIds \cup {nextId} /\ maker' = [maker EXCEPT ![nextId] = NoKey]
      /\ \A i \in Ids : i >= nextId' => ~Alive(i)' /\ maker'[i] = NoKey
      /\ \A i \in Ids : maker[i] \in Keys => maker'[i] = maker[i] /\ remote'[i] = remote[i]
  BY <1>0, <1>1, PostKeeps
<1>3. maker' = maker
  BY <1>0, <1>2 DEF Types, FrameTypeOK
<1>4. ClusterInv(OwnCertificates)' /\ \A k \in Keys : Seen(k)' = Seen(k)
  BY <1>0, <1>1, QuietCluster
<1>5. Types(OwnCertificates)' /\ WorkerInv(OwnCertificates)'
  BY <1>0, <1>1, <1>2, <1>4 DEF Types, FrameTypeOK, WorkerInv, Creating, Fresh
<1>6. \A o \in OwnCertificates.owned : o.id \in Ids
  BY <1>0 DEF IsKind
<1>7. OwnersInv(OwnCertificates)'
  BY <1>0, <1>1, <1>2, <1>3, <1>4, <1>6 DEF OwnersInv
<1>8. RemovalInv(OwnCertificates)'
  <2>1. pc # "idle" => req \in Keys
    BY <1>0 DEF WorkerInv
  <2> QED BY <1>0, <1>1, <1>2, <1>6, <2>1 DEF OwnersInv, RemovalInv, Alive
<1>9. UNCHANGED <<Present, Leaving, Held(OwnCertificates)>>
  BY <1>1 DEF Present, Leaving, Held, Live
<1>10. LedgerStep(OwnCertificates)
  <2>1. Ledgers(OwnCertificates)!Outside(nextId)
    BY <1>2, <1>3, <1>9 DEF Ledgers!Outside
  <2> QED BY <1>1, <1>2, <2>1 DEF LedgerStep, Ledgers!Next, Ledgers!Others
<1> QED BY <1>4, <1>5, <1>7, <1>8, <1>10 DEF FrameInv

\* Every step of the reconciler keeps the invariant and is a step of the ledger.
LEMMA NextCertificateInv ==
  ASSUME CertificateInv, [Next]_lecVars
  PROVE  CertificateInv' /\ LedgerStep(OwnCertificates)
<1> DEFINE OwnVars == <<credentials, givenUp>>
<1>0. FrameInv(OwnCertificates) /\ IsKind(OwnCertificates) /\ FoundInv
  BY CertificateIsKind DEF CertificateInv
<1>1. ASSUME FrameInv(OwnCertificates)' /\ LedgerStep(OwnCertificates),
             pc' # "save" \/ UNCHANGED <<pc, req, rid, input, maker>>,
             OtherTypes'
      PROVE  CertificateInv' /\ LedgerStep(OwnCertificates)
  BY <1>0, <1>1 DEF CertificateInv, FoundInv, OtherTypes
<1>2. UNCHANGED OwnVars => OtherTypes'
  BY DEF CertificateInv, OtherTypes
<1>3. CASE createCertificate
  BY <1>3, ReadSteps, SearchStep, RequestStep, SaveStep DEF createCertificate
<1>4. CASE (EnsureFinalizer(api[req]) \/ DropFinalizer(api[req])) /\ UNCHANGED OwnVars
  <2>1. api[req] \in OwnCertificates.objects =>
          api[req] \in OwnCertificates.objects /\ Agrees(api[req], api[req], OwnCertificates)
    BY <1>0, ObjectFacts DEF Agrees, SameLife
  <2>2. FrameInv(OwnCertificates)' /\ LedgerStep(OwnCertificates)
    BY <1>0, <1>4, <2>1, EnsureFinalizerStep, DropFinalizerStep
  <2> QED BY <1>1, <1>2, <1>4, <2>2 DEF EnsureFinalizer, DropFinalizer
<1>5. ASSUME NEW accepted \in BOOLEAN, UNCHANGED OwnVars,
             MarkReconciling(accepted) \/ MarkReady(accepted) \/ MarkError(accepted)
      PROVE  CertificateInv' /\ LedgerStep(OwnCertificates)
  BY <1>0, <1>1, <1>2, <1>5, ConditionSteps DEF MarkReconciling, MarkReady, MarkError
<1>6. CASE InitNginxPMClient(obj.id # NoId /\ ~obj.bound) /\ UNCHANGED OwnVars
  <2>1. obj \in OwnCertificates.objects =>
          (obj.id # NoId /\ ~obj.bound <=> obj \in OwnCertificates.owned)
    BY CertificatesParts
  <2>2. FrameInv(OwnCertificates)' /\ LedgerStep(OwnCertificates)
    BY <1>0, <1>6, <2>1, InitNginxPMClientStep
  <2> QED BY <1>1, <1>2, <1>6, <2>2 DEF InitNginxPMClient
<1>7. CASE (DeleteRemote \/ Return \/ Crash) /\ UNCHANGED OwnVars
  BY <1>0, <1>1, <1>2, <1>7, DeleteRemoteStep, ReturnStep, CrashStep
  DEF DeleteRemote, Return, Reset, Crash
<1>8. ASSUME NEW k \in Keys, Take(k) \/ DeliverTo(k)
      PROVE  CertificateInv' /\ LedgerStep(OwnCertificates)
  <2>1. FrameInv(OwnCertificates)' /\ LedgerStep(OwnCertificates)
    BY <1>0, <1>8, DequeueStep, WatchEventStep DEF Take, DeliverTo
  <2>2. OtherTypes'
    BY <1>8 DEF Take, DeliverTo, CertificateInv, OtherTypes
  <2> QED BY <1>1, <1>8, <2>1, <2>2
      DEF Take, DeliverTo, Dequeue, WatchEvent, helperVars, localVars, remoteVars
<1>9. ASSUME NEW k \in Keys, NEW s \in Specs, UserCreate(k, NewCertificate(s)) \/ UserEdit(k, s),
             UNCHANGED OwnVars
      PROVE  CertificateInv' /\ LedgerStep(OwnCertificates)
  <2>1. /\ NewCertificate(s) \in OwnCertificates.objects /\ NewCertificate(s) \notin OwnCertificates.owned
        /\ ~NewCertificate(s).fin /\ ~NewCertificate(s).deleting
    BY CertificatesParts DEF NewCertificate, LetsEncryptCertificate
  <2>2. FrameInv(OwnCertificates)' /\ LedgerStep(OwnCertificates)
    BY <1>0, <1>9, <2>1, UserCreateStep, UserEditStep
  <2> QED BY <1>1, <1>2, <1>9, <2>2 DEF UserCreate, UserEdit, UserWrite, localVars, remoteVars
<1>10. ASSUME NEW k \in Keys, UserDelete(k), UNCHANGED OwnVars
       PROVE  CertificateInv' /\ LedgerStep(OwnCertificates)
  BY <1>0, <1>1, <1>2, <1>10, UserDeleteStep DEF UserDelete, UserWrite, localVars, remoteVars
<1>11. ASSUME NEW k \in Keys, Trigger(k), UNCHANGED OwnVars
       PROVE  CertificateInv' /\ LedgerStep(OwnCertificates)
  <2>1. queue' \subseteq Keys
    BY <1>0, <1>11 DEF Trigger, FrameInv, Types, FrameTypeOK
  <2>2. FrameInv(OwnCertificates)' /\ LedgerStep(OwnCertificates)
    BY <1>0, <1>11, <2>1, QueueStep DEF Trigger
  <2> QED BY <1>1, <1>2, <1>11, <2>2 DEF Trigger, helperVars, localVars, remoteVars
<1>12. ASSUME NEW list \in AdminDomains, AdminCreate(list), UNCHANGED OwnVars
       PROVE  CertificateInv' /\ LedgerStep(OwnCertificates)
  <2>1. FrameInv(OwnCertificates)' /\ LedgerStep(OwnCertificates)
    BY <1>12, AdminCreateStep
  <2>2. /\ UNCHANGED <<pc, req, rid, input>>
        /\ maker' = [maker EXCEPT ![nextId] = NoKey] /\ nextId \in Ids
        /\ maker \in [Ids -> Keys \cup {NoKey}] /\ maker[nextId] = NoKey
    BY <1>0, <1>12 DEF AdminCreate, Post, helperVars, localVars, FrameInv, Types, FrameTypeOK,
                       OwnersInv, Ids
  <2>3. maker' = maker
    BY <2>2
  <2> QED BY <1>1, <1>2, <1>12, <2>1, <2>2, <2>3
<1>13. ASSUME NEW i \in Ids, AdminRemove(i), UNCHANGED OwnVars
       PROVE  CertificateInv' /\ LedgerStep(OwnCertificates)
  BY <1>0, <1>1, <1>2, <1>13, AdminRemoveStep DEF AdminRemove, helperVars, localVars
<1>14. ASSUME NEW k \in Keys, CredentialsChange(k)
       PROVE  CertificateInv' /\ LedgerStep(OwnCertificates)
  <2>1. /\ UNCHANGED <<api, cache, watch, helperVars, localVars, remoteVars>>
        /\ queue' \subseteq Keys /\ ops' = ops + 1
    BY <1>0, <1>14 DEF CredentialsChange, Op, FrameInv, Types, FrameTypeOK
  <2>2. FrameInv(OwnCertificates)' /\ LedgerStep(OwnCertificates)
    BY <1>0, <2>1, QueueStep
  <2>3. OtherTypes'
    BY <1>14 DEF CredentialsChange, CertificateInv, OtherTypes
  <2> QED BY <1>1, <2>1, <2>2, <2>3 DEF helperVars, localVars, remoteVars
<1>15. CASE UNCHANGED lecVars
  <2>1. UNCHANGED vars /\ UNCHANGED <<pc, req, rid, input, maker, credentials, givenUp>>
    BY <1>15 DEF lecVars, vars, helperVars, localVars, remoteVars
  <2> QED BY <1>0, <1>1, <2>1, FrameStutters DEF CertificateInv, OtherTypes
<1>16. ValidStatus(Cached) \in BOOLEAN
  BY DEF ValidStatus
<1> QED BY <1>3, <1>4, <1>5, <1>6, <1>7, <1>8, <1>9, <1>10, <1>11, <1>12, <1>13, <1>14, <1>15, <1>16
        DEF Next, Reconcile, Environment


-----------------------------------------------------------------------------
(* The theorems                                                             *)

\* The initial states.
LEMMA CertificateStarts ==
  ASSUME Init
  PROVE  CertificateInv /\ Ledgers(OwnCertificates)!Init
<1>1. OtherTypes
  BY DEF Init, OtherTypes
<1> QED BY <1>1, CertificateIsKind, FrameInitInv DEF CertificateInv, FoundInv, FrameInit, Init

\* What the ledger of the kind holds is what LetsEncryptCertificateController's
\* holds.
LEMMA SameHeld ==
  ASSUME NEW f \in [Keys -> LetsEncryptCertificate \cup {NoObj}]
  PROVE  [k \in Keys |-> IF f[k] \in OwnCertificates.owned THEN f[k].id ELSE NoId]
         = [k \in Keys |-> IF f[k] # NoObj /\ ~f[k].bound THEN f[k].id ELSE NoId]
<1>1. ASSUME NEW k \in Keys
      PROVE  (IF f[k] \in OwnCertificates.owned THEN f[k].id ELSE NoId)
             = IF f[k] # NoObj /\ ~f[k].bound THEN f[k].id ELSE NoId
  BY CertificatesParts, NullsAssumption
<1> QED BY <1>1

\* The two ledgers start alike.
LEMMA SameStart ==
  ASSUME CertificateInv, Ledgers(OwnCertificates)!Init
  PROVE  Ledger!Init
<1>1. api \in [Keys -> LetsEncryptCertificate \cup {NoObj}]
  BY CertificatesParts, FrameTypes DEF CertificateInv
<1>2. Held(OwnCertificates) = [k \in Keys |-> IF Live(k) /\ ~api[k].bound THEN api[k].id ELSE NoId]
  BY <1>1, SameHeld DEF Held, Live
<1> QED BY <1>2 DEF Ledger!Init, Ledgers!Init, Present, Leaving, AliveIds

\* And their steps are the same.
LEMMA SameSteps ==
  ASSUME CertificateInv, CertificateInv', LedgerStep(OwnCertificates)
  PROVE  [Ledger!Next]_Ledger!ledgerVars
<1>1. /\ Held(OwnCertificates)
         = [k \in Keys |-> IF Live(k) /\ ~api[k].bound THEN api[k].id ELSE NoId]
      /\ Held(OwnCertificates)'
         = [k \in Keys |-> IF Live(k)' /\ ~api'[k].bound THEN api'[k].id ELSE NoId]
  <2>1. /\ api \in [Keys -> LetsEncryptCertificate \cup {NoObj}]
        /\ api' \in [Keys -> LetsEncryptCertificate \cup {NoObj}]
    BY CertificatesParts DEF CertificateInv, FrameInv, Types, FrameTypeOK
  <2> QED BY <2>1, SameHeld DEF Held, Live
<1> QED BY <1>1, CertificatesParts
        DEF LedgerStep, Present, Leaving, AliveIds,
            Ledger!ledgerVars, Ledger!Next, Ledger!Others, Ledger!Operator, Ledger!Appear,
            Ledger!Edit, Ledger!Mark, Ledger!Withdraw, Ledger!Outside, Ledger!Create,
            Ledger!Record, Ledger!Disown, Ledger!Removable, Ledger!Remove, Ledger!Abandon,
            Ledger!Leave,
            Ledgers!ledgerVars, Ledgers!Next, Ledgers!Others, Ledgers!Operator, Ledgers!Appear,
            Ledgers!Edit, Ledgers!Mark, Ledgers!Withdraw, Ledgers!Outside, Ledgers!Create,
            Ledgers!Record, Ledgers!Disown, Ledgers!Removable, Ledgers!Remove, Ledgers!Abandon,
            Ledgers!Leave

\* The LetsEncryptCertificate reconciler implements the ledger: a certificate
\* that an administrator or another resource requested is adopted, but never
\* removed, and a resource that goes takes its own one with it.
THEOREM LetsEncryptLedger == Spec => ImplementsLedger
<1>1. Init => CertificateInv /\ Ledger!Init
  BY CertificateStarts, SameStart
<1>2. CertificateInv /\ [Next]_lecVars => CertificateInv' /\ [Ledger!Next]_Ledger!ledgerVars
  BY NextCertificateInv, SameSteps
<1> QED BY <1>1, <1>2, PTL DEF Spec, ImplementsLedger, Ledger!Spec

\* Every stored, cached or delivered certificate, what NPM has and everything
\* the worker holds has its type; above all, what the search finds is an id.
THEOREM LetsEncryptTypes == Spec => []TypeOK
<1>1. Init => CertificateInv
  BY CertificateStarts
<1>2. CertificateInv /\ [Next]_lecVars => CertificateInv'
  BY NextCertificateInv
<1>3. CertificateInv => TypeOK
  BY CertificatesParts DEF CertificateInv, FrameInv, Types, OtherTypes, TypeOK
<1> QED BY <1>1, <1>2, <1>3, PTL DEF Spec

-----------------------------------------------------------------------------
(* Ready means issued                                                       *)

\* What i was issued for, if NPM still has it.
IssuedFor(i, names) == i < nextId /\ (Alive(i) => remote[i].names = names)

\* A version that tells the truth: it is Ready only if it has names, and it has
\* names only together with the id of the certificate they belong to.
Truthful(o) ==
  /\ "Ready" \in o.conds => o.domainNames # {}
  /\ o.domainNames # {} => o.id # NoId
  /\ o.id # NoId => IssuedFor(o.id, o.domainNames)

Issuable == {o \in LetsEncryptCertificate : Truthful(o)}

\* So does the worker, about to record one.
AnswerInv == pc = "save" => IssuedFor(rid, input.domainNames)

IssueInv == SeenIn(Issuable) /\ AnswerInv

\* Certificates as users make them.
News == {NewCertificate(s) : s \in Specs}

\* Those to whose status the server lets conditions be added.
Named == {o \in LetsEncryptCertificate : ValidStatus(o)}

\* A step after which every id stands for what it stood for.
NamesKept ==
  \A i \in Ids : i < nextId => i < nextId' /\ (Alive(i)' => Alive(i) /\ remote'[i] = remote[i])

\* No write of the frame makes a version untrue.
LEMMA IssuableIsClosed == Closed(Issuable, Named) /\ News \subseteq Issuable
<1>1. \A v, o \in LetsEncryptCertificate :
        /\ o \in Issuable /\ v.id = o.id /\ v.domainNames = o.domainNames
        /\ v.conds = o.conds \/ o.domainNames # {}
        => v \in Issuable
  BY DEF Issuable, Truthful
<1>2. ASSUME NEW o \in Issuable
      PROVE  /\ WithFinalizer(o) \in Issuable
             /\ [o EXCEPT !.fin = FALSE] \in Issuable /\ [o EXCEPT !.deleting = TRUE] \in Issuable
             /\ \A s \in Specs : [o EXCEPT !.spec = s] \in Issuable
             /\ o \in Named => \A type \in ConditionTypes : SetCondition(o, type) \in Issuable
  <2>0. o \in LetsEncryptCertificate
    BY DEF Issuable
  <2>1. /\ WithFinalizer(o) \in LetsEncryptCertificate /\ WithFinalizer(o).id = o.id
        /\ WithFinalizer(o).domainNames = o.domainNames /\ WithFinalizer(o).conds = o.conds
    BY <2>0 DEF LetsEncryptCertificate, WithFinalizer
  <2>2. ASSUME NEW f \in BOOLEAN
        PROVE  [o EXCEPT !.fin = f] \in Issuable /\ [o EXCEPT !.deleting = f] \in Issuable
    <3>1. /\ [o EXCEPT !.fin = f] \in LetsEncryptCertificate /\ [o EXCEPT !.fin = f].id = o.id
          /\ [o EXCEPT !.fin = f].domainNames = o.domainNames
          /\ [o EXCEPT !.fin = f].conds = o.conds
          /\ [o EXCEPT !.deleting = f] \in LetsEncryptCertificate
          /\ [o EXCEPT !.deleting = f].id = o.id
          /\ [o EXCEPT !.deleting = f].domainNames = o.domainNames
          /\ [o EXCEPT !.deleting = f].conds = o.conds
      BY <2>0 DEF LetsEncryptCertificate
    <3> QED BY <1>1, <2>0, <3>1
  <2>3. ASSUME NEW s \in Specs
        PROVE  [o EXCEPT !.spec = s] \in Issuable
    <3>1. /\ [o EXCEPT !.spec = s] \in LetsEncryptCertificate /\ [o EXCEPT !.spec = s].id = o.id
          /\ [o EXCEPT !.spec = s].domainNames = o.domainNames
          /\ [o EXCEPT !.spec = s].conds = o.conds
      BY <2>0 DEF LetsEncryptCertificate
    <3> QED BY <1>1, <2>0, <3>1
  <2>4. ASSUME o \in Named, NEW type \in ConditionTypes
        PROVE  SetCondition(o, type) \in Issuable
    <3>1. /\ SetCondition(o, type) \in LetsEncryptCertificate /\ SetCondition(o, type).id = o.id
          /\ SetCondition(o, type).domainNames = o.domainNames
      BY <2>0 DEF LetsEncryptCertificate, SetCondition
    <3>2. o.domainNames # {}
      BY <2>4 DEF Named, ValidStatus
    <3> QED BY <1>1, <2>0, <3>1, <3>2
  <2> QED BY <1>1, <2>0, <2>1, <2>2, <2>3, <2>4
<1>3. ASSUME NEW s \in Specs
      PROVE  NewCertificate(s) \in Issuable
  <2>1. /\ NewCertificate(s) \in LetsEncryptCertificate /\ NewCertificate(s).conds = {}
        /\ NewCertificate(s).domainNames = {} /\ NewCertificate(s).id = NoId
    BY DEF NewCertificate, LetsEncryptCertificate
  <2> QED BY <2>1 DEF Issuable, Truthful
<1> QED BY <1>2, <1>3 DEF Closed, News

\* What was true stays true when ids keep their meaning.
LEMMA TruthStays ==
  ASSUME NamesKept
  PROVE  /\ \A i \in Ids : \A names : IssuedFor(i, names) => IssuedFor(i, names)'
         /\ Issuable \subseteq Issuable'
<1>1. \A i \in Ids : \A names : IssuedFor(i, names) => IssuedFor(i, names)'
  BY DEF NamesKept, IssuedFor
<1>2. ASSUME NEW o \in Issuable
      PROVE  o \in Issuable'
  <2>1. /\ o \in LetsEncryptCertificate /\ Truthful(o) /\ o.id \in Ids \cup {NoId}
    BY DEF Issuable, LetsEncryptCertificate
  <2>2. o.id # NoId => IssuedFor(o.id, o.domainNames)'
    BY <1>1, <2>1 DEF Truthful
  <2> QED BY <2>1, <2>2 DEF Issuable, Truthful
<1> QED BY <1>1, <1>2

\* The certificates of NPM after a step of anybody: one may be added under the
\* next id, one may go.
LEMMA NamesStay ==
  ASSUME CertificateInv,
         \/ UNCHANGED <<remote, nextId>>
         \/ \E k \in Keys \cup {NoKey} : \E v \in RemoteCertificate : Post(k, v)
         \/ UNCHANGED nextId /\ \E i : remote' = [remote EXCEPT ![i] = NoRemote]
  PROVE  NamesKept
<1>1. /\ Types(OwnCertificates) /\ OwnersInv(OwnCertificates) /\ IsKind(OwnCertificates)
      /\ remote \in [Ids -> RemoteCertificate \cup {NoRemote}] /\ nextId \in Nat /\ Ids \subseteq Nat
  BY CertificateIsKind, CertificatesParts, FrameAssumption
  DEF CertificateInv, FrameInv, Types, FrameTypeOK, Ids
<1>2. CASE UNCHANGED <<remote, nextId>>
  BY <1>2 DEF NamesKept, Alive
<1>3. CASE \E k \in Keys \cup {NoKey} : \E v \in RemoteCertificate : Post(k, v)
  <2>1. nextId' = nextId + 1 /\ \E v : remote' = [remote EXCEPT ![nextId] = v]
    BY <1>3 DEF Post
  <2> QED BY <1>1, <2>1 DEF NamesKept, Alive
<1>4. CASE UNCHANGED nextId /\ \E i : remote' = [remote EXCEPT ![i] = NoRemote]
  BY <1>1, <1>4 DEF NamesKept, Alive
<1> QED BY <1>2, <1>3, <1>4

\* Steps that store nothing untrue and record nothing.
LEMMA OtherIssues ==
  ASSUME CertificateInv, IssueInv, VersionsKept(OwnCertificates, News, Named), NamesKept,
         pc' # "save" \/ UNCHANGED <<pc, rid, input>>
  PROVE  IssueInv'
<1>1. Issuable \in SUBSET OwnCertificates.objects
  BY CertificatesParts DEF Issuable
<1>2. \A j \in Keys : Seen(j)' \subseteq Issuable \cup {NoObj}
  BY <1>1, IssuableIsClosed DEF VersionsKept, IssueInv
<1>3. pc = "save" => rid \in Ids
  BY DEF CertificateInv, FoundInv
<1>4. AnswerInv'
  BY <1>3, TruthStays DEF IssueInv, AnswerInv, IssuedFor, Alive
<1> QED BY <1>2, <1>4, TruthStays DEF IssueInv, SeenIn

\* What the worker learns from NPM is the names of the certificate it found.
LEMMA SearchIssues ==
  ASSUME CertificateInv, IssueInv, SearchExisting
  PROVE  IssueInv'
<1> DEFINE found == Search!ExistingCertificate(remote, obj.spec.domainNames)
<1>1. /\ pc = "search" /\ UNCHANGED <<api, cache, watch, remote, nextId>>
      /\ \/ pc' \in {"request", "ready"}
         \/ /\ found # Search!Nil /\ rid' = found
            /\ input' = [bound |-> TRUE, domainNames |-> remote[found].names]
  BY DEF SearchExisting, GiveUp, kubeVars, remoteVars
<1>2. /\ DOMAIN remote = Ids /\ Ids \subseteq Nat /\ nextId \in Nat
      /\ \A i \in Ids : i >= nextId => ~Alive(i)
  BY <1>1, WorkerFacts, FrameAssumption DEF Ids, Types, FrameTypeOK, OwnersInv
<1>3. found # Search!Nil => found \in Ids /\ Alive(found)
  BY <1>2, FoundIsListed DEF Alive
<1> HIDE DEF found
<1>4. \A i \in Ids : Alive(i) => IssuedFor(i, remote[i].names)
  <2> SUFFICES ASSUME NEW i \in Ids, Alive(i)
               PROVE  i < nextId
    BY DEF IssuedFor
  <2>1. ~(i >= nextId)
    BY <1>2
  <2> QED BY <1>2, <2>1
<1>5. AnswerInv'
  BY <1>1, <1>3, <1>4 DEF AnswerInv, IssuedFor, Alive
<1>6. SeenIn(Issuable)'
  BY <1>1 DEF IssueInv, SeenIn, Seen, Issuable, Truthful, IssuedFor, Alive
<1> QED BY <1>5, <1>6 DEF IssueInv

\* And the names of the one that NPM issued.
LEMMA RequestIssues ==
  ASSUME CertificateInv, IssueInv, RequestCertificate
  PROVE  IssueInv'
<1> DEFINE v == Issued(obj.spec.domainNames)
<1>0. pc = "request" /\ UNCHANGED <<api, cache, watch>>
  BY DEF RequestCertificate, kubeVars
<1>1. PICK ok \in BOOLEAN :
        /\ UNCHANGED <<kubeVars, req, obj, fresh, marked, ops, credentials>>
        /\ CreateRemote(v, FALSE, ok)
        /\ rid' = (IF ok THEN nextId ELSE NoId)
        /\ input' = (IF ok THEN [bound |-> FALSE, domainNames |-> v.names] ELSE NoInput)
        /\ IF ok THEN pc' = "save" /\ UNCHANGED givenUp
           ELSE pc' = "ready" /\ givenUp' = givenUp \cup {req}
  BY DEF RequestCertificate, GiveUp
<1>2. v \in RemoteCertificate /\ req \in Keys
  <2>1. obj.spec.domainNames \in Requested
    BY <1>0, WorkerFacts DEF LetsEncryptCertificate, Requested
  <2> QED BY <1>0, <2>1, IssuedType, WorkerFacts
<1> HIDE DEF v
<1>3. NamesKept
  BY <1>1, <1>2, NamesStay DEF CreateRemote, remoteVars
<1>4. AnswerInv'
  <2> SUFFICES ASSUME pc' = "save"
               PROVE  IssuedFor(rid, input.domainNames)'
    BY DEF AnswerInv
  <2>1. ok /\ rid' = nextId /\ input'.domainNames = v.names
    BY <1>1
  <2>2. Post(req, v)
    BY <1>1, <2>1 DEF CreateRemote
  <2>3. remote'[nextId] = v /\ nextId \in 1 .. MaxRemote + 1
    <3>1. pc # "idle"
      BY <1>0
    <3>2. nextId \in 1 .. MaxRemote + 1
      BY <3>1, WorkerFacts DEF Types, FrameTypeOK
    <3>3. remote'[nextId] = v
      BY <1>2, <2>2, <3>1, WorkerFacts, PostKeeps, CertificatesParts
    <3> QED BY <3>2, <3>3
  <2>4. nextId < nextId'
    BY <2>2, <2>3, FrameAssumption DEF Post
  <2> QED BY <2>1, <2>3, <2>4 DEF IssuedFor
<1>5. SeenIn(Issuable)'
  BY <1>0, <1>3, TruthStays DEF IssueInv, SeenIn, Seen
<1> QED BY <1>4, <1>5 DEF IssueInv

\* The record brings the id and the names.
LEMMA SaveIssues ==
  ASSUME CertificateInv, IssueInv, SaveStatus
  PROVE  IssueInv'
<1>1. PICK ok \in BOOLEAN : StatusWrite(Recorded(Cached), ValidStatus(Recorded(Cached)), ok)
  BY DEF SaveStatus
<1>2. pc = "save" /\ pc' # "save" /\ UNCHANGED cache /\ UNCHANGED <<remote, nextId>>
  BY DEF SaveStatus, remoteVars
<1>3. /\ req \in Keys /\ faults \in Nat /\ fresh \in BOOLEAN
      /\ rid \in Ids /\ input \in Answers /\ IssuedFor(rid, input.domainNames)
      /\ cache[req] # NoObj => cache[req] \in Issuable
  <2>1. FrameInv(OwnCertificates) /\ FoundInv /\ req \in Keys
    BY <1>2, WorkerFacts
  <2>2. cache[req] \in Seen(req)
    BY DEF Seen
  <2> QED BY <1>2, <2>1, <2>2, FrameTypes DEF FoundInv, IssueInv, AnswerInv, SeenIn
<1>4. cache[req] # NoObj /\ ValidStatus(Recorded(Cached)) => Recorded(Cached) \in Issuable
  <2> SUFFICES ASSUME cache[req] # NoObj, ValidStatus(Recorded(Cached))
               PROVE  Recorded(Cached) \in Issuable
    OBVIOUS
  <2> DEFINE v == Recorded(Cached)
  <2>1. /\ v \in LetsEncryptCertificate /\ v.id = rid /\ v.domainNames = input.domainNames
    BY <1>3 DEF Recorded, Cached, Issuable, LetsEncryptCertificate, Answers
  <2>2. rid # NoId /\ v.domainNames # {}
    BY <1>3, NilIsNoId DEF ValidStatus
  <2> HIDE DEF v
  <2>3. v \in Issuable
    BY <1>3, <2>1, <2>2 DEF Issuable, Truthful
  <2> QED BY <2>3 DEF v
<1>5. \A k \in Keys : Seen(k)' \subseteq Issuable \cup {NoObj}
  <2>1. CASE UNCHANGED <<api, watch>>
    BY <1>2, <2>1 DEF IssueInv, SeenIn, Seen
  <2>2. CASE cache[req] # NoObj /\ ValidStatus(Recorded(Cached)) /\ Publish(req, Recorded(Cached))
    <3>1. Recorded(Cached) \in OwnCertificates.objects \cup {NoObj}
      BY <1>4, <2>2, CertificatesParts DEF Issuable
    <3> QED BY <1>2, <1>3, <1>4, <2>2, <3>1, StoreStays DEF CertificateInv, IssueInv
  <2>3. ValidStatus(Recorded(Cached)) \in BOOLEAN
    BY DEF ValidStatus
  <2> QED BY <1>1, <1>3, <2>1, <2>2, <2>3, StatusWriteCases
<1>6. Issuable' = Issuable
  BY <1>2 DEF Issuable, Truthful, IssuedFor, Alive
<1> QED BY <1>2, <1>5, <1>6 DEF IssueInv, SeenIn, AnswerInv

\* Every step keeps it.
LEMMA NextIssues ==
  ASSUME CertificateInv, IssueInv, [Next]_lecVars
  PROVE  IssueInv'
<1>0. FrameInv(OwnCertificates) /\ IsKind(OwnCertificates)
  BY CertificateIsKind DEF CertificateInv
<1>1. CASE FrameWrites(api[req], ValidStatus(Cached))
  <2>1. /\ pc # "idle" /\ pc' # "save" /\ UNCHANGED <<remote, nextId>>
    BY <1>1
    DEF FrameWrites, MarkReconciling, MarkReady, MarkError, EnsureFinalizer, DropFinalizer, remoteVars
  <2>2. VersionsKept(OwnCertificates, News, Named)
    <3>1. req \in Keys /\ cache[req] \in LetsEncryptCertificate \cup {NoObj}
      BY <1>0, <2>1, WorkerFacts, FrameTypes, CertificatesParts
    <3>2. ValidStatus(Cached) /\ cache[req] # NoObj => cache[req] \in Named
      BY <3>1 DEF Named, Cached
    <3>3. ValidStatus(Cached) \in BOOLEAN
      BY DEF ValidStatus
    <3>4. ASSUME NEW P, api[req] \in P
          PROVE  api[req] \in P /\ api[req].deleting = api[req].deleting
      BY <3>4
    <3> QED BY <1>0, <1>1, <3>2, <3>3, <3>4, WorkerVersions
  <2> QED BY <2>1, <2>2, NamesStay, OtherIssues
<1>2. CASE \/ \E k \in Keys :
                \/ \E s \in Specs : UserCreate(k, NewCertificate(s)) \/ UserEdit(k, s)
                \/ UserDelete(k) \/ DeliverTo(k)
           \/ Crash
  <2>1. VersionsKept(OwnCertificates, News, Named)
    BY <1>0, <1>2, OutsideVersions DEF News, DeliverTo
  <2>2. /\ UNCHANGED <<remote, nextId>>
        /\ pc' # "save" \/ UNCHANGED <<pc, rid, input>>
    BY <1>2
    DEF UserCreate, UserEdit, UserDelete, UserWrite, DeliverTo, WatchEvent, Crash, Reset, localVars,
        remoteVars
  <2> QED BY <2>1, <2>2, NamesStay, OtherIssues
<1>3. CASE \/ FindLetEncryptCertificateByID \/ getDnsChallengeProviderCredentials
           \/ InitNginxPMClient(obj.id # NoId /\ ~obj.bound) \/ DeleteRemote \/ Return
           \/ \E k \in Keys : Take(k) \/ Trigger(k) \/ CredentialsChange(k)
           \/ \E list \in AdminDomains : AdminCreate(list)
           \/ \E i \in Ids : AdminRemove(i)
           \/ UNCHANGED lecVars
  <2>1. /\ UNCHANGED <<api, cache, watch>>
        /\ pc' # "save" \/ UNCHANGED <<pc, rid, input>>
    BY <1>3
    DEF FindLetEncryptCertificateByID, getDnsChallengeProviderCredentials, InitNginxPMClient,
        DeleteRemote, Return, Reset, Take, Dequeue, Trigger, CredentialsChange, AdminCreate,
        AdminRemove, lecVars, vars, kubeVars, localVars
  <2>2. VersionsKept(OwnCertificates, News, Named)
    BY <1>0, <2>1, OutsideVersions
  <2>3. \/ UNCHANGED <<remote, nextId>>
        \/ \E list \in AdminDomains : Post(NoKey, Issued(list))
        \/ UNCHANGED nextId /\ \E i : remote' = [remote EXCEPT ![i] = NoRemote]
    BY <1>3
    DEF FindLetEncryptCertificateByID, getDnsChallengeProviderCredentials, InitNginxPMClient,
        DeleteRemote, Return, Take, Dequeue, Trigger, CredentialsChange, AdminCreate, AdminRemove,
        lecVars, vars, localVars, remoteVars
  <2>4. NamesKept
    BY <2>3, IssuedType, NamesStay DEF Requested
  <2> QED BY <2>1, <2>2, <2>4, OtherIssues
<1> QED BY <1>1, <1>2, <1>3, SearchIssues, RequestIssues, SaveIssues
        DEF Next, Reconcile, createCertificate, Environment, FrameWrites

\* A resource that is stored as Ready has a certificate for the names that its
\* status lists.  Reconcile reports Ready after a failed request too, but the
\* server refuses that report for want of the names, which are recorded only
\* together with the id of the certificate that NPM found or issued under them.
THEOREM ReadyIsIssued == Spec => []ReadyMeansIssued
<1>1. Init => CertificateInv /\ IssueInv
  <2> SUFFICES ASSUME Init
               PROVE  CertificateInv /\ IssueInv
    OBVIOUS
  <2>1. CacheFollows /\ pc = "idle" /\ \A k \in Keys : Fresh(k) /\ api[k] = NoObj
    BY DEF Init, FrameInit, CacheFollows, Fresh
  <2> QED BY <2>1, CertificateStarts, FreshSeen DEF SeenIn, IssueInv, AnswerInv
<1>2. CertificateInv /\ IssueInv /\ [Next]_lecVars => CertificateInv' /\ IssueInv'
  BY NextCertificateInv, NextIssues
<1>3. CertificateInv /\ IssueInv => ReadyMeansIssued
  <2> SUFFICES ASSUME CertificateInv, IssueInv, NEW k \in Keys, Live(k),
                      "Ready" \in api[k].conds
               PROVE  /\ api[k].id # NoId
                      /\ Alive(api[k].id) => remote[api[k].id].names = api[k].domainNames
    BY DEF ReadyMeansIssued
  <2>1. api[k] \in Seen(k)
    BY FrameTypes, StoredIsSeen DEF CertificateInv
  <2>2. Truthful(api[k])
    BY <2>1 DEF IssueInv, SeenIn, Live, Issuable
  <2> QED BY <2>2 DEF Truthful, IssuedFor
<1> QED BY <1>1, <1>2, <1>3, PTL DEF Spec
-----------------------------------------------------------------------------
(* Selection: what is chosen is what the answers should be                  *)

\* A set of numbers that is not empty has its Min.
LEMMA MinIsLeast ==
  ASSUME NEW S, S \subseteq Nat, S # {}
  PROVE  Min(S) \in S /\ \A j \in S : Min(S) <= j
BY HasLeast DEF Min

\* So has one of the numbers of candidates for a token.
LEMMA TokenMin ==
  ASSUME NEW S, S \subseteq Nat, S # {}
  PROVE  Lookup!Min(S) \in S /\ \A j \in S : Lookup!Min(S) <= j
BY HasLeast DEF Lookup!Min

-----------------------------------------------------------------------------
(* Which token                                                              *)

\* The first candidates for a token are the names in the nearest namespace, and
\* the name of the reference is the first of them.
LEMMA CandidatesNear ==
  ASSUME NEW reference, NEW own
  PROVE  LET names == Lookup!NamesOf(reference)
             near == IF reference = Unset \/ reference.namespace = Unset THEN own
                     ELSE reference.namespace
             candidates == Lookup!Candidates(reference, own)
         IN  /\ Len(names) \in {1, 2} /\ DOMAIN names = 1 .. Len(names)
             /\ DOMAIN candidates = 1 .. Len(candidates) /\ Len(candidates) \in Nat
             /\ Len(names) <= Len(candidates)
             /\ \A i \in 1 .. Len(names) : candidates[i] = <<near, names[i]>>
             /\ reference # Unset => names[1] = reference.name
<1> DEFINE names == Lookup!NamesOf(reference)
           spaces == Lookup!NamespacesOf(reference, own)
           near == IF reference = Unset \/ reference.namespace = Unset THEN own
                   ELSE reference.namespace
           candidates == Lookup!Candidates(reference, own)
<1>1. Len(names) \in {1, 2} /\ DOMAIN names = 1 .. Len(names)
      /\ (reference # Unset => names[1] = reference.name)
  BY DEF Lookup!NamesOf
<1>2. Len(spaces) \in {3, 4} /\ spaces[1] = near
  BY DEF Lookup!NamespacesOf
<1>3. candidates = [i \in 1 .. Len(spaces) * Len(names) |->
                      <<spaces[((i - 1) \div Len(names)) + 1], names[((i - 1) % Len(names)) + 1]>>]
  BY DEF Lookup!Candidates
<1> HIDE DEF names, spaces, candidates
<1>4. Len(spaces) * Len(names) \in Nat /\ Len(names) <= Len(spaces) * Len(names)
  BY <1>1, <1>2
<1>5. Len(candidates) = Len(spaces) * Len(names) /\ DOMAIN candidates = 1 .. Len(candidates)
  BY <1>3, <1>4
<1>6. \A i \in 1 .. Len(names) : (i - 1) \div Len(names) = 0 /\ (i - 1) % Len(names) = i - 1
  BY <1>1
<1>7. \A i \in 1 .. Len(names) : candidates[i] = <<near, names[i]>>
  BY <1>1, <1>2, <1>3, <1>4, <1>6
<1> QED BY <1>1, <1>4, <1>5, <1>7 DEF names, candidates

\* What FindToken answers while the nearest namespace has a token for the
\* reference.
LEMMA TokenIsNear ==
  ASSUME NEW tokens, NEW reference, NEW own
  PROVE  LET names == Lookup!NamesOf(reference)
             near == IF reference = Unset \/ reference.namespace = Unset THEN own
                     ELSE reference.namespace
             used == Lookup!FindToken(tokens, reference, own)
         IN  /\ reference # Unset /\ tokens[near][reference.name] # "absent"
                  => used \in {<<near, reference.name>>, NoToken}
             /\ (\E i \in DOMAIN names : tokens[near][names[i]] # "absent")
                  => used = NoToken \/ used[1] = near
<1> DEFINE names == Lookup!NamesOf(reference)
           near == IF reference = Unset \/ reference.namespace = Unset THEN own
                   ELSE reference.namespace
           used == Lookup!FindToken(tokens, reference, own)
           candidates == Lookup!Candidates(reference, own)
           exist == {i \in 1 .. Len(candidates) :
                       tokens[candidates[i][1]][candidates[i][2]] # "absent"}
           first == Lookup!Min(exist)
<1>0. /\ Len(names) \in {1, 2} /\ DOMAIN names = 1 .. Len(names)
      /\ DOMAIN candidates = 1 .. Len(candidates) /\ Len(candidates) \in Nat
      /\ Len(names) <= Len(candidates)
      /\ \A i \in 1 .. Len(names) : candidates[i] = <<near, names[i]>>
      /\ reference # Unset => names[1] = reference.name
  BY CandidatesNear
<1>1. exist # {} => used \in {candidates[first], NoToken}
  BY DEF Lookup!FindToken, Lookup!SelectInSeq
<1> HIDE DEF names, near, candidates, used
<1>2. ASSUME NEW i \in 1 .. Len(names), tokens[near][names[i]] # "absent"
      PROVE  /\ first \in 1 .. i
             /\ used \in {<<near, names[first]>>, NoToken}
  <2>1. i \in exist /\ exist \subseteq Nat
    BY <1>0, <1>2
  <2>2. first \in exist /\ first <= i
    BY <2>1, TokenMin
  <2> HIDE DEF first
  <2>3. first \in 1 .. i /\ first \in 1 .. Len(names)
    <3>1. first \in 1 .. Len(candidates)
      BY <2>2
    <3> QED BY <1>0, <2>2, <3>1
  <2>4. candidates[first] = <<near, names[first]>>
    BY <1>0, <2>3
  <2> QED BY <1>1, <2>1, <2>3, <2>4
<1> HIDE DEF first
<1>3. reference # Unset /\ tokens[near][reference.name] # "absent"
        => used \in {<<near, reference.name>>, NoToken}
  <2> SUFFICES ASSUME reference # Unset, tokens[near][reference.name] # "absent"
               PROVE  used \in {<<near, reference.name>>, NoToken}
    OBVIOUS
  <2>1. 1 \in 1 .. Len(names) /\ names[1] = reference.name
    BY <1>0
  <2>2. first = 1
    BY <1>2, <2>1
  <2> QED BY <1>2, <2>1, <2>2
<1>4. (\E i \in DOMAIN names : tokens[near][names[i]] # "absent")
        => used = NoToken \/ used[1] = near
  BY <1>0, <1>2
<1> QED BY <1>3, <1>4 DEF used, near, names

-----------------------------------------------------------------------------
(* Which host of NPM                                                        *)

\* As many numbers are in 1 .. n as n says.
LEMMA IntervalSize ==
  ASSUME NEW n \in Nat
  PROVE  IsFiniteSet(1 .. n) /\ Cardinality(1 .. n) = n
<1>1. n \in Int /\ 1 \in Int
  OBVIOUS
<1>2. IsFiniteSet(1 .. n) /\ Cardinality(1 .. n) = IF 1 > n THEN 0 ELSE n - 1 + 1
  BY <1>1, FS_Interval
<1> QED BY <1>2

\* A list without duplicates has as many elements as places.
LEMMA ListSize ==
  ASSUME NEW S, NEW n \in Nat, NEW l \in [1 .. n -> S], IsInjective(l)
  PROVE  /\ ToSet(l) = {l[i] : i \in 1 .. n}
         /\ IsFiniteSet(ToSet(l)) /\ Cardinality(ToSet(l)) = n
<1> DEFINE T == {l[i] : i \in 1 .. n}
<1>1. l \in Injection(1 .. n, T)
  <2>1. l \in [1 .. n -> T]
    OBVIOUS
  <2> HIDE DEF T
  <2> QED BY <2>1 DEF Injection
<1>2. l \in Surjection(1 .. n, T)
  <2>1. l \in [1 .. n -> T] /\ \A t \in T : \E s \in 1 .. n : l[s] = t
    OBVIOUS
  <2> HIDE DEF T
  <2> QED BY <2>1 DEF Surjection
<1>3. ToSet(l) = T
  BY DEF ToSet
<1> HIDE DEF T
<1>4. IsFiniteSet(1 .. n) /\ Cardinality(1 .. n) = n
  BY IntervalSize
<1>5. IsFiniteSet(T) /\ Cardinality(T) = n
  BY <1>1, <1>2, <1>4, FS_Surjection
<1> QED BY <1>3, <1>5 DEF T

\* domainsMatch compares sets, if neither list has a domain twice.
LEMMA MatchesAreSame ==
  ASSUME NEW a, NEW b, NEW n \in Nat, NEW m \in Nat, a \in [1 .. n -> HostDomains],
         b \in [1 .. m -> HostDomains], IsInjective(a), IsInjective(b)
  PROVE  Matching!domainsMatch(b, a) <=> ToSet(b) = ToSet(a)
<1>1. /\ Len(a) = n /\ DOMAIN a = 1 .. n /\ Len(b) = m /\ DOMAIN b = 1 .. m
  OBVIOUS
<1>2. /\ ToSet(a) = {a[i] : i \in 1 .. n}
      /\ IsFiniteSet(ToSet(a)) /\ Cardinality(ToSet(a)) = n
  BY ListSize, Zenon
<1>3. /\ ToSet(b) = {b[i] : i \in 1 .. m}
      /\ IsFiniteSet(ToSet(b)) /\ Cardinality(ToSet(b)) = m
  BY ListSize, Zenon
<1>4. (\A i \in 1 .. n : \E j \in 1 .. m : b[j] = a[i]) <=> ToSet(a) \subseteq ToSet(b)
  BY <1>2, <1>3
<1>5. Matching!domainsMatch(b, a) <=> m = n /\ ToSet(a) \subseteq ToSet(b)
  BY <1>1, <1>4 DEF Matching!domainsMatch, Matching!Contains
<1>6. m = n /\ ToSet(a) \subseteq ToSet(b) => ToSet(a) = ToSet(b)
  BY <1>2, <1>3, FS_Subset
<1>7. ToSet(b) = ToSet(a) => m = n
  BY <1>2, <1>3
<1> QED BY <1>5, <1>6, <1>7

\* FindProxyHostByDomain finds the first host that has the domains of the spec:
\* the query for the first domain leaves none of them out.
LEMMA HostIsFound ==
  ASSUME NEW q \in HostQuestions, MaxDomains \in Nat, MaxHosts \in Nat
  PROVE  LET Alike(i) == ToSet(q.hosts[i]) = ToSet(q.domains)
             found == Matching!FindProxyHostByDomain(q.hosts, q.domains)
         IN  IF \E i \in DOMAIN q.hosts : Alike(i)
             THEN found = CHOOSE i \in DOMAIN q.hosts : Alike(i) /\ \A j \in 1 .. i - 1 : ~Alike(j)
             ELSE found = Nil
<1> DEFINE Alike(i) == ToSet(q.hosts[i]) = ToSet(q.domains)
           matches == {i \in Matching!Queried(q.hosts, Head(q.domains)) :
                         Matching!domainsMatch(q.hosts[i], q.domains)}
           same == {i \in DOMAIN q.hosts : Alike(i)}
<1>1. ASSUME NEW l \in Distinct
      PROVE  \E n \in Nat \ {0} : l \in [1 .. n -> HostDomains] /\ IsInjective(l)
  <2>1. PICK n \in 0 .. MaxDomains : l \in [1 .. n -> HostDomains]
    BY <1>1 DEF Distinct, ListsOf
  <2>2. l # << >> /\ IsInjective(l)
    BY <1>1 DEF Distinct, IsInjective, IsInjective
  <2>3. n # 0
    <3> SUFFICES ASSUME n = 0 PROVE FALSE
      OBVIOUS
    <3>1. DOMAIN l = {}
      BY <2>1
    <3>2. l = << >>
      BY <2>1, <3>1
    <3> QED BY <2>2, <3>2
  <2> QED BY <2>1, <2>2, <2>3
<1>2. PICK k \in 0 .. MaxHosts : q.hosts \in [1 .. k -> Distinct]
  BY DEF HostQuestions, ListsOf
<1>3. q.domains \in Distinct
  BY DEF HostQuestions
<1>4. PICK n \in Nat \ {0} : q.domains \in [1 .. n -> HostDomains] /\ IsInjective(q.domains)
  BY <1>1, <1>3
<1>5. DOMAIN q.hosts = 1 .. k /\ 1 .. k \subseteq Nat
  BY <1>2
<1>6. ASSUME NEW i \in 1 .. k
      PROVE  /\ Matching!domainsMatch(q.hosts[i], q.domains) <=> Alike(i)
             /\ Alike(i) => Matching!Contains(q.hosts[i], Head(q.domains))
  <2>1. PICK m \in Nat \ {0} : q.hosts[i] \in [1 .. m -> HostDomains] /\ IsInjective(q.hosts[i])
    BY <1>1, <1>2
  <2>2. Matching!domainsMatch(q.hosts[i], q.domains) <=> Alike(i)
    BY <1>4, <2>1, MatchesAreSame
  <2>3. Len(q.hosts[i]) = m /\ DOMAIN q.hosts[i] = 1 .. m /\ DOMAIN q.domains = 1 .. n
    BY <1>4, <2>1
  <2>4. Head(q.domains) = q.domains[1]
    BY <1>4
  <2>5. Alike(i) => \E j \in 1 .. m : q.hosts[i][j] = q.domains[1]
    <3> SUFFICES ASSUME Alike(i) PROVE \E j \in 1 .. m : q.hosts[i][j] = q.domains[1]
      OBVIOUS
    <3>1. 1 \in DOMAIN q.domains
      BY <1>4, <2>3
    <3>2. q.domains[1] \in ToSet(q.domains)
      BY <3>1, Zenon DEF ToSet
    <3>3. q.domains[1] \in ToSet(q.hosts[i])
      BY <3>2, Zenon
    <3> QED BY <2>3, <3>3, Zenon DEF ToSet
  <2> QED BY <2>2, <2>3, <2>4, <2>5 DEF Matching!Contains
<1>7. matches = same
  BY <1>5, <1>6 DEF Matching!Queried
<1>8. Matching!FindProxyHostByDomain(q.hosts, q.domains) =
        IF same = {} THEN Nil ELSE Matching!Min(same)
  BY <1>7 DEF Matching!FindProxyHostByDomain, Matching!Nil, Nil
<1> HIDE DEF Alike
<1>9. ASSUME same # {}
      PROVE  Matching!Min(same) =
               CHOOSE i \in DOMAIN q.hosts : Alike(i) /\ \A j \in 1 .. i - 1 : ~Alike(j)
  <2> DEFINE first == Matching!Min(same)
  <2>1. first \in same /\ \A j \in same : first <= j
    <3>1. same \subseteq Nat
      BY <1>5
    <3> QED BY <1>9, <3>1, HasLeast DEF Matching!Min
  <2> HIDE DEF first
  <2>2. /\ first \in 1 .. k /\ Alike(first)
        /\ \A j \in 1 .. k : Alike(j) => first <= j
    BY <1>5, <2>1
  <2>3. ASSUME NEW j \in 1 .. first - 1
        PROVE  ~Alike(j)
    BY <2>2
  <2>4. \A i \in 1 .. k : Alike(i) /\ (\A j \in 1 .. i - 1 : ~Alike(j)) => i = first
    <3> SUFFICES ASSUME NEW i \in 1 .. k, Alike(i), \A j \in 1 .. i - 1 : ~Alike(j)
                 PROVE  i = first
      OBVIOUS
    <3>1. first <= i
      BY <2>2
    <3>2. ~(first <= i - 1)
      BY <2>2
    <3> QED BY <2>2, <3>1, <3>2
  <2>5. first = CHOOSE i \in 1 .. k : Alike(i) /\ \A j \in 1 .. i - 1 : ~Alike(j)
    BY <2>2, <2>3, <2>4
  <2> QED BY <1>5, <2>5 DEF first
<1> QED BY <1>8, <1>9 DEF Alike

-----------------------------------------------------------------------------
(* Which port                                                               *)

\* FirstFound takes the first of five numbers that is not 0.
LEMMA FirstOfFive ==
  ASSUME NEW a, NEW b, NEW c, NEW d, NEW e
  PROVE  Ports!FirstFound(<<a, b, c, d, e>>) =
           IF a # 0 THEN a ELSE IF b # 0 THEN b ELSE IF c # 0 THEN c ELSE IF d # 0 THEN d ELSE e
<1> DEFINE numbers == <<a, b, c, d, e>>
           found == {i \in DOMAIN numbers : numbers[i] # 0}
           first == Ports!Min(found)
<1>1. /\ DOMAIN numbers = 1 .. 5 /\ numbers[1] = a /\ numbers[2] = b /\ numbers[3] = c
      /\ numbers[4] = d /\ numbers[5] = e
  OBVIOUS
<1>2. Ports!FirstFound(numbers) = IF found = {} THEN 0 ELSE numbers[first]
  BY DEF Ports!FirstFound, Ports!NotFound
<1> HIDE DEF numbers
<1>3. \A i \in 1 .. 5 : i \in found <=> numbers[i] # 0
  BY <1>1
<1>4. found \subseteq 1 .. 5
  BY <1>1
<1>5. found # {} => first \in found /\ \A j \in found : first <= j
  BY <1>4, HasLeast DEF Ports!Min
<1> HIDE DEF found, first
<1>6. CASE found = {}
  <2>1. \A j \in 1 .. 5 : numbers[j] = 0
    BY <1>3, <1>6, Zenon
  <2>2. a = 0 /\ b = 0 /\ c = 0 /\ d = 0 /\ e = 0
    BY <1>1, <2>1
  <2>3. Ports!FirstFound(numbers) = 0
    BY <1>2, <1>6, Zenon
  <2> QED BY <2>2, <2>3 DEF numbers
<1>7. CASE found # {}
  <2>1. first \in 1 .. 5 /\ numbers[first] # 0
    BY <1>3, <1>4, <1>5, <1>7
  <2>2. \A j \in 1 .. 5 : numbers[j] # 0 => first <= j
    BY <1>3, <1>5, <1>7
  <2>3. Ports!FirstFound(numbers) = numbers[first]
    BY <1>2, <1>7
  <2>4. first \in {1, 2, 3, 4, 5}
    BY <2>1
  <2>5. first > 1 => a = 0
    BY <1>1, <2>2, <2>4
  <2>6. first > 2 => b = 0
    BY <1>1, <2>2, <2>4
  <2>7. first > 3 => c = 0
    BY <1>1, <2>2, <2>4
  <2>8. first > 4 => d = 0
    BY <1>1, <2>2, <2>4
  <2>9. numbers[first] = IF a # 0 THEN a ELSE IF b # 0 THEN b ELSE IF c # 0 THEN c
                         ELSE IF d # 0 THEN d ELSE e
    BY <1>1, <2>1, <2>4, <2>5, <2>6, <2>7, <2>8
  <2> QED BY <2>3, <2>9 DEF numbers
<1> QED BY <1>6, <1>7 DEF numbers

\* Every port of a service has a number, and no name of one is a protocol.
LEMMA PortsHaveNumbers ==
  ASSUME NEW service \in Services, MaxPorts \in Nat
  PROVE  /\ \E n \in Nat : DOMAIN service.ports = 1 .. n
         /\ \A i \in DOMAIN service.ports :
              /\ Ports!Number(service, i) # 0
              /\ "tcp" \notin service.ports[i].words /\ "udp" \notin service.ports[i].words
              /\ service.ports[i].protocol \in {"tcp", "udp"}
<1> DEFINE Shapes == [words: PortWords, protocol: {"tcp", "udp"}]
<1>1. PICK n \in 0 .. MaxPorts : service.ports \in PortLists(n)
  BY DEF Services
<1>2. PICK l \in [1 .. n -> Shapes] : service.ports = [i \in 1 .. n |-> Port(i, l[i])]
  BY <1>1, Zenon DEF PortLists
<1>3. DOMAIN service.ports = 1 .. n /\ n \in Nat
  BY <1>2
<1>4. ASSUME NEW i \in 1 .. n
      PROVE  /\ service.ports[i].words \in PortWords
             /\ service.ports[i].port = i /\ service.ports[i].nodePort = 100 + i
             /\ service.ports[i].protocol \in {"tcp", "udp"}
  <2>1. /\ service.ports[i] = Port(i, l[i]) /\ l[i].words \in PortWords
        /\ l[i].protocol \in {"tcp", "udp"}
    BY <1>2
  <2> QED BY <2>1 DEF Port
<1>5. ASSUME NEW i \in 1 .. n
      PROVE  Ports!Number(service, i) # 0
  BY <1>4 DEF Ports!Number
<1>6. \A words \in PortWords : "tcp" \notin words /\ "udp" \notin words
  BY DEF PortWords
<1> QED BY <1>3, <1>4, <1>5, <1>6

\* The first of the ports that fit has a number, and it is one of theirs.
LEMMA FirstNumberFits ==
  ASSUME NEW service \in Services, MaxPorts \in Nat,
         NEW fits, fits \subseteq DOMAIN service.ports, fits # {}
  PROVE  /\ Ports!FirstNumber(service, fits) # 0
         /\ Ports!FirstNumber(service, fits) \in {Ports!Number(service, i) : i \in fits}
<1>1. fits \subseteq Nat
  BY PortsHaveNumbers
<1>2. Ports!Min(fits) \in fits
  BY <1>1, HasLeast DEF Ports!Min
<1> QED BY <1>2, PortsHaveNumbers DEF Ports!FirstNumber

\* No port has the number 0, and the first port has the number 1.
LEMMA FirstNumberIs ==
  ASSUME NEW service \in Services, MaxPorts \in Nat
  PROVE  /\ Ports!FirstNumber(service, {}) = 0
         /\ service.ports # << >> => Ports!FirstPort(service) = Ports!Number(service, 1)
<1>1. Ports!FirstNumber(service, {}) = 0
  BY DEF Ports!FirstNumber, Ports!NotFound
<1>2. ASSUME service.ports # << >>
      PROVE  Ports!FirstPort(service) = Ports!Number(service, 1)
  <2>1. PICK n \in Nat : DOMAIN service.ports = 1 .. n
    BY PortsHaveNumbers
  <2>2. n # 0
    <3>1. PICK k \in 0 .. MaxPorts : service.ports \in PortLists(k)
      BY DEF Services
    <3>2. PICK l : service.ports = [i \in 1 .. k |-> Port(i, l[i])]
      BY <3>1, Zenon DEF PortLists
    <3> QED BY <1>2, <2>1, <3>1, <3>2
  <2>3. Ports!Min(1 .. n) = 1
    <3>1. 1 .. n \subseteq Nat /\ 1 \in 1 .. n
      BY <2>1, <2>2
    <3>2. Ports!Min(1 .. n) \in 1 .. n /\ \A j \in 1 .. n : Ports!Min(1 .. n) <= j
      BY <3>1, HasLeast DEF Ports!Min
    <3> QED BY <3>1, <3>2
  <2>4. 1 .. n # {}
    BY <2>1, <2>2
  <2> QED BY <2>1, <2>3, <2>4 DEF Ports!FirstPort, Ports!FirstNumber
<1> QED BY <1>1, <1>2

\* The number that is given alone.
LEMMA GivenPortIsTaken ==
  ASSUME NEW service \in Services, NEW forward \in Forwards,
         forward.port # Unset, forward.portName = Unset
  PROVE  /\ Ports!ProxyHostPort(service, forward) = forward.port
         /\ Ports!StreamPort(service, forward) = forward.port
<1>1. forward.port # 0
  BY DEF Forwards
<1> DEFINE third == IF forward.scheme = "https" THEN 0 ELSE Ports!MatchPort(service, "http")
           fourth == Ports!MatchPort(service, "https")
           tcp == IF forward.tcp THEN Ports!StreamMatch(service, "tcp") ELSE 0
           udp == IF forward.udp THEN Ports!StreamMatch(service, "udp") ELSE 0
           fifth == Ports!FirstPort(service)
<1>2. /\ Ports!ProxyHostPort(service, forward)
           = Ports!FirstFound(<<0, forward.port, third, fourth, fifth>>)
      /\ Ports!StreamPort(service, forward)
           = Ports!FirstFound(<<0, forward.port, tcp, udp, fifth>>)
  BY DEF Ports!ProxyHostPort, Ports!StreamPort, Ports!Named, Ports!NotFound
<1> HIDE DEF third, fourth, tcp, udp, fifth
<1> QED BY <1>1, <1>2, FirstOfFive

\* A name that is given alone finds a port whose name contains it.
LEMMA NamedPortIsFound ==
  ASSUME NEW service \in Services, NEW forward \in Forwards, MaxPorts \in Nat,
         forward.port = Unset, forward.portName # Unset
  PROVE  LET containing == {i \in DOMAIN service.ports : forward.portName \in service.ports[i].words}
             named == {i \in containing :
                         forward.portName = "http" => "https" \notin service.ports[i].words}
         IN  /\ named # {} =>
                  Ports!ProxyHostPort(service, forward) \in {Ports!Number(service, i) : i \in named}
             /\ containing # {} =>
                  Ports!StreamPort(service, forward) \in {Ports!Number(service, i) : i \in containing}
<1> DEFINE word == forward.portName
           containing == {i \in DOMAIN service.ports : word \in service.ports[i].words}
           named == {i \in containing : word = "http" => "https" \notin service.ports[i].words}
           first == Ports!FirstNumber(service, named)
           match == Ports!FirstNumber(service, containing)
           third == IF forward.scheme = "https" THEN 0 ELSE Ports!MatchPort(service, "http")
           fourth == Ports!MatchPort(service, "https")
           tcp == IF forward.tcp THEN Ports!StreamMatch(service, "tcp") ELSE 0
           udp == IF forward.udp THEN Ports!StreamMatch(service, "udp") ELSE 0
           fifth == Ports!FirstPort(service)
<1>1. Ports!MatchPort(service, word) = first
  <2>1. named = {i \in DOMAIN service.ports :
                   /\ word \in service.ports[i].words
                   /\ word = "http" => "https" \notin service.ports[i].words}
    OBVIOUS
  <2> HIDE DEF word, named
  <2> QED BY <2>1 DEF Ports!MatchPort
<1>2. Ports!StreamMatch(service, word) = match
  <2>1. \A i \in DOMAIN service.ports : word # service.ports[i].protocol
    BY PortsHaveNumbers DEF Forwards
  <2>2. {i \in DOMAIN service.ports : Ports!PortMatched(word, service.ports[i])} = containing
    BY <2>1 DEF Ports!PortMatched
  <2> HIDE DEF word, containing
  <2> QED BY <2>2 DEF Ports!StreamMatch
<1>3. containing \subseteq DOMAIN service.ports /\ named \subseteq DOMAIN service.ports
  OBVIOUS
<1> HIDE DEF containing, named
<1>4. /\ Ports!ProxyHostPort(service, forward) = Ports!FirstFound(<<first, 0, third, fourth, fifth>>)
      /\ Ports!StreamPort(service, forward) = Ports!FirstFound(<<match, 0, tcp, udp, fifth>>)
  BY <1>1, <1>2 DEF Ports!ProxyHostPort, Ports!StreamPort, Ports!Named, Ports!NotFound
<1>5. named # {} => first # 0 /\ first \in {Ports!Number(service, i) : i \in named}
  BY <1>3, FirstNumberFits, Zenon
<1>6. containing # {} => match # 0 /\ match \in {Ports!Number(service, i) : i \in containing}
  BY <1>3, FirstNumberFits, Zenon
<1> HIDE DEF first, match, third, fourth, tcp, udp, fifth
<1>7. /\ first # 0 => Ports!ProxyHostPort(service, forward) = first
      /\ match # 0 => Ports!StreamPort(service, forward) = match
  BY <1>4, FirstOfFive
<1>8. /\ named # {} =>
           Ports!ProxyHostPort(service, forward) \in {Ports!Number(service, i) : i \in named}
      /\ containing # {} =>
           Ports!StreamPort(service, forward) \in {Ports!Number(service, i) : i \in containing}
  BY <1>5, <1>6, <1>7
<1> QED BY <1>8 DEF containing, named

\* Without both, the first port is used if no other is preferred.
LEMMA FirstPortIsDefault ==
  ASSUME NEW service \in Services, NEW forward \in Forwards, MaxPorts \in Nat,
         forward.port = Unset, forward.portName = Unset, service.ports # << >>
  PROVE  /\ (\A i \in DOMAIN service.ports :
               /\ "https" \notin service.ports[i].words
               /\ forward.scheme # "https" => "http" \notin service.ports[i].words)
              => Ports!ProxyHostPort(service, forward) = Ports!Number(service, 1)
         /\ (\A i \in DOMAIN service.ports :
               /\ forward.tcp => service.ports[i].protocol # "tcp"
               /\ forward.udp => service.ports[i].protocol # "udp")
              => Ports!StreamPort(service, forward) = Ports!Number(service, 1)
<1> DEFINE third == IF forward.scheme = "https" THEN 0 ELSE Ports!MatchPort(service, "http")
           fourth == Ports!MatchPort(service, "https")
           tcp == IF forward.tcp THEN Ports!StreamMatch(service, "tcp") ELSE 0
           udp == IF forward.udp THEN Ports!StreamMatch(service, "udp") ELSE 0
           fifth == Ports!FirstPort(service)
<1>1. /\ Ports!ProxyHostPort(service, forward) = Ports!FirstFound(<<0, 0, third, fourth, fifth>>)
      /\ Ports!StreamPort(service, forward) = Ports!FirstFound(<<0, 0, tcp, udp, fifth>>)
  BY DEF Ports!ProxyHostPort, Ports!StreamPort, Ports!Named, Ports!NotFound
<1>2. fifth = Ports!Number(service, 1)
  BY FirstNumberIs
<1>3. ASSUME \A i \in DOMAIN service.ports :
               /\ "https" \notin service.ports[i].words
               /\ forward.scheme # "https" => "http" \notin service.ports[i].words
      PROVE  third = 0 /\ fourth = 0
  <2>1. ASSUME NEW word \in {"http", "https"}, word = "http" => forward.scheme # "https"
        PROVE  Ports!MatchPort(service, word) = 0
    <3>1. {i \in DOMAIN service.ports :
             /\ word \in service.ports[i].words
             /\ word = "http" => "https" \notin service.ports[i].words} = {}
      BY <1>3, <2>1
    <3> QED BY <3>1, FirstNumberIs DEF Ports!MatchPort
  <2> QED BY <2>1
<1>4. ASSUME \A i \in DOMAIN service.ports :
               /\ forward.tcp => service.ports[i].protocol # "tcp"
               /\ forward.udp => service.ports[i].protocol # "udp"
      PROVE  tcp = 0 /\ udp = 0
  <2>1. ASSUME NEW word \in {"tcp", "udp"},
               \A i \in DOMAIN service.ports : service.ports[i].protocol # word
        PROVE  Ports!StreamMatch(service, word) = 0
    <3>1. \A i \in DOMAIN service.ports : word \notin service.ports[i].words
      BY PortsHaveNumbers
    <3>2. {i \in DOMAIN service.ports : Ports!PortMatched(word, service.ports[i])} = {}
      BY <2>1, <3>1 DEF Ports!PortMatched
    <3> QED BY <3>2, FirstNumberIs DEF Ports!StreamMatch
  <2> QED BY <1>4, <2>1
<1> HIDE DEF third, fourth, tcp, udp, fifth
<1> QED BY <1>1, <1>2, <1>3, <1>4, FirstOfFive
-----------------------------------------------------------------------------
(* Which certificate                                                        *)

\* The first id of a set of them is one of the set.
LEMMA FirstIsOne ==
  ASSUME NEW ids, ids \subseteq Nat \ {0}
  PROVE  /\ ids = {} => FirstOf(ids) = 0
         /\ ids # {} => FirstOf(ids) \in ids /\ FirstOf(ids) # 0
BY MinIsLeast DEF FirstOf, Nil

\* What a question about certificates has: an Ssl section, a list of domains
\* that is not empty, and NPM's list.
LEMMA CertificateAsked ==
  ASSUME NEW q \in CertificateQuestions, BoundsAssumption
  PROVE  /\ \E m \in Nat \ {0} :
              /\ DOMAIN q.domains = 1 .. m
              /\ \A i \in 1 .. m : q.domains[i].name \in AutoNames \cup GivenNames
         /\ \E k \in Nat : DOMAIN q.list = 1 .. k /\ Len(q.list) = k
         /\ \A c \in Certificates(q.list) : q.list[c].names \subseteq AutoNames \cup GivenNames
         /\ q.ssl # NoSsl => /\ q.ssl.auto \in BOOLEAN
                             /\ q.kind = "certificate"
<1> DEFINE all == AutoNames \cup GivenNames
<1>1. ASSUME NEW sections, NEW names, NEW bound,
             q \in CertificatesAsked(sections, names, bound)
      PROVE  /\ q.kind = "certificate" /\ q.ssl \in sections
             /\ q.domains \in ListsOf([name: names, port: HostPorts], bound) \ {<< >>}
             /\ q.list \in ListsOf(Certs(names) \cup {NoCertificate}, MaxListed)
  BY <1>1 DEF CertificatesAsked
<1>2. PICK names \in {AutoNames, GivenNames}, bound \in Nat :
        /\ q.kind = "certificate" /\ (q.ssl # NoSsl => q.ssl.auto \in BOOLEAN)
        /\ q.domains \in ListsOf([name: names, port: HostPorts], bound) \ {<< >>}
        /\ q.list \in ListsOf(Certs(names) \cup {NoCertificate}, MaxListed)
  <2>1. CASE q \in CertificatesAsked({NoSsl} \cup SslWith({Absent}), AutoNames, MaxDomains)
    <3>1. \A s \in {NoSsl} \cup SslWith({Absent}) : s # NoSsl => s.auto \in BOOLEAN
      BY DEF SslWith
    <3>2. AutoNames \in {AutoNames, GivenNames} /\ MaxDomains \in Nat
      BY DEF BoundsAssumption
    <3> QED BY <1>1, <2>1, <3>1, <3>2, Zenon
  <2>2. CASE q \in CertificatesAsked(SslWith(References), GivenNames, 1)
    <3>1. \A s \in SslWith(References) : s # NoSsl => s.auto \in BOOLEAN
      BY DEF SslWith
    <3>2. GivenNames \in {AutoNames, GivenNames} /\ 1 \in Nat
      OBVIOUS
    <3> QED BY <1>1, <2>2, <3>1, <3>2, Zenon
  <2> QED BY <2>1, <2>2 DEF CertificateQuestions
<1>3. PICK m \in 0 .. bound : q.domains \in [1 .. m -> [name: names, port: HostPorts]]
  BY <1>2 DEF ListsOf
<1>4. m # 0
  <2> SUFFICES ASSUME m = 0 PROVE FALSE
    OBVIOUS
  <2>1. q.domains = << >>
    BY <1>3
  <2> QED BY <1>2, <2>1
<1>5. m \in Nat \ {0} /\ DOMAIN q.domains = 1 .. m
  BY <1>3, <1>4
<1>6. \A i \in 1 .. m : q.domains[i].name \in all
  BY <1>2, <1>3
<1>7. PICK k \in 0 .. MaxListed : q.list \in [1 .. k -> Certs(names) \cup {NoCertificate}]
  BY <1>2 DEF ListsOf
<1>8. k \in Nat /\ DOMAIN q.list = 1 .. k /\ Len(q.list) = k
  BY <1>7 DEF BoundsAssumption
<1>9. ASSUME NEW c \in Certificates(q.list)
      PROVE  q.list[c].names \subseteq all
  <2>1. q.list[c] \in Certs(names)
    BY <1>7, <1>8 DEF Certificates
  <2> QED BY <1>2, <2>1 DEF Certs
<1> QED BY <1>2, <1>5, <1>6, <1>8, <1>9

\* Equal neighbours make all equal.
LEMMA NeighboursEqual ==
  ASSUME NEW m \in Nat \ {0}, NEW f, \A i \in 2 .. m : f[i - 1] = f[i]
  PROVE  \A i \in 1 .. m : f[i] = f[1]
<1> DEFINE other == {i \in 1 .. m : f[i] # f[1]}
<1> SUFFICES ASSUME other # {} PROVE FALSE
  OBVIOUS
<1>1. other \subseteq Nat
  OBVIOUS
<1>2. PICK i \in other : \A j \in other : i <= j
  BY <1>1, HasLeast
<1>3. i \in 1 .. m /\ f[i] # f[1]
  BY <1>2
<1>4. i # 1
  BY <1>3
<1>5. i \in 2 .. m /\ i - 1 \in 1 .. m /\ ~(i <= i - 1)
  BY <1>3, <1>4
<1>6. i - 1 \notin other
  BY <1>2, <1>5
<1>7. f[i - 1] = f[1]
  BY <1>5, <1>6
<1> QED BY <1>3, <1>5, <1>7

\* A certificate that is adopted is the one of every domain, if all have one.
LEMMA AdoptedIsUnanimous ==
  ASSUME NEW list, NEW names, NEW m \in Nat \ {0}, DOMAIN names = 1 .. m, Len(names) = m
  PROVE  LET found == {FindLetEncryptCertificate(list, names[i]) : i \in DOMAIN names}
         IN  Nil \notin found =>
               ExistingCertificate(list, names) =
                 (IF \E c \in found : found = {c} THEN CHOOSE c \in found : TRUE ELSE Nil)
<1> DEFINE f == [i \in 1 .. m |-> FindLetEncryptCertificate(list, names[i])]
           found == {FindLetEncryptCertificate(list, names[i]) : i \in DOMAIN names}
           differ(i) == Nil \notin {f[i - 1], f[i]} /\ f[i - 1] # f[i]
<1> SUFFICES ASSUME Nil \notin found
             PROVE  ExistingCertificate(list, names) =
                      (IF \E c \in found : found = {c} THEN CHOOSE c \in found : TRUE ELSE Nil)
  OBVIOUS
<1>1. found = {f[i] : i \in 1 .. m}
  OBVIOUS
<1>2. names # << >>
  <2>1. 1 \in DOMAIN names
    OBVIOUS
  <2> QED BY <2>1
<1>3. \A i \in 2 .. m : i \in 1 .. m /\ i - 1 \in 1 .. m
  OBVIOUS
<1>4. ExistingCertificate(list, names) =
        IF \E i \in 2 .. m : differ(i) THEN Nil ELSE f[m]
  <2>1. /\ f[m] = FindLetEncryptCertificate(list, names[m])
        /\ \A i \in 2 .. m : /\ f[i] = FindLetEncryptCertificate(list, names[i])
                             /\ f[i - 1] = FindLetEncryptCertificate(list, names[i - 1])
    BY <1>3
  <2> HIDE DEF f
  <2> QED BY <1>2, <2>1 DEF ExistingCertificate
<1>5. f \in [1 .. m -> found]
  OBVIOUS
<1> HIDE DEF f, found
<1>6. \A i \in 2 .. m : differ(i) <=> f[i - 1] # f[i]
  BY <1>3, <1>5
<1>7. CASE \E i \in 2 .. m : differ(i)
  <2>1. PICK i \in 2 .. m : f[i - 1] # f[i]
    BY <1>6, <1>7
  <2>2. f[i - 1] \in found /\ f[i] \in found
    BY <1>3, <1>5
  <2>3. ~\E c \in found : found = {c}
    BY <2>1, <2>2
  <2> QED BY <1>4, <1>7, <2>3
<1>8. CASE ~\E i \in 2 .. m : differ(i)
  <2>1. \A i \in 2 .. m : f[i - 1] = f[i]
    BY <1>6, <1>8
  <2>2. \A i \in 1 .. m : f[i] = f[1]
    BY <2>1, NeighboursEqual
  <2>3. found = {f[m]}
    <3>1. m \in 1 .. m /\ f[m] \in found
      BY <1>5
    <3>2. \A c \in found : c = f[m]
      BY <1>1, <2>2, <3>1
    <3> QED BY <3>1, <3>2
  <2>4. (CHOOSE c \in found : TRUE) = f[m]
    BY <2>3
  <2> QED BY <1>4, <1>8, <2>3, <2>4
<1> QED BY <1>7, <1>8 DEF found

\* The name of a certificate is valid for a domain in the sense of TLS if the
\* search matches the two, for a domain of more than two labels.
LEMMA MatchedIsCovered ==
  ASSUME NEW n \in Seq(STRING) \ {<< >>}, NEW d \in Seq(STRING) \ {<< >>}, Len(d) > 2,
         MatchedDomain(n, d)
  PROVE  Covers(n, d)
<1>1. CASE n = d
  BY <1>1 DEF Covers
<1>2. CASE n = <<"*">> \o Tail(d)
  <2>1. Tail(d) \in Seq(STRING) /\ Len(Tail(d)) = Len(d) - 1
    BY EmptySeq
  <2>2. Head(n) = "*" /\ Len(n) = Len(d) /\ Tail(n) = Tail(d)
    BY <1>2, <2>1
  <2> QED BY <2>2 DEF Covers
<1> QED BY <1>1, <1>2 DEF MatchedDomain, ExtractRootDomain

\* A name that is valid for a domain in the sense of TLS is one that the search
\* matches, if no wildcard is for a top-level domain.
LEMMA CoveredIsMatched ==
  ASSUME NEW n \in Seq(STRING) \ {<< >>}, NEW d \in Seq(STRING) \ {<< >>},
         Head(n) = "*" => Len(n) > 2, Covers(n, d)
  PROVE  MatchedDomain(n, d)
<1>1. CASE n = d
  BY <1>1 DEF MatchedDomain
<1>2. CASE Head(n) = "*" /\ Len(n) = Len(d) /\ Tail(n) = Tail(d)
  <2>1. ~(Len(d) <= 2)
    BY <1>2
  <2>2. ExtractRootDomain(d) = Tail(n)
    BY <1>2, <2>1 DEF ExtractRootDomain
  <2>3. n = <<Head(n)>> \o Tail(n)
    BY EmptySeq
  <2> QED BY <1>2, <2>2, <2>3 DEF MatchedDomain
<1> QED BY <1>1, <1>2 DEF Covers

\* The two searches find a certificate of the list that matches the domain, and
\* none only if there is none.
LEMMA SearchesFind ==
  ASSUME NEW list, NEW k \in Nat, DOMAIN list = 1 .. k, NEW names
  PROVE  /\ LET c == FindLetEncryptCertificate(list, names[1])
            IN  c # 0 => /\ c \in Certificates(list)
                         /\ \E n \in list[c].names : MatchedDomain(n, names[1])
         /\ LET c == FindCertificateByDomain(list, names)
            IN  /\ c # 0 => c \in Certificates(list)
                /\ c = 0 => \A o \in Certificates(list) :
                              ~\E n \in list[o].names : MatchedDomain(n, Head(names))
         /\ \A d : LET c == FindLetEncryptCertificate(list, d)
                   IN  c # 0 => c \in Certificates(list)
<1> DEFINE listed == Certificates(list)
<1>1. listed \subseteq Nat \ {0}
  BY DEF Certificates
<1>2. ASSUME NEW d
      PROVE  LET c == FindLetEncryptCertificate(list, d)
             IN  c # 0 => c \in listed /\ \E n \in list[c].names : MatchedDomain(n, d)
  <2> DEFINE ids == {i \in listed : /\ list[i].provider = "letsencrypt"
                                    /\ \E n \in list[i].names : MatchedDomain(n, d)}
             c == FindLetEncryptCertificate(list, d)
  <2>1. c = FirstOf(ids)
    BY DEF FindLetEncryptCertificate
  <2>2. ids \subseteq Nat \ {0}
    BY <1>1
  <2>3. \A i \in ids : i \in listed /\ \E n \in list[i].names : MatchedDomain(n, d)
    OBVIOUS
  <2> HIDE DEF ids, c, listed
  <2>4. c # 0 => c \in ids
    BY <2>1, <2>2, FirstIsOne
  <2>5. c # 0 => c \in listed /\ \E n \in list[c].names : MatchedDomain(n, d)
    BY <2>3, <2>4, Zenon
  <2> QED BY <2>5, Zenon DEF c
<1>3. LET c == FindCertificateByDomain(list, names)
      IN  /\ c # 0 => c \in listed
          /\ c = 0 => \A o \in listed :
                        ~\E n \in list[o].names : MatchedDomain(n, Head(names))
  <2> DEFINE ids == {i \in listed : \E n \in list[i].names : MatchedDomain(n, Head(names))}
             c == FindCertificateByDomain(list, names)
  <2>1. c = FirstOf(ids)
    BY DEF FindCertificateByDomain
  <2>2. ids \subseteq Nat \ {0} /\ ids \subseteq listed
    BY <1>1
  <2>3. ids = {} => \A o \in listed : ~\E n \in list[o].names : MatchedDomain(n, Head(names))
    OBVIOUS
  <2> HIDE DEF ids, c, listed
  <2>4. (c # 0 => c \in listed) /\ (c = 0 => ids = {})
    BY <2>1, <2>2, FirstIsOne
  <2> QED BY <2>3, <2>4, Zenon DEF c
<1> QED BY <1>2, <1>3, Zenon

\* What makeCertificate answers about the references and the list.
LEMMA CertificateChosen ==
  ASSUME NEW q \in CertificateQuestions, NamesAssumption, FailedAssumption,
         BoundsAssumption, q.ssl # NoSsl,
         makeCertificate(q.ssl, q.list, q.domains) # Failed
  PROVE  LET ssl == q.ssl
             chosen == makeCertificate(ssl, q.list, q.domains)
             names == extractDomainsWithoutPorts(q.domains)
             references == <<ssl.certificateId, ssl.custom, ssl.letsEncrypt>>
             given == {i \in 1 .. 3 : references[i] # Absent}
             listed == Certificates(q.list)
         IN  /\ given # {} /\ references[Min(given)] \in listed
                  => chosen = references[Min(given)]
             /\ chosen > Len(q.list) =>
                  ~\E c \in listed : \A i \in DOMAIN names :
                     \E n \in q.list[c].names : Covers(n, names[i])
<1> DEFINE ssl == q.ssl
           chosen == makeCertificate(ssl, q.list, q.domains)
           names == extractDomainsWithoutPorts(q.domains)
           references == <<ssl.certificateId, ssl.custom, ssl.letsEncrypt>>
           given == {i \in 1 .. 3 : references[i] # Absent}
           listed == Certificates(q.list)
           retrieved == RetrieveCertificate(ssl, q.list)
           byDomain == FindCertificateByDomain(q.list, names)
           created == CreateLetEncryptCertificate(q.list, names)
<1>1. PICK m \in Nat \ {0} : /\ DOMAIN q.domains = 1 .. m
                            /\ \A i \in 1 .. m : q.domains[i].name \in AutoNames \cup GivenNames
  BY CertificateAsked
<1>2. PICK k \in Nat : DOMAIN q.list = 1 .. k /\ Len(q.list) = k
  BY CertificateAsked
<1>3. /\ \A c \in listed : q.list[c].names \subseteq AutoNames \cup GivenNames
      /\ ssl.auto \in BOOLEAN
  BY CertificateAsked
<1>4. listed \subseteq 1 .. k
  BY <1>2 DEF Certificates
<1>5. /\ DOMAIN names = 1 .. m /\ Head(names) = names[1]
      /\ \A i \in 1 .. m : names[i] \in AutoNames \cup GivenNames
  BY <1>1 DEF extractDomainsWithoutPorts
<1>6. chosen = IF retrieved = 0 /\ ssl.auto
               THEN IF byDomain # 0 THEN byDomain ELSE created
               ELSE retrieved
  BY DEF makeCertificate, findOrCreateCertificate, Nil
<1>7. Unresolved \notin {ssl.letsEncrypt, ssl.custom}
  <2> SUFFICES ASSUME Unresolved \in {ssl.letsEncrypt, ssl.custom} PROVE FALSE
    OBVIOUS
  <2>1. retrieved = Failed
    BY DEF RetrieveCertificate
  <2>2. Failed # 0
    BY DEF FailedAssumption
  <2> HIDE DEF retrieved, byDomain, created, names
  <2> QED BY <1>6, <2>1, <2>2
<1>8. retrieved = IF ssl.certificateId # Absent THEN FindCertificateByID(q.list, ssl.certificateId)
                  ELSE IF ssl.custom # Absent THEN FindCertificateByID(q.list, ssl.custom)
                  ELSE IF ssl.letsEncrypt # Absent THEN FindCertificateByID(q.list, ssl.letsEncrypt)
                  ELSE 0
  BY <1>7, Zenon DEF RetrieveCertificate, Nil
<1>9. \A id : FindCertificateByID(q.list, id) = IF id \in listed THEN id ELSE 0
  BY DEF FindCertificateByID, Nil
<1> HIDE DEF chosen, names, listed, retrieved, byDomain, created
<1>10. ASSUME given # {}, references[Min(given)] \in listed
       PROVE  chosen = references[Min(given)]
  <2> DEFINE first == Min(given)
  <2>1. first \in given /\ \A j \in given : first <= j
    <3>1. given \subseteq Nat
      OBVIOUS
    <3> QED BY <1>10, <3>1, MinIsLeast, Zenon
  <2>2. \A i \in 1 .. 3 : i \in given <=> references[i] # Absent
    OBVIOUS
  <2>3. first \in {1, 2, 3}
    BY <2>1
  <2> HIDE DEF given, first
  <2>4. /\ (1 \in given <=> ssl.certificateId # Absent)
        /\ (2 \in given <=> ssl.custom # Absent)
        /\ (3 \in given <=> ssl.letsEncrypt # Absent)
    BY <2>2
  <2>5. /\ first = 1 => references[first] = ssl.certificateId
        /\ first = 2 => references[first] = ssl.custom
        /\ first = 3 => references[first] = ssl.letsEncrypt
    OBVIOUS
  <2>6. references[first] \in listed
    BY <1>10 DEF first
  <2> HIDE DEF references
  <2>7. retrieved = FindCertificateByID(q.list, references[first])
    <3>1. CASE first = 1
      BY <1>8, <2>1, <2>4, <2>5, <3>1
    <3>2. CASE first = 2
      <4>1. 1 \notin given
        BY <2>1, <3>2
      <4> QED BY <1>8, <2>1, <2>4, <2>5, <3>2, <4>1
    <3>3. CASE first = 3
      <4>1. 1 \notin given /\ 2 \notin given
        BY <2>1, <3>3
      <4> QED BY <1>8, <2>1, <2>4, <2>5, <3>3, <4>1
    <3> QED BY <2>3, <3>1, <3>2, <3>3
  <2>8. retrieved = references[first] /\ retrieved # 0
    BY <1>4, <1>9, <2>6, <2>7
  <2> QED BY <1>6, <2>8 DEF first
<1>11. ASSUME chosen > Len(q.list),
              NEW c \in listed,
              \A i \in DOMAIN names : \E n \in q.list[c].names : Covers(n, names[i])
       PROVE  FALSE
  <2>1. retrieved \in listed \cup {0}
    BY <1>8, <1>9
  <2>2. retrieved = 0 /\ byDomain = 0
    <3>1. byDomain # 0 => byDomain \in listed
      BY <1>2, SearchesFind DEF byDomain, listed
    <3>2. chosen \notin listed \cup {0}
      <4>1. chosen > k
        BY <1>2, <1>11
      <4>2. \A c1 \in listed \cup {0} : ~(c1 > k)
        BY <1>4
      <4> QED BY <4>1, <4>2, Zenon
    <3> QED BY <1>6, <2>1, <3>1, <3>2, Zenon
  <2>3. ~\E n \in q.list[c].names : MatchedDomain(n, names[1])
    BY <1>2, <1>5, <2>2, SearchesFind DEF byDomain, listed
  <2>4. PICK n \in q.list[c].names : Covers(n, names[1])
    BY <1>5, <1>11
  <2>5. n \in AutoNames \cup GivenNames /\ names[1] \in AutoNames \cup GivenNames
    BY <1>3, <1>5
  <2>6. /\ n \in Seq(STRING) \ {<< >>} /\ names[1] \in Seq(STRING) \ {<< >>}
        /\ Head(n) = "*" => Len(n) > 2
    BY <2>5 DEF NamesAssumption
  <2>7. MatchedDomain(n, names[1])
    BY <2>4, <2>6, CoveredIsMatched
  <2> QED BY <2>3, <2>7
<1> QED BY <1>10, <1>11 DEF chosen, names, listed
-----------------------------------------------------------------------------
(* The specification                                                        *)

Questions ==
  CertificateQuestions \cup PortQuestions \cup TokenQuestions \cup HostQuestions

\* What the code answers to each kind of question.
CertificateAnswer ==
  [chosen |-> makeCertificate(question.ssl, question.list, question.domains),
   adopted |-> ExistingCertificate(question.list, extractDomainsWithoutPorts(question.domains))]

PortAnswer ==
  [proxyHost |-> Ports!ProxyHostPort(question.service, question.forward),
   stream |-> Ports!StreamPort(question.service, question.forward)]

TokenAnswer == [used |-> Lookup!FindToken(question.tokens, question.reference, Own)]

HostAnswer == [found |-> Matching!FindProxyHostByDomain(question.hosts, question.domains)]

\* The question stays what it was, and an answer is the code's.
SelectionInv ==
  /\ question \in Questions
  /\ answer # Undecided =>
       /\ question.kind = "certificate" => answer = CertificateAnswer
       /\ question.kind = "port" => answer = PortAnswer
       /\ question.kind = "token" => answer = TokenAnswer
       /\ question.kind = "host" => answer = HostAnswer

\* The kind of a question says which one it is.
LEMMA QuestionKinds ==
  ASSUME NEW q \in Questions
  PROVE  /\ q.kind = "certificate" <=> q \in CertificateQuestions
         /\ q.kind = "port" <=> q \in PortQuestions
         /\ q.kind = "token" <=> q \in TokenQuestions
         /\ q.kind = "host" <=> q \in HostQuestions
<1>1. q \in CertificateQuestions => q.kind = "certificate"
  BY DEF CertificateQuestions, CertificatesAsked
<1>2. q \in PortQuestions => q.kind = "port"
  BY DEF PortQuestions
<1>3. q \in TokenQuestions => q.kind = "token"
  BY DEF TokenQuestions
<1>4. q \in HostQuestions => q.kind = "host"
  BY DEF HostQuestions
<1> QED BY <1>1, <1>2, <1>3, <1>4 DEF Questions

\* SelectionInv holds when a question is chosen and whatever is answered.
LEMMA SelectionInvariant ==
  SelectionSpec => []SelectionInv
<1>1. SelectionInit => SelectionInv
  BY Zenon DEF SelectionInit, SelectionInv, Questions
<1>2. ASSUME SelectionInv, [SelectionNext]_(requestVars)
      PROVE  SelectionInv'
  <2> USE <1>2
  <2>1. question' = question
    BY DEF SelectionNext, ChooseCertificate, ChoosePort, ChooseToken, ChooseHost,
           requestVars
  <2>2. question' \in Questions
    BY <2>1, Zenon DEF SelectionInv
  <2>3. /\ CertificateAnswer' = CertificateAnswer /\ PortAnswer' = PortAnswer
        /\ TokenAnswer' = TokenAnswer /\ HostAnswer' = HostAnswer
    BY <2>1, Zenon DEF CertificateAnswer, PortAnswer, TokenAnswer, HostAnswer
  <2>4. CASE ChooseCertificate
    <3>1. question.kind = "certificate" /\ answer' = CertificateAnswer
      BY <2>4 DEF ChooseCertificate, Asked, Names, CertificateAnswer
    <3> QED BY <2>1, <2>2, <2>3, <3>1 DEF SelectionInv
  <2>5. CASE ChoosePort
    <3>1. question.kind = "port" /\ answer' = PortAnswer
      BY <2>5 DEF ChoosePort, Asked, PortAnswer
    <3> QED BY <2>1, <2>2, <2>3, <3>1 DEF SelectionInv
  <2>6. CASE ChooseToken
    <3>1. question.kind = "token" /\ answer' = TokenAnswer
      BY <2>6 DEF ChooseToken, Asked, TokenAnswer
    <3> QED BY <2>1, <2>2, <2>3, <3>1 DEF SelectionInv
  <2>7. CASE ChooseHost
    <3>1. question.kind = "host" /\ answer' = HostAnswer
      BY <2>7 DEF ChooseHost, Asked, HostAnswer
    <3> QED BY <2>1, <2>2, <2>3, <3>1 DEF SelectionInv
  <2>8. CASE UNCHANGED requestVars
    <3>1. answer' = answer
      BY <2>8 DEF requestVars
    <3> QED BY <2>1, <2>2, <2>3, <3>1 DEF SelectionInv
  <2> QED BY <2>4, <2>5, <2>6, <2>7, <2>8 DEF SelectionNext
<1> QED BY <1>1, <1>2, PTL DEF SelectionSpec

\* A certificate that CreateLetEncryptCertificate adopts is the one certificate
\* of all the domains, if each has one.
THEOREM AdoptionIsUnanimous ==
  ASSUME BoundsAssumption
  PROVE  SelectionSpec => []UnanimousOrNew
<1>1. ASSUME SelectionInv
      PROVE  UnanimousOrNew
  <2> SUFFICES ASSUME Answered("certificate")
               PROVE  LET found == {FindLetEncryptCertificate(question.list, Names[i]) :
                                      i \in DOMAIN Names}
                      IN  Nil \notin found =>
                            answer.adopted = (IF \E c \in found : found = {c}
                                              THEN CHOOSE c \in found : TRUE ELSE Nil)
    BY DEF UnanimousOrNew
  <2>1. answer = CertificateAnswer /\ question \in CertificateQuestions
    BY <1>1, QuestionKinds DEF SelectionInv, Answered
  <2>2. PICK m \in Nat \ {0} : DOMAIN question.domains = 1 .. m
    BY <2>1, CertificateAsked
  <2>3. DOMAIN Names = 1 .. m /\ Len(Names) = m
    BY <2>2 DEF Names, extractDomainsWithoutPorts
  <2>4. answer.adopted = ExistingCertificate(question.list, Names)
    BY <2>1 DEF CertificateAnswer, Names
  <2> QED BY <2>3, <2>4, AdoptedIsUnanimous
<1> QED BY <1>1, SelectionInvariant, PTL

\* The first reference that is given decides, and nothing is requested while
\* there is a certificate that is good for all the domains (makeCertificate).
THEOREM PriorityIsHonoured ==
  ASSUME NamesAssumption, FailedAssumption, BoundsAssumption
  PROVE  SelectionSpec => []PriorityHonoured
<1>1. ASSUME SelectionInv
      PROVE  PriorityHonoured
  <2> SUFFICES ASSUME Answered("certificate"), question.ssl # NoSsl, answer.chosen # Failed
               PROVE  PriorityHonoured
    BY DEF PriorityHonoured
  <2>1. answer = CertificateAnswer /\ question \in CertificateQuestions
    BY <1>1, QuestionKinds DEF SelectionInv, Answered
  <2>2. answer.chosen = makeCertificate(question.ssl, question.list, question.domains)
    BY <2>1 DEF CertificateAnswer
  <2> QED BY <2>1, <2>2, CertificateChosen, Zenon
          DEF PriorityHonoured, Names
<1> QED BY <1>1, SelectionInvariant, PTL

\* The certificate that is found for the only domain of a request, one of more
\* than two labels, is valid for it in the sense of TLS.
THEOREM AdoptedIsValid ==
  ASSUME NamesAssumption, BoundsAssumption
  PROVE  SelectionSpec => []FoundIsValid
<1>1. ASSUME SelectionInv
      PROVE  FoundIsValid
  <2> SUFFICES ASSUME Answered("certificate"), answer.adopted # Nil, Len(Names) = 1,
                      Len(Head(Names)) > 2
               PROVE  \E n \in question.list[answer.adopted].names : Covers(n, Head(Names))
    BY DEF FoundIsValid
  <2> DEFINE d == Head(Names)
             c == answer.adopted
  <2>1. answer = CertificateAnswer /\ question \in CertificateQuestions
    BY <1>1, QuestionKinds DEF SelectionInv, Answered
  <2>2. PICK m \in Nat \ {0} : /\ DOMAIN question.domains = 1 .. m
                              /\ \A i \in 1 .. m :
                                   question.domains[i].name \in AutoNames \cup GivenNames
    BY <2>1, CertificateAsked
  <2>3. PICK k \in Nat : DOMAIN question.list = 1 .. k
    BY <2>1, CertificateAsked
  <2>4. /\ DOMAIN Names = 1 .. m /\ Len(Names) = m /\ d = Names[1]
        /\ Names[1] \in AutoNames \cup GivenNames
    BY <2>2 DEF Names, extractDomainsWithoutPorts
  <2>5. c = ExistingCertificate(question.list, Names)
    BY <2>1 DEF CertificateAnswer, Names
  <2>6. c = FindLetEncryptCertificate(question.list, Names[1])
    BY <2>4, <2>5 DEF ExistingCertificate, Nil
  <2>7. c # 0
    BY DEF Nil
  <2>8. c \in Certificates(question.list)
        /\ \E n \in question.list[c].names : MatchedDomain(n, Names[1])
    BY <2>3, <2>6, <2>7, SearchesFind, Zenon
  <2>9. PICK n \in question.list[c].names : MatchedDomain(n, d)
    BY <2>4, <2>8
  <2>10. question.list[c].names \subseteq AutoNames \cup GivenNames
    BY <2>1, <2>8, CertificateAsked
  <2>11. n \in Seq(STRING) \ {<< >>} /\ d \in Seq(STRING) \ {<< >>} /\ Len(d) > 2
    BY <2>4, <2>10 DEF NamesAssumption
  <2>12. Covers(n, d)
    BY <2>9, <2>11, MatchedIsCovered
  <2> QED BY <2>12
<1> QED BY <1>1, SelectionInvariant, PTL

\* A ProxyHost or a Stream forwards to the port that its spec asks for, and to
\* the first port where it asks for none and none is preferred.
THEOREM AskedPortIsUsed ==
  ASSUME BoundsAssumption
  PROVE  SelectionSpec => []PortAsAsked
<1>1. ASSUME SelectionInv
      PROVE  PortAsAsked
  <2> SUFFICES ASSUME Answered("port")
               PROVE  PortAsAsked
    BY DEF PortAsAsked
  <2> DEFINE forward == question.forward
             service == question.service
             containing == {i \in DOMAIN service.ports : forward.portName \in service.ports[i].words}
             named == {i \in containing :
                         forward.portName = "http" => "https" \notin service.ports[i].words}
             preferred == {i \in DOMAIN service.ports :
                             \/ "https" \in service.ports[i].words
                             \/ forward.scheme # "https" /\ "http" \in service.ports[i].words}
             speaking == {i \in DOMAIN service.ports :
                            \/ forward.tcp /\ service.ports[i].protocol = "tcp"
                            \/ forward.udp /\ service.ports[i].protocol = "udp"}
  <2>1. answer = PortAnswer /\ question \in PortQuestions
    BY <1>1, QuestionKinds DEF SelectionInv, Answered
  <2>2. service \in Services /\ forward \in Forwards /\ MaxPorts \in Nat
    BY <2>1 DEF PortQuestions, BoundsAssumption
  <2>3. /\ answer.proxyHost = Ports!ProxyHostPort(service, forward)
        /\ answer.stream = Ports!StreamPort(service, forward)
    BY <2>1 DEF PortAnswer
  <2>4. forward.portName = Unset /\ forward.port # Unset =>
          answer.proxyHost = forward.port /\ answer.stream = forward.port
    BY <2>2, <2>3, GivenPortIsTaken
  <2>5. forward.portName # Unset /\ forward.port = Unset =>
          /\ named # {} => answer.proxyHost \in {Ports!Number(service, i) : i \in named}
          /\ containing # {} => answer.stream \in {Ports!Number(service, i) : i \in containing}
    BY <2>2, <2>3, NamedPortIsFound
  <2>6. forward.portName = Unset /\ forward.port = Unset /\ service.ports # << >> =>
          /\ preferred = {} => answer.proxyHost = Ports!Number(service, 1)
          /\ speaking = {} => answer.stream = Ports!Number(service, 1)
    <3>1. preferred = {} =>
            \A i \in DOMAIN service.ports :
              /\ "https" \notin service.ports[i].words
              /\ forward.scheme # "https" => "http" \notin service.ports[i].words
      OBVIOUS
    <3>2. speaking = {} =>
            \A i \in DOMAIN service.ports :
              /\ forward.tcp => service.ports[i].protocol # "tcp"
              /\ forward.udp => service.ports[i].protocol # "udp"
      OBVIOUS
    <3> HIDE DEF preferred, speaking, forward, service
    <3> QED BY <2>2, <2>3, <3>1, <3>2, FirstPortIsDefault
  <2> QED BY <2>4, <2>5, <2>6 DEF PortAsAsked
<1> QED BY <1>1, SelectionInvariant, PTL

\* A token farther away is never used while the nearest namespace has one for
\* the reference, and one that is not usable yet is waited for.
THEOREM TokenIsNearest == SelectionSpec => []NearestToken
<1>1. ASSUME SelectionInv
      PROVE  NearestToken
  <2> SUFFICES ASSUME Answered("token")
               PROVE  NearestToken
    BY DEF NearestToken
  <2>1. answer = TokenAnswer
    BY <1>1 DEF SelectionInv, Answered
  <2>2. answer.used = Lookup!FindToken(question.tokens, question.reference, Own)
    BY <2>1 DEF TokenAnswer
  <2> DEFINE reference == question.reference
             names == Lookup!NamesOf(reference)
             near == IF reference = Unset \/ reference.namespace = Unset THEN Own
                     ELSE reference.namespace
             tokens == question.tokens
  <2>3. /\ reference # Unset /\ tokens[near][reference.name] # "absent"
             => answer.used \in {<<near, reference.name>>, NoToken}
        /\ (\E i \in DOMAIN names : tokens[near][names[i]] # "absent")
             => answer.used = NoToken \/ answer.used[1] = near
    BY <2>2, TokenIsNear
  <2> QED BY <2>3 DEF NearestToken, Exists
<1> QED BY <1>1, SelectionInvariant, PTL

\* The host of NPM that has the domains of the spec is found, whatever their
\* order, and if there are several, the first one.
THEOREM MatchingHostIsFound ==
  ASSUME BoundsAssumption
  PROVE  SelectionSpec => []MatchIsFound
<1>1. ASSUME SelectionInv
      PROVE  MatchIsFound
  <2> SUFFICES ASSUME Answered("host")
               PROVE  MatchIsFound
    BY DEF MatchIsFound
  <2>1. answer = HostAnswer /\ question \in HostQuestions
    BY <1>1, QuestionKinds DEF SelectionInv, Answered
  <2>2. answer.found = Matching!FindProxyHostByDomain(question.hosts, question.domains)
    BY <2>1 DEF HostAnswer
  <2>3. MaxDomains \in Nat /\ MaxHosts \in Nat
    BY DEF BoundsAssumption
  <2> QED BY <2>1, <2>2, <2>3, HostIsFound, Zenon DEF MatchIsFound, Same
<1> QED BY <1>1, SelectionInvariant, PTL
==============================================================================
