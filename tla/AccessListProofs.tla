--------------------------- MODULE AccessListProofs ---------------------------
(***************************************************************************)
(* Theorems about AccessListController, alone and beside the proxy host of *)
(* AccessListUse, for every value of the constants.                        *)
(***************************************************************************)
EXTENDS AccessListUse, FrameProofs

\* A resource owns the list that its status records.
AccessLists ==
  [objects |-> AccessList, owned |-> {o \in AccessList : o.id # NoId},
   remote |-> Specs, inputs |-> {}, pcs |-> PCs, disowns |-> FALSE]

\* What the worker writes and records is a list made for its resource.
FoundInv ==
  /\ pc \in {"write", "save"} /\ rid # NoId => rid \in Ids /\ maker[rid] = req
  /\ pc = "save" => rid # NoId

ListInv == FrameInv(AccessLists) /\ FoundInv

\* The parts of the kind.
LEMMA AccessListsParts ==
  /\ AccessLists.objects = AccessList
  /\ AccessLists.remote = Specs /\ AccessLists.inputs = {} /\ AccessLists.pcs = PCs
  /\ AccessLists.disowns = FALSE
  /\ \A o \in AccessList : o \in AccessLists.owned <=> o.id # NoId
  /\ AccessLists.owned \subseteq AccessList
BY DEF AccessLists

\* An access list as a kind of the frame.
LEMMA AccessListIsKind == IsKind(AccessLists)
<1>1. \A o \in AccessList : o # NoObj
  BY NullsAssumption
<1>2. {"idle", "finalizer", "reconciling", "client", "delete", "removeFinalizer", "find", "fail",
       "done", "requeue"} \subseteq PCs
  BY DEF PCs
<1>3. \A v, o \in AccessList :
        v.fin = o.fin /\ v.deleting = o.deleting /\ v.id = o.id => Agrees(v, o, AccessLists)
  BY <1>1, AccessListsParts DEF Agrees, SameLife
<1>4. ASSUME NEW o \in AccessList, NEW type \in ConditionTypes
      PROVE  SetCondition(o, type) \in AccessList /\ Agrees(SetCondition(o, type), o, AccessLists)
  <2> DEFINE v == SetCondition(o, type)
  <2>1. v \in AccessList /\ v.fin = o.fin /\ v.deleting = o.deleting /\ v.id = o.id
    BY DEF AccessList, SetCondition
  <2> HIDE DEF v
  <2>2. v \in AccessList /\ Agrees(v, o, AccessLists)
    BY <1>3, <2>1
  <2> QED BY <2>2 DEF v
<1>5. ASSUME NEW o \in AccessList, NEW s \in Specs
      PROVE  [o EXCEPT !.spec = s] \in AccessList /\ Agrees([o EXCEPT !.spec = s], o, AccessLists)
  <2> DEFINE v == [o EXCEPT !.spec = s]
  <2>1. v \in AccessList /\ v.fin = o.fin /\ v.deleting = o.deleting /\ v.id = o.id
    BY DEF AccessList
  <2> HIDE DEF v
  <2>2. v \in AccessList /\ Agrees(v, o, AccessLists)
    BY <1>3, <2>1
  <2> QED BY <2>2 DEF v
<1>6. ASSUME NEW o \in AccessList
      PROVE  /\ o.fin \in BOOLEAN /\ o.deleting \in BOOLEAN
             /\ LET v == WithFinalizer(o)
                IN  /\ v \in AccessList /\ v.fin /\ v.deleting = o.deleting /\ v.id = o.id
                    /\ v \in AccessLists.owned <=> o \in AccessLists.owned
             /\ LET v == [o EXCEPT !.deleting = TRUE]
                IN  /\ v \in AccessList /\ v.fin = o.fin /\ v.deleting /\ v.id = o.id
                    /\ v \in AccessLists.owned <=> o \in AccessLists.owned
  <2> DEFINE v == WithFinalizer(o)
             w == [o EXCEPT !.deleting = TRUE]
  <2>1. /\ o.fin \in BOOLEAN /\ o.deleting \in BOOLEAN
        /\ v \in AccessList /\ v.fin /\ v.deleting = o.deleting /\ v.id = o.id
        /\ w \in AccessList /\ w.fin = o.fin /\ w.deleting /\ w.id = o.id
    BY DEF AccessList, WithFinalizer
  <2> HIDE DEF v, w
  <2>2. /\ v \in AccessLists.owned <=> o \in AccessLists.owned
        /\ w \in AccessLists.owned <=> o \in AccessLists.owned
    BY <2>1, AccessListsParts
  <2> QED BY <2>1, <2>2 DEF v, w
<1>7. \A o \in AccessLists.owned : o.id \in Ids
  BY AccessListsParts DEF AccessList
<1> QED BY <1>2, <1>4, <1>5, <1>6, <1>7, AccessListsParts, NullsAssumption DEF IsKind

-----------------------------------------------------------------------------
(* The calls of createOrUpdateAccessList                                    *)

\* The worker's copy, while it works.
LEMMA WorkerFacts ==
  ASSUME ListInv, pc # "idle"
  PROVE  /\ req \in Keys /\ obj \in AccessList /\ obj.id \in Ids \cup {NoId} /\ obj.spec \in Specs
         /\ faults \in Nat
         /\ obj.id # NoId => maker[obj.id] = req
<1>1. req \in Keys /\ obj \in AccessList /\ faults \in Nat
  BY AccessListsParts DEF ListInv, FrameInv, WorkerInv, Types, FrameTypeOK
<1>2. obj.id # NoId => maker[obj.id] = req
  BY <1>1, AccessListsParts DEF ListInv, FrameInv, OwnersInv
<1> QED BY <1>1, <1>2 DEF AccessList

\* The list found is the one recorded, which was made for this resource.
LEMMA FindStep ==
  ASSUME ListInv, FindAccessListByID
  PROVE  ListInv' /\ LedgerStep(AccessLists)
<1>0. FrameInv(AccessLists) /\ IsKind(AccessLists)
  BY AccessListIsKind DEF ListInv
<1>1. /\ UNCHANGED <<kubeVars, req, obj, fresh, marked, input, remoteVars, ops>> /\ pc = "find"
      /\ \/ pc' = "write" /\ rid' \in {obj.id, NoId} /\ UNCHANGED faults
         \/ Fault("npm") /\ pc' = "fail" /\ UNCHANGED rid
  BY DEF FindAccessListByID
<1>2. /\ req \in Keys /\ obj.id \in Ids \cup {NoId} /\ faults \in Nat
      /\ obj.id # NoId => maker[obj.id] = req
  BY <1>1, WorkerFacts
<1>3. faults' \in Nat /\ rid \in Ids \cup {NoId} /\ input = NoInput
  BY <1>0, <1>1, <1>2, FaultKeeps, AccessListsParts DEF FrameInv, Types, FrameTypeOK
<1>4. FrameInv(AccessLists)' /\ LedgerStep(AccessLists)
  <2>1. Creating /\ Creating' /\ pc' \in AccessLists.pcs
    BY <1>1, AccessListsParts DEF Creating, PCs
  <2>2. RemoteEffect(AccessLists)
    BY <1>1 DEF RemoteEffect
  <2>3. rid' \in Ids \cup {NoId} /\ input' \in AccessLists.inputs \cup {NoInput}
    BY <1>1, <1>2, <1>3
  <2> QED BY <1>0, <1>1, <1>3, <2>1, <2>2, <2>3, WorkStep
<1>5. FoundInv'
  BY <1>1, <1>2 DEF FoundInv, remoteVars
<1> QED BY <1>4, <1>5 DEF ListInv

\* A list is created for this resource, or nothing is recorded.
LEMMA CreateStep ==
  ASSUME ListInv, CreateAccessList
  PROVE  ListInv' /\ LedgerStep(AccessLists)
<1>0. FrameInv(AccessLists) /\ IsKind(AccessLists) /\ Types(AccessLists) /\ OwnersInv(AccessLists)
  BY AccessListIsKind DEF ListInv, FrameInv
<1>1. PICK ok \in BOOLEAN :
        /\ UNCHANGED <<kubeVars, req, obj, fresh, marked, input, ops>> /\ pc = "write"
        /\ CreateRemote(obj.spec, FALSE, ok)
        /\ pc' = (IF ok THEN "save" ELSE "fail") /\ rid' = (IF ok THEN nextId ELSE NoId)
  BY DEF CreateAccessList
<1>2. req \in Keys /\ faults \in Nat /\ obj.spec \in AccessLists.remote
  BY <1>1, WorkerFacts, AccessListsParts
<1>3. RemoteEffect(AccessLists) /\ faults' \in Nat
  BY <1>1, <1>2, RequestEffects
<1>4. ok => Post(req, obj.spec)
  BY <1>1 DEF CreateRemote
<1>5. ok => nextId \in Ids /\ maker'[nextId] = req
  <2>1. ASSUME ok
        PROVE  /\ nextId \in Ids /\ maker' = [maker EXCEPT ![nextId] = req]
               /\ maker' \in [Ids -> Keys \cup {NoKey}]
    BY <1>0, <1>2, <1>4, <2>1, PostKeeps
  <2> QED BY <1>0, <2>1 DEF Types, FrameTypeOK
<1>6. FrameInv(AccessLists)' /\ LedgerStep(AccessLists)
  <2>1. Creating /\ Creating' /\ pc' \in AccessLists.pcs
    BY <1>1, AccessListsParts DEF Creating, PCs
  <2>2. rid' \in Ids \cup {NoId} /\ input' \in AccessLists.inputs \cup {NoInput}
    BY <1>0, <1>1, <1>5 DEF Types, FrameTypeOK
  <2> QED BY <1>0, <1>1, <1>3, <2>1, <2>2, WorkStep
<1>7. FoundInv'
  <2>1. NoId \notin Ids
    BY FrameAssumption DEF Ids
  <2> QED BY <1>1, <1>5, <2>1 DEF FoundInv
<1> QED BY <1>6, <1>7 DEF ListInv

\* The list that was found is rewritten.
LEMMA UpdateStep ==
  ASSUME ListInv, UpdateAccessList
  PROVE  ListInv' /\ LedgerStep(AccessLists)
<1>0. FrameInv(AccessLists) /\ IsKind(AccessLists) /\ Types(AccessLists) /\ FoundInv
  BY AccessListIsKind DEF ListInv, FrameInv
<1>1. PICK ok \in BOOLEAN :
        /\ UNCHANGED <<kubeVars, req, obj, fresh, marked, rid, input, ops>> /\ pc = "write"
        /\ rid # NoId /\ UpdateRemote(rid, obj.spec, ok)
        /\ pc' = (IF ok THEN "save" ELSE "fail")
  BY DEF UpdateAccessList
<1>2. req \in Keys /\ faults \in Nat /\ obj.spec \in AccessLists.remote
  BY <1>1, WorkerFacts, AccessListsParts
<1>3. rid \in Ids /\ maker[rid] = req
  BY <1>0, <1>1 DEF FoundInv
<1>4. RemoteEffect(AccessLists) /\ faults' \in Nat /\ maker' = maker
  BY <1>1, <1>2, <1>3, RequestEffects DEF UpdateRemote, Put, remoteVars
<1>5. FrameInv(AccessLists)' /\ LedgerStep(AccessLists)
  <2>1. Creating /\ Creating' /\ pc' \in AccessLists.pcs
    BY <1>1, AccessListsParts DEF Creating, PCs
  <2>2. rid' \in Ids \cup {NoId} /\ input' \in AccessLists.inputs \cup {NoInput}
    BY <1>0, <1>1 DEF Types, FrameTypeOK
  <2> QED BY <1>0, <1>1, <1>4, <2>1, <2>2, WorkStep
<1>6. FoundInv'
  BY <1>1, <1>3, <1>4 DEF FoundInv
<1> QED BY <1>5, <1>6 DEF ListInv

\* The status records the list that was written.
LEMMA SaveStep ==
  ASSUME ListInv, SaveStatus
  PROVE  ListInv' /\ LedgerStep(AccessLists)
<1>0. FrameInv(AccessLists) /\ IsKind(AccessLists) /\ FoundInv
  BY AccessListIsKind DEF ListInv
<1>1. PICK ok \in BOOLEAN :
        /\ StatusWrite([Cached EXCEPT !.id = rid], TRUE, ok)
        /\ UNCHANGED <<cache, queue, req, marked, rid, input, remoteVars, ops>>
        /\ pc = "save" /\ pc' \in {"ready", "fail"}
  BY DEF SaveStatus
<1>2. rid \in Ids /\ maker[rid] = req /\ req \in Keys /\ rid # NoId
  BY <1>0, <1>1, WorkerFacts DEF FoundInv
<1>3. Creating /\ Creating' /\ pc' \in AccessLists.pcs
  BY <1>1, AccessListsParts DEF Creating, PCs
<1>4. ASSUME cache[req] # NoObj
      PROVE  StatusOf([Cached EXCEPT !.id = rid], cache[req], AccessLists)
  <2> DEFINE v == [Cached EXCEPT !.id = rid]
  <2>1. Cached = cache[req] /\ cache[req] \in AccessList
    BY <1>0, <1>2, <1>4, FrameTypes, AccessListsParts DEF Cached
  <2>2. v \in AccessList /\ v.fin = cache[req].fin /\ v.deleting = cache[req].deleting /\ v.id = rid
    BY <1>2, <2>1 DEF AccessList
  <2> HIDE DEF v
  <2>3. v # NoObj /\ v \in AccessLists.objects /\ v \in AccessLists.owned
    BY <1>2, <2>2, AccessListsParts, NullsAssumption
  <2>4. StatusOf(v, cache[req], AccessLists)
    BY <1>2, <1>3, <1>4, <2>2, <2>3 DEF StatusOf, SameLife
  <2> QED BY <2>4 DEF v
<1>5. FrameInv(AccessLists)' /\ LedgerStep(AccessLists)
  BY <1>0, <1>1, <1>3, <1>4, StatusStep
<1> QED BY <1>1, <1>5 DEF ListInv, FoundInv
-----------------------------------------------------------------------------
(* All steps                                                                *)

\* Every step of the access list's controller keeps the invariant and is a
\* step of the ledger.
LEMMA NextListInv ==
  ASSUME ListInv, [Next]_vars
  PROVE  ListInv' /\ LedgerStep(AccessLists)
<1>0. FrameInv(AccessLists) /\ IsKind(AccessLists) /\ FoundInv
  BY AccessListIsKind DEF ListInv
<1>1. ASSUME FrameInv(AccessLists)' /\ LedgerStep(AccessLists),
             \/ pc' \notin {"write", "save"}
             \/ UNCHANGED <<pc, req, rid, maker>>
      PROVE  ListInv' /\ LedgerStep(AccessLists)
  BY <1>0, <1>1 DEF ListInv, FoundInv
<1>2. CASE createOrUpdateAccessList
  BY <1>2, FindStep, CreateStep, UpdateStep, SaveStep DEF createOrUpdateAccessList
<1>3. CASE EnsureFinalizer(api[req]) \/ DropFinalizer(api[req])
  <2>1. api[req] \in AccessLists.objects =>
          api[req] \in AccessLists.objects /\ Agrees(api[req], api[req], AccessLists)
    BY <1>0, ObjectFacts DEF Agrees, SameLife
  <2>2. FrameInv(AccessLists)' /\ LedgerStep(AccessLists)
    BY <1>0, <1>3, <2>1, EnsureFinalizerStep, DropFinalizerStep
  <2> QED BY <1>1, <1>3, <2>2 DEF EnsureFinalizer, DropFinalizer
<1>4. CASE MarkReconciling(TRUE) \/ MarkReady(TRUE) \/ MarkError(TRUE)
  BY <1>0, <1>1, <1>4, ConditionSteps DEF MarkReconciling, MarkReady, MarkError
<1>5. CASE InitNginxPMClient(obj.id # NoId)
  <2>1. obj \in AccessLists.objects => (obj.id # NoId <=> obj \in AccessLists.owned)
    BY AccessListsParts
  <2>2. FrameInv(AccessLists)' /\ LedgerStep(AccessLists)
    BY <1>0, <1>5, <2>1, InitNginxPMClientStep
  <2> QED BY <1>1, <1>5, <2>2 DEF InitNginxPMClient
<1>6. CASE DeleteRemote \/ Return \/ Crash
  BY <1>0, <1>1, <1>6, DeleteRemoteStep, ReturnStep, CrashStep DEF DeleteRemote, Return, Reset, Crash
<1>7. ASSUME NEW k \in Keys, Dequeue(k) \/ WatchEvent(k)
      PROVE  ListInv' /\ LedgerStep(AccessLists)
  <2>1. FrameInv(AccessLists)' /\ LedgerStep(AccessLists)
    BY <1>0, <1>7, DequeueStep, WatchEventStep
  <2> QED BY <1>1, <1>7, <2>1 DEF Dequeue, WatchEvent, helperVars, localVars, remoteVars
<1>8. ASSUME NEW k \in Keys, NEW s \in Specs, UserCreate(k, NewAccessList(s)) \/ UserEdit(k, s)
      PROVE  ListInv' /\ LedgerStep(AccessLists)
  <2>1. /\ NewAccessList(s) \in AccessLists.objects /\ NewAccessList(s) \notin AccessLists.owned
        /\ ~NewAccessList(s).fin /\ ~NewAccessList(s).deleting
    BY AccessListsParts DEF NewAccessList, AccessList
  <2>2. FrameInv(AccessLists)' /\ LedgerStep(AccessLists)
    BY <1>0, <1>8, <2>1, UserCreateStep, UserEditStep
  <2> QED BY <1>1, <1>8, <2>2 DEF UserCreate, UserEdit, UserWrite, localVars, remoteVars
<1>9. ASSUME NEW k \in Keys, UserDelete(k) \/ Trigger(k)
      PROVE  ListInv' /\ LedgerStep(AccessLists)
  <2>1. CASE UserDelete(k)
    BY <1>0, <1>1, <2>1, UserDeleteStep DEF UserDelete, UserWrite, localVars, remoteVars
  <2>2. CASE Trigger(k)
    <3>1. queue' \subseteq Keys
      BY <1>0, <2>2 DEF Trigger, FrameInv, Types, FrameTypeOK
    <3>2. FrameInv(AccessLists)' /\ LedgerStep(AccessLists)
      BY <1>0, <2>2, <3>1, QueueStep DEF Trigger
    <3> QED BY <1>1, <2>2, <3>2 DEF Trigger, helperVars, localVars, remoteVars
  <2> QED BY <1>9, <2>1, <2>2
<1>10. ASSUME NEW i \in Ids, AdminRemove(i)
       PROVE  ListInv' /\ LedgerStep(AccessLists)
  BY <1>0, <1>1, <1>10, AdminRemoveStep DEF AdminRemove, helperVars, localVars
<1>11. CASE UNCHANGED vars
  <2>1. UNCHANGED <<pc, req, rid, maker>>
    BY <1>11 DEF vars, helperVars, localVars, remoteVars
  <2> QED BY <1>0, <1>1, <1>11, <2>1, FrameStutters
<1> QED BY <1>2, <1>3, <1>4, <1>5, <1>6, <1>7, <1>8, <1>9, <1>10, <1>11
        DEF Next, Reconcile, Users

-----------------------------------------------------------------------------
(* The theorems                                                             *)

\* The initial states.
LEMMA ListStarts ==
  ASSUME FrameInit
  PROVE  ListInv /\ Ledgers(AccessLists)!Init
BY AccessListIsKind, FrameInitInv DEF ListInv, FoundInv, FrameInit

\* What the ledger of the kind holds is what AccessListController's holds.
LEMMA SameHeld ==
  ASSUME NEW f \in [Keys -> AccessList \cup {NoObj}]
  PROVE  [k \in Keys |-> IF f[k] \in AccessLists.owned THEN f[k].id ELSE NoId]
         = [k \in Keys |-> IF f[k] # NoObj THEN f[k].id ELSE NoId]
<1>1. ASSUME NEW k \in Keys
      PROVE  (IF f[k] \in AccessLists.owned THEN f[k].id ELSE NoId)
             = IF f[k] # NoObj THEN f[k].id ELSE NoId
  BY AccessListsParts, NullsAssumption
<1> QED BY <1>1

\* The two ledgers start alike.
LEMMA SameStart ==
  ASSUME ListInv, Ledgers(AccessLists)!Init
  PROVE  Ledger!Init
<1>1. api \in [Keys -> AccessList \cup {NoObj}]
  BY AccessListsParts, FrameTypes DEF ListInv
<1>2. Held(AccessLists) = [k \in Keys |-> IF Live(k) THEN api[k].id ELSE NoId]
  BY <1>1, SameHeld DEF Held, Live
<1> QED BY <1>2 DEF Ledger!Init, Ledgers!Init, Present, Leaving, AliveIds

\* And their steps are the same.
LEMMA SameSteps ==
  ASSUME ListInv, ListInv', LedgerStep(AccessLists)
  PROVE  [Ledger!Next]_Ledger!ledgerVars
<1>1. /\ Held(AccessLists) = [k \in Keys |-> IF Live(k) THEN api[k].id ELSE NoId]
      /\ Held(AccessLists)' = [k \in Keys |-> IF Live(k)' THEN api'[k].id ELSE NoId]
  <2>1. api \in [Keys -> AccessList \cup {NoObj}] /\ api' \in [Keys -> AccessList \cup {NoObj}]
    BY AccessListsParts DEF ListInv, FrameInv, Types, FrameTypeOK
  <2> QED BY <2>1, SameHeld DEF Held, Live
<1> QED BY <1>1, AccessListsParts
        DEF LedgerStep, Present, Leaving, AliveIds,
            Ledger!ledgerVars, Ledger!Next, Ledger!Others, Ledger!Operator, Ledger!Appear,
            Ledger!Edit, Ledger!Mark, Ledger!Withdraw, Ledger!Outside, Ledger!Create,
            Ledger!Record, Ledger!Disown, Ledger!Removable, Ledger!Remove, Ledger!Abandon,
            Ledger!Leave,
            Ledgers!ledgerVars, Ledgers!Next, Ledgers!Others, Ledgers!Operator, Ledgers!Appear,
            Ledgers!Edit, Ledgers!Mark, Ledgers!Withdraw, Ledgers!Outside, Ledgers!Create,
            Ledgers!Record, Ledgers!Disown, Ledgers!Removable, Ledgers!Remove, Ledgers!Abandon,
            Ledgers!Leave

\* The access list's controller implements the ledger: it creates lists only
\* for resources that exist, records only what it created for that resource,
\* deletes only what belongs to a resource that is going, and lets that go only
\* when its list is gone or could not be deleted.
THEOREM AccessListLedger == Spec => ImplementsLedger
<1>1. FrameInit => ListInv /\ Ledger!Init
  BY ListStarts, SameStart
<1>2. ListInv /\ [Next]_vars => ListInv' /\ [Ledger!Next]_Ledger!ledgerVars
  BY NextListInv, SameSteps
<1> QED BY <1>1, <1>2, PTL DEF Spec, ImplementsLedger, Ledger!Spec

-----------------------------------------------------------------------------
(* The list beside the proxy host that names it                             *)

\* The ledger in which only an id without a resource may come to life.
LEMMA NothingReturns ==
  ASSUME NEW K, LedgerStep(K), NEW i, maker[i] # NoKey, i \in AliveIds'
  PROVE  i \in AliveIds
BY DEF LedgerStep, Ledgers!ledgerVars, Ledgers!Next, Ledgers!Others, Ledgers!Operator,
       Ledgers!Appear, Ledgers!Edit, Ledgers!Mark, Ledgers!Withdraw, Ledgers!Outside,
       Ledgers!Create, Ledgers!Record, Ledgers!Disown, Ledgers!Remove, Ledgers!Abandon,
       Ledgers!Leave

\* What the proxy host's controller would read of the list now, if the list
\* still exists in NPM.
InUse(i) == cache[Reference] # NoObj /\ cache[Reference].id = i /\ i \in AliveIds

\* Unless its proxy host is queued again, what the controller has read, found
\* and written is what the cache and NPM still say.
HostInv ==
  ~hostQueued =>
    /\ hostPc = "find" => cache[Reference] # NoObj /\ cache[Reference].id = hostList
    /\ hostPc = "update" => \A i \in Ids : InUse(i) => hostList = i
    /\ hostPc \in {"done", "idle"} => \A i \in Ids : InUse(i) => access = i

UseInv == ListInv /\ HostInv

\* Every step of the access list's controller, as the proxy host sees it.
LEMMA ListStepInv ==
  ASSUME UseInv, [Next]_vars, hostQueued' = (hostQueued \/ ListEvent), Detach,
         UNCHANGED <<hostPc, hostList>>
  PROVE  UseInv'
<1>1. ListInv' /\ LedgerStep(AccessLists)
  BY NextListInv DEF UseInv
<1>2. ASSUME ~hostQueued', NEW i \in Ids, InUse(i)'
      PROVE  InUse(i) /\ (access = i => access' = i)
  <2>1. cache'[Reference] = cache[Reference] /\ cache[Reference] # NoObj /\ cache[Reference].id = i
    BY <1>2 DEF ListEvent, InUse
  <2>2. cache[Reference] \in Seen(Reference) /\ cache[Reference] \in AccessList
    BY <2>1, ReferenceAssumption, FrameTypes, AccessListsParts DEF UseInv, ListInv, Seen
  <2>3. i # NoId
    BY FrameAssumption DEF Ids
  <2>4. maker[i] # NoKey
    BY <2>1, <2>2, <2>3, ReferenceAssumption, KeysAssumption, AccessListsParts
    DEF UseInv, ListInv, FrameInv, OwnersInv
  <2>5. i \in AliveIds'
    BY <1>2 DEF InUse
  <2>6. i \in AliveIds
    BY <1>1, <2>4, <2>5, NothingReturns
  <2>7. access = i => access' = i
    BY <2>5 DEF Detach, AliveIds, Alive
  <2> QED BY <2>1, <2>6, <2>7 DEF InUse
<1>3. HostInv'
  <2>1. ~hostQueued' => ~hostQueued /\ cache'[Reference] = cache[Reference]
    BY DEF ListEvent
  <2> QED BY <1>2, <2>1 DEF UseInv, HostInv
<1> QED BY <1>1, <1>3 DEF UseInv

\* The proxy host's own calls leave the list alone.
LEMMA HostStepInv ==
  ASSUME UseInv, HostReconcile
  PROVE  UseInv' /\ LedgerStep(AccessLists)
<1>1. UNCHANGED ListVars /\ faults' \in Nat
  <2>1. faults \in Nat
    BY FrameTypes DEF UseInv, ListInv
  <2> QED BY <2>1, FaultKeeps
      DEF HostReconcile, HostDequeue, getAccessListByReference, GetReference, FindReferenced,
          UpdateHost, HostReturn, ListVars, vars, helperVars
<1>2. UNCHANGED <<api, cache, watch, queue, req, obj, fresh, pc, marked, rid, input, remote,
                  nextId, maker, abandoned, ops>>
  BY <1>1 DEF ListVars, kubeVars, localVars, remoteVars
<1>3. ListInv'
  <2>1. Types(AccessLists)'
    BY <1>1, <1>2 DEF UseInv, ListInv, FrameInv, Types, FrameTypeOK
  <2>2. ClusterInv(AccessLists)' /\ \A k \in Keys : Seen(k)' = Seen(k)
    BY <1>2, QuietCluster DEF UseInv, ListInv, FrameInv
  <2>3. WorkerInv(AccessLists)' /\ OwnersInv(AccessLists)' /\ RemovalInv(AccessLists)'
    BY <1>2, <2>2
    DEF UseInv, ListInv, FrameInv, WorkerInv, OwnersInv, RemovalInv, Creating, Alive, Fresh
  <2> QED BY <1>2, <2>1, <2>2, <2>3 DEF UseInv, ListInv, FrameInv, FoundInv
<1>4. HostInv'
  <2>1. \A i \in Ids : InUse(i)' <=> InUse(i)
    BY <1>2 DEF InUse, AliveIds, Alive
  <2>2. ASSUME NEW i \in Ids, InUse(i)
        PROVE  Alive(i) /\ cache[Reference].id = i
    BY <2>2 DEF InUse, AliveIds
  <2>3. CASE HostDequeue \/ HostReturn
    BY <1>2, <2>1, <2>3 DEF HostDequeue, HostReturn, UseInv, HostInv
  <2>4. CASE GetReference
    BY <1>2, <2>1, <2>4 DEF GetReference, UseInv, HostInv
  <2>5. CASE FindReferenced
    BY <1>2, <2>1, <2>2, <2>5 DEF FindReferenced, UseInv, HostInv
  <2>6. CASE UpdateHost
    BY <1>2, <2>1, <2>2, <2>6 DEF UpdateHost, UseInv, HostInv
  <2> QED BY <2>3, <2>4, <2>5, <2>6 DEF HostReconcile, getAccessListByReference
<1> QED BY <1>2, <1>3, <1>4, LedgerStutters DEF UseInv

\* Every step of the two controllers and what surrounds them.
LEMMA NextUseInv ==
  ASSUME UseInv, [UseNext]_useVars
  PROVE  UseInv' /\ LedgerStep(AccessLists)
<1>1. ASSUME Next, hostQueued' = (hostQueued \/ ListEvent), Detach, UNCHANGED <<hostPc, hostList>>
      PROVE  UseInv' /\ LedgerStep(AccessLists)
  BY <1>1, ListStepInv, NextListInv DEF UseInv
<1>2. CASE \/ \E k \in Keys : ListStep(Dequeue(k)) \/ ListStep(WatchEvent(k))
           \/ ListStep(Reconcile) \/ ListStep(Users)
  BY <1>1, <1>2 DEF ListStep, Next
<1>3. CASE CrashBoth
  <2>1. ListInv' /\ LedgerStep(AccessLists)
    BY <1>3, NextListInv DEF CrashBoth, Next, UseInv
  <2> QED BY <1>3, <2>1 DEF CrashBoth, UseInv, HostInv
<1>4. CASE UNCHANGED useVars
  <2>1. UNCHANGED <<vars, hostVars>>
    BY <1>4 DEF useVars
  <2>2. ListInv' /\ LedgerStep(AccessLists)
    BY <2>1, NextListInv DEF UseInv
  <2>3. UNCHANGED <<cache, remote, hostQueued, hostPc, hostList, access>>
    BY <2>1 DEF vars, kubeVars, remoteVars, hostVars
  <2> QED BY <2>2, <2>3 DEF UseInv, HostInv, InUse, AliveIds, Alive
<1> QED BY <1>2, <1>3, <1>4, HostStepInv DEF UseNext

\* With a second controller that shares NPM and the informer cache, the access
\* list's still implements the ledger.
THEOREM SharedListLedger == UseSpec => ImplementsLedger
<1>1. UseInit => UseInv /\ Ledger!Init
  BY ListStarts, SameStart DEF UseInit, UseInv, HostInv
<1>2. UseInv /\ [UseNext]_useVars => UseInv' /\ [Ledger!Next]_Ledger!ledgerVars
  BY NextUseInv, SameSteps DEF UseInv
<1> QED BY <1>1, <1>2, PTL DEF UseSpec, ImplementsLedger, Ledger!Spec

\* When both controllers are idle the proxy host carries the list that its
\* AccessList records, though that list may have been deleted, removed in NPM
\* or created again in between: no event is lost between the two controllers.
THEOREM HostStaysGuarded == UseSpec => []QuietMeansGuarded
<1>1. UseInit => UseInv
  BY ListStarts DEF UseInit, UseInv, HostInv
<1>2. UseInv /\ [UseNext]_useVars => UseInv'
  BY NextUseInv
<1>3. UseInv => QuietMeansGuarded
  <2> SUFFICES ASSUME UseInv, Quiet, hostPc = "idle", ~hostQueued, Live(Reference),
                      api[Reference].id # NoId, Alive(api[Reference].id)
               PROVE  access = api[Reference].id
    BY DEF QuietMeansGuarded
  <2>1. Fresh(Reference)
    BY ReferenceAssumption DEF Quiet
  <2>2. cache[Reference] = api[Reference] /\ cache[Reference] \in AccessList \cup {NoObj}
    BY <2>1, ReferenceAssumption, FrameTypes, FreshSeen, AccessListsParts DEF UseInv, ListInv
  <2>3. api[Reference].id \in Ids
    BY <2>2 DEF Live, AccessList
  <2>4. InUse(api[Reference].id)
    BY <2>2, <2>3 DEF InUse, AliveIds, Live
  <2> QED BY <2>3, <2>4 DEF UseInv, HostInv
<1> QED BY <1>1, <1>2, <1>3, PTL DEF UseSpec

-----------------------------------------------------------------------------
(* Nothing is left undone                                                   *)

\* A list that needs no attention.
Good(k) ==
  /\ ~api[k].deleting
  /\ api[k].id # NoId
  /\ Alive(api[k].id) => remote[api[k].id] = api[k].spec

\* A resource that nothing will queue again is served, unless the worker is
\* busy with it; and what the worker is about to record has been written.
RestInv ==
  /\ \A k \in Keys : Settled(k) /\ Live(k) /\ ~Busy(k) => Good(k)
  /\ pc = "save" => (Alive(rid) => remote[rid] = obj.spec)

ServedInv == ListInv /\ TidyInv /\ RestInv

\* What is settled stays served while NPM keeps its list or loses it.
LEMMA GoodStays ==
  ASSUME ServedInv, NEW k \in Keys, Settled(k), Live(k), ~Busy(k), api'[k] = api[k],
         \/ remote'[api[k].id] = remote[api[k].id]
         \/ remote'[api[k].id] = NoRemote
         \/ maker[api[k].id] = k => remote'[api[k].id] = remote[api[k].id]
  PROVE  Good(k)'
<1>0. Good(k)
  BY DEF ServedInv, RestInv
<1>1. api[k] \in AccessLists.owned
  BY <1>0, FrameTypes, AccessListsParts DEF ServedInv, ListInv, Good, Live
<1>2. maker[api[k].id] = k
  BY <1>1, StoredOwner DEF ServedInv, ListInv
<1> QED BY <1>0, <1>2 DEF Good, Alive

\* What is settled records an object of NPM.
LEMMA GoodId ==
  ASSUME ServedInv, NEW k \in Keys, Settled(k), Live(k), ~Busy(k)
  PROVE  api[k].id \in Ids
<1>1. Good(k)
  BY DEF ServedInv, RestInv
<1>2. api[k] \in AccessList
  BY FrameTypes, AccessListsParts DEF ServedInv, ListInv, Live
<1> QED BY <1>1, <1>2 DEF Good, AccessList

\* Steps that leave NPM alone or take an object from it.
LEMMA GoodUnwritten ==
  ASSUME ServedInv, Calm, NEW k \in Keys, Settled(k)', Live(k)', ~Busy(k),
         \/ UNCHANGED remote
         \/ \E i : remote' = [remote EXCEPT ![i] = NoRemote]
  PROVE  Good(k)'
<1>1. Settled(k) /\ api'[k] = api[k] /\ Live(k)
  BY DEF Calm, Live
<1>2. remote \in [Ids -> Specs \cup {NoRemote}]
  BY AccessListsParts DEF ServedInv, ListInv, FrameInv, Types, FrameTypeOK
<1>3. api[k].id \in Ids
  BY <1>1, GoodId
<1>4. remote'[api[k].id] \in {remote[api[k].id], NoRemote}
  BY <1>2, <1>3
<1> QED BY <1>1, <1>4, GoodStays

\* Steps of the worker that end nothing and leave NPM alone, or take an object
\* from it.
LEMMA RestWorker ==
  ASSUME ServedInv, Calm, pc # "idle", req' = req, pc' \notin {"idle", "save", "ready", "done"},
         \/ UNCHANGED remote
         \/ \E i : remote' = [remote EXCEPT ![i] = NoRemote]
  PROVE  RestInv'
<1>1. \A k \in Keys : ~Busy(k)' => ~Busy(k)
  BY DEF Busy
<1> QED BY <1>1, GoodUnwritten DEF RestInv

\* A finalization that ends without another request has unsettled its resource.
LEMMA RestEnds ==
  ASSUME ServedInv, Calm, TidyInv', pc \notin {"idle", "ready", "done"}, req' = req,
         pc' \in {"done", "requeue"}, marked', UNCHANGED remote
  PROVE  RestInv'
<1>1. \A k \in Keys : Settled(k)' /\ ~Busy(k)' => ~Busy(k)
  BY DEF Busy, TidyInv
<1> QED BY <1>1, GoodUnwritten DEF RestInv

\* Steps of others.
LEMMA RestOutside ==
  ASSUME ServedInv, Calm, UNCHANGED <<pc, req, obj, rid>>,
         \/ UNCHANGED remote
         \/ \E i : remote' = [remote EXCEPT ![i] = NoRemote]
  PROVE  RestInv'
<1>1. \A k \in Keys : ~Busy(k)' => ~Busy(k)
  BY DEF Busy
<1>2. pc' = "save" => (Alive(rid)' => remote'[rid'] = obj'.spec)
  <2> SUFFICES ASSUME pc = "save", remote'[rid] # NoRemote
               PROVE  remote'[rid] = obj.spec
    BY DEF Alive
  <2>1. rid \in Ids /\ remote \in [Ids -> Specs \cup {NoRemote}]
    BY AccessListsParts DEF ServedInv, ListInv, FoundInv, FrameInv, Types, FrameTypeOK
  <2>2. remote'[rid] = remote[rid]
    BY <2>1
  <2> QED BY <2>2 DEF ServedInv, RestInv, Alive
<1> QED BY <1>1, <1>2, GoodUnwritten DEF RestInv

\* A request that writes a list writes nobody else's.
LEMMA ServedWrite ==
  ASSUME ServedInv, CreateAccessList \/ UpdateAccessList
  PROVE  RestInv'
<1>0. /\ ListInv /\ pc = "write" /\ req \in Keys /\ Types(AccessLists) /\ OwnersInv(AccessLists)
      /\ nextId \in 1 .. MaxRemote + 1 /\ remote \in [Ids -> Specs \cup {NoRemote}]
  BY AccessListsParts, WorkerFacts
  DEF CreateAccessList, UpdateAccessList, ServedInv, ListInv, FrameInv, Types, FrameTypeOK
<1>1. PICK ok \in BOOLEAN :
        /\ UNCHANGED <<kubeVars, req, obj, marked>> /\ pc' = (IF ok THEN "save" ELSE "fail")
        /\ \/ UNCHANGED remote /\ ~ok
           \/ \E i \in Ids :
                /\ maker[i] \in {req, NoKey} /\ remote' = [remote EXCEPT ![i] = obj.spec]
                /\ ok => rid' = i
  <2>1. CASE CreateAccessList
    <3>1. PICK ok \in BOOLEAN :
            /\ UNCHANGED <<kubeVars, req, obj, marked>> /\ pc' = (IF ok THEN "save" ELSE "fail")
            /\ CreateRemote(obj.spec, FALSE, ok) /\ rid' = (IF ok THEN nextId ELSE NoId)
      BY <2>1 DEF CreateAccessList
    <3>2. \/ UNCHANGED remote /\ ~ok
          \/ nextId \in Ids /\ remote' = [remote EXCEPT ![nextId] = obj.spec]
      BY <3>1 DEF CreateRemote, Post, remoteVars
    <3>3. nextId \in Ids => maker[nextId] = NoKey
      BY <1>0 DEF OwnersInv, Ids
    <3> QED BY <3>1, <3>2, <3>3
  <2>2. CASE UpdateAccessList
    <3>1. PICK ok \in BOOLEAN :
            /\ UNCHANGED <<kubeVars, req, obj, marked>> /\ pc' = (IF ok THEN "save" ELSE "fail")
            /\ UpdateRemote(rid, obj.spec, ok) /\ rid' = rid /\ rid # NoId
      BY <2>2 DEF UpdateAccessList
    <3>2. \/ UNCHANGED remote /\ ~ok
          \/ remote' = [remote EXCEPT ![rid] = obj.spec]
      BY <3>1 DEF UpdateRemote, Put, remoteVars
    <3>3. rid \in Ids /\ maker[rid] = req
      BY <1>0, <3>1 DEF ListInv, FoundInv
    <3> QED BY <3>1, <3>2, <3>3
  <2> QED BY <2>1, <2>2
<1>2. ASSUME NEW k \in Keys, Settled(k)', Live(k)', ~Busy(k)'
      PROVE  Good(k)'
  <2>1. k # req /\ ~Busy(k) /\ Settled(k) /\ Live(k) /\ api'[k] = api[k]
    BY <1>0, <1>1, <1>2 DEF Busy, kubeVars, Settled, Fresh, Live
  <2>2. maker[api[k].id] = k => remote'[api[k].id] = remote[api[k].id]
    BY <1>0, <1>1, <2>1, GoodId, KeysAssumption
  <2> QED BY <2>1, <2>2, GoodStays
<1>3. pc' = "save" => remote'[rid'] = obj'.spec
  BY <1>0, <1>1
<1> QED BY <1>2, <1>3 DEF RestInv


\* What the status records is what was written.
LEMMA ServedSave ==
  ASSUME ServedInv, SaveStatus
  PROVE  TidyInv' /\ RestInv'
<1>0. /\ FrameInv(AccessLists) /\ TidyInv /\ pc = "save" /\ rid \in Ids /\ rid # NoId
      /\ req \in Keys /\ ~marked /\ UNCHANGED <<cache, queue, req, marked, rid, remote>>
  BY WorkerFacts
  DEF SaveStatus, ServedInv, ListInv, FoundInv, FrameInv, WorkerInv, Creating, remoteVars
<1> DEFINE v == [Cached EXCEPT !.id = rid]
<1>1. PICK ok \in BOOLEAN : StatusWrite(v, TRUE, ok) /\ pc' = (IF ok THEN "ready" ELSE "fail")
  BY DEF SaveStatus
<1>2. ASSUME cache[req] # NoObj
      PROVE  /\ v \in AccessList /\ v # NoObj /\ v.id = rid
             /\ v.fin = cache[req].fin /\ v.deleting = cache[req].deleting
  <2>1. Cached = cache[req] /\ cache[req] \in AccessList
    BY <1>0, <1>2, FrameTypes, AccessListsParts DEF Cached
  <2>2. /\ v \in AccessList /\ v.id = rid
        /\ v.fin = cache[req].fin /\ v.deleting = cache[req].deleting
    BY <1>0, <2>1 DEF AccessList
  <2> HIDE DEF v
  <2> QED BY <2>2, NullsAssumption
<1> HIDE DEF v
<1>3. TidyInv' /\ Calm
  <2>1. pc # "idle" /\ pc' # "done" /\ pc' \in {"ready", "fail"} /\ pc \notin {"fail", "requeue"}
    BY <1>0, <1>1
  <2> QED BY <1>0, <1>1, <1>2, <2>1, TidyStatus, AccessListsParts
<1>4. ASSUME NEW k \in Keys, Settled(k)', Live(k)', ~Busy(k)'
      PROVE  Good(k)'
  <2>1. Settled(k) /\ Live(k) /\ api'[k] = api[k]
    BY <1>3, <1>4 DEF Calm, Live
  <2>2. CASE k # req
    BY <1>0, <2>1, <2>2, GoodStays DEF Busy
  <2>3. CASE k = req
    <3>1. ok /\ pc' = "ready"
      BY <1>0, <1>1, <1>4, <2>3 DEF Busy
    <3>2. cache[req] # NoObj /\ Publish(req, v) /\ api'[req] = v
      <4>1. cache[req] # NoObj /\ Publish(req, v)
        BY <1>1, <3>1, StatusOutcome
      <4>2. v \in AccessLists.objects \cup {NoObj}
        BY <1>2, <4>1, AccessListsParts
      <4>3. /\ api \in [Keys -> AccessLists.objects \cup {NoObj}]
            /\ watch \in [Keys -> Seq(AccessLists.objects \cup {NoObj})]
        BY <1>0, FrameTypes
      <4> QED BY <1>0, <4>1, <4>2, <4>3, PublishKeeps
    <3>3. api[req] = v /\ v.id = rid
      BY <1>2, <2>1, <2>3, <3>2
    <3>4. Like(obj, api[req]) /\ marked = obj.deleting
      BY <1>0, <2>1, <2>3 DEF TidyInv
    <3>5. Alive(rid) => remote[rid] = obj.spec
      BY <1>0 DEF ServedInv, RestInv
    <3> QED BY <1>0, <2>1, <2>3, <3>3, <3>4, <3>5 DEF Good, Like, Alive
  <2> QED BY <2>2, <2>3
<1> QED BY <1>0, <1>1, <1>3, <1>4 DEF RestInv

\* The last write and the end of a request.
LEMMA ServedEnd ==
  ASSUME ServedInv, MarkReady(TRUE) \/ Return \/ Crash
  PROVE  TidyInv' /\ RestInv'
<1>0. /\ FrameInv(AccessLists) /\ TidyInv /\ IsKind(AccessLists)
      /\ \A o \in AccessLists.objects : \A type \in ConditionTypes :
           SetCondition(o, type).spec = o.spec
  BY AccessListIsKind, AccessListsParts DEF ServedInv, ListInv, SetCondition, AccessList
<1>1. CASE MarkReady(TRUE)
  <2>1. TidyInv' /\ Calm
    BY <1>0, <1>1, TidyConditions
  <2>2. pc = "ready" /\ pc' = "done" /\ UNCHANGED remote
    BY <1>1 DEF MarkReady, remoteVars
  <2>3. \A k \in Keys : ~Busy(k)
    BY <2>2 DEF Busy
  <2> QED BY <2>1, <2>2, <2>3, GoodUnwritten DEF RestInv
<1>2. CASE Return
  <2>1. TidyInv' /\ Calm /\ (pc = "requeue" => \A k \in Keys : Settled(k)' => k # req)
    BY <1>0, <1>2, TidyEnd
  <2>2. pc \in {"done", "requeue"} /\ pc' = "idle" /\ UNCHANGED remote
    BY <1>2 DEF Return, Reset, remoteVars
  <2>3. \A k \in Keys : Settled(k)' => ~Busy(k)
    BY <2>1, <2>2 DEF Busy
  <2> QED BY <2>1, <2>2, <2>3, GoodUnwritten DEF RestInv
<1>3. CASE Crash
  <2>1. pc' = "idle"
    BY <1>3 DEF Crash, Reset
  <2> QED BY <1>0, <1>3, <2>1, TidyEnd DEF RestInv
<1> QED BY <1>1, <1>2, <1>3

\* A request that is taken off the queue.
LEMMA ServedDequeue ==
  ASSUME ServedInv, NEW k \in Keys, Dequeue(k)
  PROVE  TidyInv' /\ RestInv'
<1>1. /\ TidyInv'
      /\ \A j \in Keys : Settled(j)' => api'[j] = api[j] /\ (j = k \/ Settled(j))
      /\ Settled(k)' /\ Live(k)' => req' = k /\ pc' = "finalizer"
  BY TidyDequeue DEF ServedInv, ListInv
<1>2. pc = "idle" /\ pc' \in {"idle", "finalizer"} /\ UNCHANGED remote
  BY DEF Dequeue, remoteVars
<1>3. ASSUME NEW j \in Keys, Settled(j)', Live(j)', ~Busy(j)'
      PROVE  Good(j)'
  <2>1. Settled(j) /\ api'[j] = api[j] /\ Live(j) /\ ~Busy(j)
    BY <1>1, <1>2, <1>3 DEF Busy, Live
  <2> QED BY <1>2, <2>1, GoodStays
<1> QED BY <1>1, <1>2, <1>3 DEF RestInv


\* What users, administrators and the watch do to the worker's view.
LEMMA ListTidyOutside ==
  ASSUME ServedInv,
         \/ \E k \in Keys :
              \/ \E s \in Specs : UserCreate(k, NewAccessList(s)) \/ UserEdit(k, s)
              \/ UserDelete(k) \/ WatchEvent(k)
         \/ UNCHANGED <<api, watch, req, obj, marked, pc>> /\ queue \subseteq queue'
  PROVE  TidyInv' /\ Calm
<1> DEFINE N == {NewAccessList(s) : s \in Specs}
<1>1. ASSUME NEW s \in Specs
      PROVE  NewAccessList(s) \in AccessLists.objects /\ ~NewAccessList(s).deleting
  BY AccessListsParts DEF NewAccessList, AccessList
<1>2. \A v \in N : v \in AccessLists.objects /\ ~v.deleting
  BY <1>1
<1>3. \/ \E k \in Keys :
           \/ \E v \in N : UserCreate(k, v)
           \/ \E s \in Specs : UserEdit(k, s)
           \/ UserDelete(k) \/ WatchEvent(k)
      \/ UNCHANGED <<api, watch, req, obj, marked, pc>> /\ queue \subseteq queue'
  OBVIOUS
<1> HIDE DEF N
<1> QED BY <1>2, <1>3, AccessListIsKind, TidyOutside DEF ServedInv, ListInv

\* Every step of the access list's controller leaves nothing undone.
LEMMA NextServed ==
  ASSUME ServedInv, [Next]_vars
  PROVE  ServedInv'
<1>0. FrameInv(AccessLists) /\ IsKind(AccessLists) /\ TidyInv
  BY AccessListIsKind DEF ServedInv, ListInv
<1>1. ListInv'
  BY NextListInv DEF ServedInv
<1> SUFFICES TidyInv' /\ RestInv'
  BY <1>1 DEF ServedInv
<1>2. CASE FindAccessListByID
  <2>1. /\ UNCHANGED <<api, watch, queue, req, obj, marked, remote>>
        /\ pc = "find" /\ pc' \in {"write", "fail"}
    BY <1>2 DEF FindAccessListByID, kubeVars, remoteVars
  <2> QED BY <1>0, <2>1, TidyWork, RestWorker
<1>3. CASE CreateAccessList \/ UpdateAccessList
  <2>1. /\ UNCHANGED <<api, watch, queue, req, obj, marked>>
        /\ pc = "write" /\ pc' \in {"save", "fail"}
    BY <1>3 DEF CreateAccessList, UpdateAccessList, kubeVars
  <2> QED BY <1>0, <1>3, <2>1, TidyWork, ServedWrite
<1>4. CASE EnsureFinalizer(api[req]) \/ DropFinalizer(api[req])
  <2>1. api[req] \in AccessLists.objects =>
          api[req] \in AccessLists.objects /\ Agrees(api[req], api[req], AccessLists)
    BY <1>0, ObjectFacts DEF Agrees, SameLife
  <2>2. TidyInv' /\ Calm
    BY <1>0, <1>4, <2>1, TidyFinalizer, TidyRemoval
  <2>3. CASE EnsureFinalizer(api[req])
    <3>1. UNCHANGED <<req, remote>> /\ pc = "finalizer" /\ pc' \in {"reconciling", "requeue"}
      BY <2>3 DEF EnsureFinalizer, remoteVars
    <3> QED BY <2>2, <3>1, RestWorker
  <2>4. CASE DropFinalizer(api[req])
    <3>1. /\ UNCHANGED <<req, remote, marked>> /\ pc = "removeFinalizer" /\ marked
          /\ pc' \in {"done", "requeue"}
      BY <1>0, <2>4 DEF DropFinalizer, remoteVars, FrameInv, WorkerInv
    <3> QED BY <2>2, <3>1, RestEnds
  <2> QED BY <1>4, <2>2, <2>3, <2>4
<1>5. CASE MarkReconciling(TRUE) \/ MarkError(TRUE)
  <2>1. /\ UNCHANGED <<req, remote>> /\ pc \in {"reconciling", "fail"}
        /\ pc' \in {"client", "requeue"}
    BY <1>5 DEF MarkReconciling, MarkError, remoteVars
  <2>2. \A o \in AccessLists.objects : \A type \in ConditionTypes :
           SetCondition(o, type).spec = o.spec
    BY AccessListsParts DEF SetCondition, AccessList
  <2> QED BY <1>0, <1>5, <2>1, <2>2, TidyConditions, RestWorker
<1>6. CASE InitNginxPMClient(obj.id # NoId)
  <2>1. /\ UNCHANGED <<req, remote, marked>> /\ pc = "client"
        /\ pc' \in {"find", "fail", "done", "delete", "removeFinalizer"}
        /\ pc' = "done" => marked
    BY <1>6 DEF InitNginxPMClient
  <2> QED BY <1>0, <1>6, <2>1, TidyClient, RestWorker, RestEnds
<1>7. CASE DeleteRemote
  <2>1. /\ UNCHANGED <<api, watch, queue, req, obj, marked>>
        /\ pc = "delete" /\ pc' = "removeFinalizer"
        /\ UNCHANGED remote \/ remote' = [remote EXCEPT ![obj.id] = NoRemote]
    BY <1>7 DEF DeleteRemote, kubeVars
  <2> QED BY <1>0, <2>1, TidyWork, RestWorker
<1>8. ASSUME NEW k \in Keys, WatchEvent(k)
      PROVE  TidyInv' /\ RestInv'
  <2>1. UNCHANGED <<pc, req, obj, rid, remote>>
    BY <1>8 DEF WatchEvent, helperVars, localVars, remoteVars
  <2> QED BY <1>8, <2>1, ListTidyOutside, RestOutside
<1>9. CASE Users
  <2>1. ASSUME NEW k \in Keys,
               \/ \E s \in Specs : UserCreate(k, NewAccessList(s)) \/ UserEdit(k, s)
               \/ UserDelete(k)
        PROVE  TidyInv' /\ RestInv'
    <3>1. UNCHANGED <<pc, req, obj, rid, remote>>
      BY <2>1 DEF UserCreate, UserEdit, UserDelete, UserWrite, localVars, remoteVars
    <3> QED BY <2>1, <3>1, ListTidyOutside, RestOutside
  <2>2. ASSUME NEW k \in Keys, Trigger(k)
        PROVE  TidyInv' /\ RestInv'
    <3>1. UNCHANGED <<api, watch, req, obj, marked, pc, rid, remote>> /\ queue \subseteq queue'
      BY <2>2 DEF Trigger, helperVars, localVars, remoteVars
    <3> QED BY <3>1, ListTidyOutside, RestOutside
  <2>3. ASSUME NEW i \in Ids, AdminRemove(i)
        PROVE  TidyInv' /\ RestInv'
    <3>1. /\ UNCHANGED <<api, watch, queue, req, obj, marked, pc, rid>>
          /\ remote' = [remote EXCEPT ![i] = NoRemote]
      BY <2>3 DEF AdminRemove, kubeVars, helperVars, localVars
    <3> QED BY <3>1, ListTidyOutside, RestOutside
  <2> QED BY <1>9, <2>1, <2>2, <2>3 DEF Users
<1>10. CASE UNCHANGED vars
  <2>1. UNCHANGED <<api, watch, queue, req, obj, marked, pc, rid, remote>>
    BY <1>10 DEF vars, kubeVars, helperVars, localVars, remoteVars
  <2> QED BY <2>1, ListTidyOutside, RestOutside
<1> QED BY <1>2, <1>3, <1>4, <1>5, <1>6, <1>7, <1>8, <1>9, <1>10,
           ServedSave, ServedEnd, ServedDequeue
        DEF Next, Reconcile, createOrUpdateAccessList

\* The proxy host's calls change nothing that this is about.
LEMMA HostServed ==
  ASSUME ServedInv, ListInv', UNCHANGED ListVars
  PROVE  ServedInv'
<1>1. UNCHANGED <<api, cache, watch, queue, req, obj, pc, marked, rid, remote>>
  BY DEF ListVars, kubeVars, localVars, remoteVars
<1> QED BY <1>1
        DEF ServedInv, TidyInv, RestInv, Awaited, Settled, Fresh, Live, Busy, Good, Alive, Like

\* An idle operator has served every access list: no failed or lost request, no
\* stale cache and no crash makes it forget one.
THEOREM QuietListsServed == Spec => []QuietMeansServed
<1>1. FrameInit => ServedInv
  BY ListStarts DEF ServedInv, TidyInv, RestInv, FrameInit, Awaited, Live
<1>2. ServedInv /\ [Next]_vars => ServedInv'
  BY NextServed
<1>3. ServedInv => QuietMeansServed
  BY QuietIsSettled DEF ServedInv, RestInv, Good, QuietMeansServed
<1> QED BY <1>1, <1>2, <1>3, PTL DEF Spec

\* Nor does a proxy host that uses the list.
THEOREM SharedListsServed == UseSpec => []QuietMeansServed
<1>1. UseInit => UseInv /\ ServedInv
  BY ListStarts
  DEF UseInit, UseInv, HostInv, ServedInv, TidyInv, RestInv, FrameInit, Awaited, Live
<1>2. UseInv /\ ServedInv /\ [UseNext]_useVars => UseInv' /\ ServedInv'
  <2> SUFFICES ASSUME UseInv, ServedInv, [UseNext]_useVars
               PROVE  UseInv' /\ ServedInv'
    OBVIOUS
  <2>1. UseInv'
    BY NextUseInv
  <2>2. HostReconcile \/ [Next]_vars
    BY DEF UseNext, ListStep, CrashBoth, Next, useVars
  <2>3. HostReconcile => UNCHANGED ListVars
    BY DEF HostReconcile, HostDequeue, getAccessListByReference, GetReference, FindReferenced,
           UpdateHost, HostReturn, ListVars, vars, helperVars
  <2> QED BY <2>1, <2>2, <2>3, NextServed, HostServed DEF UseInv
<1>3. ServedInv => QuietMeansServed
  BY QuietIsSettled DEF ServedInv, RestInv, Good, QuietMeansServed
<1> QED BY <1>1, <1>2, <1>3, PTL DEF UseSpec
==============================================================================
