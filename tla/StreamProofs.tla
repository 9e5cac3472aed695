------------------------------ MODULE StreamProofs ------------------------------
(***************************************************************************)
(* Theorems about StreamController, and about ServiceForwarding, which is  *)
(* where a Stream forwards to, for every value of the constants.           *)
(***************************************************************************)
EXTENDS StreamController, FrameProofs

\* A resource owns the stream that its status records.
Streams ==
  [objects |-> Stream, owned |-> {o \in Stream : o.id # NoId},
   remote |-> Bodies, inputs |-> Bodies, pcs |-> PCs, disowns |-> FALSE]

\* What the worker writes and records is a stream made for its resource, with
\* a body that it has built.
FoundInv ==
  /\ pc \in {"prepare", "write", "followUp", "save"} /\ rid # NoId =>
       rid \in Ids /\ maker[rid] = req
  /\ pc \in {"followUp", "save"} => rid # NoId
  /\ pc \in {"write", "followUp", "save"} => input \in Bodies

DestTypes == dest \in [Keys -> Destinations \cup {NoDest}]

StreamInv == FrameInv(Streams) /\ FoundInv /\ DestTypes

\* The parts of the kind.
LEMMA StreamsParts ==
  /\ Streams.objects = Stream
  /\ Streams.remote = Bodies /\ Streams.inputs = Bodies /\ Streams.pcs = PCs
  /\ Streams.disowns = FALSE
  /\ \A o \in Stream : o \in Streams.owned <=> o.id # NoId
  /\ Streams.owned \subseteq Stream
BY DEF Streams

\* A stream as a kind of the frame.
LEMMA StreamIsKind == IsKind(Streams)
<1>1. \A o \in Stream : o # NoObj
  BY StreamsAssumption
<1>2. {"idle", "finalizer", "reconciling", "client", "delete", "removeFinalizer", "find", "fail",
       "done", "requeue"} \subseteq PCs
  BY DEF PCs
<1>3. \A v, o \in Stream :
        v.fin = o.fin /\ v.deleting = o.deleting /\ v.id = o.id => Agrees(v, o, Streams)
  BY <1>1, StreamsParts DEF Agrees, SameLife
<1>4. ASSUME NEW o \in Stream, NEW type \in ConditionTypes
      PROVE  SetCondition(o, type) \in Stream /\ Agrees(SetCondition(o, type), o, Streams)
  <2> DEFINE v == SetCondition(o, type)
  <2>1. v \in Stream /\ v.fin = o.fin /\ v.deleting = o.deleting /\ v.id = o.id
    BY DEF Stream, SetCondition
  <2> HIDE DEF v
  <2>2. v \in Stream /\ Agrees(v, o, Streams)
    BY <1>3, <2>1
  <2> QED BY <2>2 DEF v
<1>5. ASSUME NEW o \in Stream, NEW s \in Specs
      PROVE  [o EXCEPT !.spec = s] \in Stream /\ Agrees([o EXCEPT !.spec = s], o, Streams)
  <2> DEFINE v == [o EXCEPT !.spec = s]
  <2>1. v \in Stream /\ v.fin = o.fin /\ v.deleting = o.deleting /\ v.id = o.id
    BY StreamsAssumption DEF Stream
  <2> HIDE DEF v
  <2>2. v \in Stream /\ Agrees(v, o, Streams)
    BY <1>3, <2>1
  <2> QED BY <2>2 DEF v
<1>6. ASSUME NEW o \in Stream
      PROVE  /\ o.fin \in BOOLEAN /\ o.deleting \in BOOLEAN
             /\ LET v == WithFinalizer(o)
                IN  /\ v \in Stream /\ v.fin /\ v.deleting = o.deleting /\ v.id = o.id
                    /\ v \in Streams.owned <=> o \in Streams.owned
             /\ LET v == [o EXCEPT !.deleting = TRUE]
                IN  /\ v \in Stream /\ v.fin = o.fin /\ v.deleting /\ v.id = o.id
                    /\ v \in Streams.owned <=> o \in Streams.owned
  <2> DEFINE v == WithFinalizer(o)
             w == [o EXCEPT !.deleting = TRUE]
  <2>1. /\ o.fin \in BOOLEAN /\ o.deleting \in BOOLEAN
        /\ v \in Stream /\ v.fin /\ v.deleting = o.deleting /\ v.id = o.id
        /\ w \in Stream /\ w.fin = o.fin /\ w.deleting /\ w.id = o.id
    BY DEF Stream, WithFinalizer
  <2> HIDE DEF v, w
  <2>2. /\ v \in Streams.owned <=> o \in Streams.owned
        /\ w \in Streams.owned <=> o \in Streams.owned
    BY <2>1, StreamsParts
  <2> QED BY <2>1, <2>2 DEF v, w
<1>7. \A o \in Streams.owned : o.id \in Ids
  BY StreamsParts DEF Stream
<1> QED BY <1>2, <1>4, <1>5, <1>6, <1>7, StreamsParts, StreamsAssumption DEF IsKind

-----------------------------------------------------------------------------
(* The calls of createOrUpdateStream                                        *)

\* The worker's copy, while it works.
LEMMA WorkerFacts ==
  ASSUME StreamInv, pc # "idle"
  PROVE  /\ IsKind(Streams) /\ FrameInv(Streams) /\ FoundInv /\ Types(Streams)
         /\ OwnersInv(Streams)
         /\ req \in Keys /\ obj \in Stream /\ obj.id \in Ids \cup {NoId} /\ faults \in Nat
         /\ rid \in Ids \cup {NoId} /\ input \in Bodies \cup {NoInput}
         /\ obj.id # NoId => maker[obj.id] = req
         /\ dest[req] \in Destinations \cup {NoDest}
<1>1. /\ req \in Keys /\ obj \in Stream /\ faults \in Nat
      /\ rid \in Ids \cup {NoId} /\ input \in Bodies \cup {NoInput}
  BY StreamsParts DEF StreamInv, FrameInv, WorkerInv, Types, FrameTypeOK
<1>2. obj.id # NoId => maker[obj.id] = req
  BY <1>1, StreamsParts DEF StreamInv, FrameInv, OwnersInv
<1> QED BY <1>1, <1>2, StreamIsKind DEF Stream, StreamInv, FrameInv, DestTypes

\* Steps that neither touch stored objects nor make an object in NPM.
LEMMA CallStep ==
  ASSUME StreamInv, RemoteEffect(Streams), faults' \in Nat,
         UNCHANGED <<kubeVars, req, obj, fresh, marked, ops, dest>>,
         pc \in {"find", "prepare", "write", "followUp"},
         pc' \in {"prepare", "write", "followUp", "save", "fail"},
         rid' \in Ids \cup {NoId}, input' \in Bodies \cup {NoInput}, FoundInv'
  PROVE  StreamInv' /\ LedgerStep(Streams)
<1>1. Creating /\ Creating' /\ pc' \in Streams.pcs /\ pc # "idle"
  BY StreamsParts DEF Creating, PCs
<1>2. FrameInv(Streams)' /\ LedgerStep(Streams)
  BY <1>1, WorkerFacts, WorkStep, StreamsParts
<1> QED BY <1>2 DEF StreamInv, DestTypes

\* The stream found is the one recorded, which was made for this resource.
LEMMA FindStep ==
  ASSUME StreamInv, FindStreamByID
  PROVE  StreamInv' /\ LedgerStep(Streams)
<1>1. /\ UNCHANGED <<kubeVars, req, obj, fresh, marked, input, remoteVars, ops, dest>>
      /\ pc = "find"
      /\ \/ pc' = "prepare" /\ rid' \in {obj.id, NoId} /\ UNCHANGED faults
         \/ Fault("npm") /\ pc' = "fail" /\ UNCHANGED rid
  BY DEF FindStreamByID
<1>2. faults' \in Nat
  BY <1>1, WorkerFacts, FaultKeeps
<1>3. RemoteEffect(Streams)
  BY <1>1 DEF RemoteEffect
<1>4. FoundInv'
  BY <1>1, WorkerFacts DEF FoundInv, remoteVars
<1>5. rid' \in Ids \cup {NoId} /\ input' \in Bodies \cup {NoInput}
  BY <1>1, WorkerFacts
<1> QED BY <1>1, <1>2, <1>3, <1>4, <1>5, CallStep

\* A body is built from the worker's copy and the destination as it is now.
LEMMA PrepareStep ==
  ASSUME StreamInv, PrepareInput
  PROVE  StreamInv' /\ LedgerStep(Streams)
<1>0. pc = "prepare"
  BY DEF PrepareInput
<1>1. /\ UNCHANGED <<kubeVars, req, obj, fresh, marked, rid, remoteVars, ops, dest>>
      /\ \/ /\ dest[req] # NoDest /\ pc' = "write" /\ UNCHANGED faults
            /\ input' = RequestInput(obj, dest[req], rid # NoId /\ UnscopedSupported)
         \/ pc' = "fail" /\ UNCHANGED <<input, faults>>
         \/ Fault("prepare") /\ pc' = "fail" /\ UNCHANGED input
  BY DEF PrepareInput
<1>2. ASSUME dest[req] # NoDest
      PROVE  RequestInput(obj, dest[req], rid # NoId /\ UnscopedSupported) \in Bodies
  <2>1. /\ dest[req].port \in Nat /\ dest[req].balanced \in BOOLEAN
        /\ obj.spec \in StreamSpec
    BY <1>0, <1>2, WorkerFacts, DestinationsAssumption DEF Stream
  <2> QED BY <2>1, UnscopedAssumption DEF RequestInput, Forward, Bodies, StreamSpec
<1>3. faults' \in Nat
  BY <1>0, <1>1, WorkerFacts, FaultKeeps
<1>4. RemoteEffect(Streams)
  BY <1>1 DEF RemoteEffect
<1>5. FoundInv'
  BY <1>0, <1>1, <1>2, WorkerFacts DEF FoundInv, remoteVars
<1>6. rid' \in Ids \cup {NoId} /\ input' \in Bodies \cup {NoInput}
  BY <1>0, <1>1, <1>2, WorkerFacts
<1> QED BY <1>0, <1>1, <1>3, <1>4, <1>5, <1>6, CallStep

\* A stream is created for this resource, or nothing is recorded.
LEMMA CreateStep ==
  ASSUME StreamInv, CreateStream
  PROVE  StreamInv' /\ LedgerStep(Streams)
<1>0. pc = "write" /\ input \in Bodies /\ NoId \notin Ids
  BY WorkerFacts, FrameAssumption DEF CreateStream, FoundInv, Ids
<1>1. PICK ok \in BOOLEAN :
        /\ UNCHANGED <<kubeVars, req, obj, fresh, marked, input, ops, dest>>
        /\ CreateRemote(input, FALSE, ok)
        /\ pc' = (IF ok THEN "followUp" ELSE "fail") /\ rid' = (IF ok THEN nextId ELSE NoId)
  BY DEF CreateStream
<1>2. RemoteEffect(Streams) /\ faults' \in Nat
  BY <1>0, <1>1, WorkerFacts, RequestEffects, StreamsParts
<1>3. ASSUME ok
      PROVE  nextId \in Ids /\ maker'[nextId] = req
  <2>1. Post(req, input)
    BY <1>1, <1>3 DEF CreateRemote
  <2>2. nextId \in Ids /\ maker' = [maker EXCEPT ![nextId] = req]
    BY <1>0, <2>1, WorkerFacts, PostKeeps, StreamsParts
  <2> QED BY <1>0, <2>2, WorkerFacts DEF Types, FrameTypeOK
<1>4. FoundInv'
  BY <1>0, <1>1, <1>3 DEF FoundInv
<1>5. rid' \in Ids \cup {NoId} /\ input' \in Bodies \cup {NoInput}
  BY <1>0, <1>1, <1>3
<1> QED BY <1>0, <1>1, <1>2, <1>4, <1>5, CallStep

\* The stream that was found or just made is rewritten.
LEMMA UpdateStep ==
  ASSUME StreamInv, UpdateStream \/ FollowUp
  PROVE  StreamInv' /\ LedgerStep(Streams)
<1>0. /\ pc \in {"write", "followUp"} /\ input \in Bodies
      /\ rid \in Ids /\ maker[rid] = req
  BY WorkerFacts DEF UpdateStream, FollowUp, FoundInv
<1>1. PICK ok \in BOOLEAN :
        /\ UNCHANGED <<kubeVars, req, obj, fresh, marked, rid, input, ops, dest>>
        /\ UpdateRemote(rid, input, ok) /\ pc' \in {"save", "fail"}
  BY DEF UpdateStream, FollowUp
<1>2. RemoteEffect(Streams) /\ faults' \in Nat
  BY <1>0, <1>1, WorkerFacts, RequestEffects, StreamsParts
<1>3. maker' = maker
  BY <1>1 DEF UpdateRemote, Put, remoteVars
<1>4. FoundInv'
  BY <1>0, <1>1, <1>3, FrameAssumption DEF FoundInv, Ids
<1>5. rid' \in Ids \cup {NoId} /\ input' \in Bodies \cup {NoInput}
  BY <1>0, <1>1
<1> QED BY <1>0, <1>1, <1>2, <1>4, <1>5, CallStep

\* The status records the stream that was written and the ports in use.
LEMMA SaveStep ==
  ASSUME StreamInv, SaveStatus
  PROVE  StreamInv' /\ LedgerStep(Streams)
<1>1. PICK ok \in BOOLEAN :
        /\ StatusWrite(Recorded(Cached), TRUE, ok)
        /\ UNCHANGED <<cache, queue, req, marked, rid, input, remoteVars, ops, dest>>
        /\ pc = "save" /\ pc' \in {"ready", "fail"}
  BY DEF SaveStatus
<1>2. /\ rid \in Ids /\ maker[rid] = req /\ req \in Keys /\ rid # NoId /\ input \in Bodies
      /\ FrameInv(Streams) /\ IsKind(Streams)
  BY <1>1, WorkerFacts DEF FoundInv
<1>3. Creating /\ Creating' /\ pc' \in Streams.pcs
  BY <1>1, StreamsParts DEF Creating, PCs
<1>4. ASSUME cache[req] # NoObj
      PROVE  StatusOf(Recorded(Cached), cache[req], Streams)
  <2> DEFINE v == Recorded(Cached)
  <2>1. Cached = cache[req] /\ cache[req] \in Stream
    BY <1>2, <1>4, FrameTypes, StreamsParts DEF Cached
  <2>2. input.incoming \in Nat /\ input.port \in Nat
    BY <1>2 DEF Bodies
  <2>3. v \in Stream /\ v.fin = cache[req].fin /\ v.deleting = cache[req].deleting /\ v.id = rid
    BY <1>2, <2>1, <2>2 DEF Stream, Recorded
  <2> HIDE DEF v
  <2>4. v # NoObj /\ v \in Streams.objects /\ v \in Streams.owned
    BY <1>2, <2>3, StreamsParts, StreamsAssumption
  <2>5. StatusOf(v, cache[req], Streams)
    BY <1>2, <1>3, <1>4, <2>3, <2>4 DEF StatusOf, SameLife
  <2> QED BY <2>5 DEF v
<1>5. FrameInv(Streams)' /\ LedgerStep(Streams)
  BY <1>1, <1>2, <1>3, <1>4, StatusStep
<1> QED BY <1>1, <1>5 DEF StreamInv, FoundInv, DestTypes
-----------------------------------------------------------------------------
(* All steps                                                                *)

\* The encoded version of a stream differs in its spec only.
LEMMA EncodedAgrees ==
  ASSUME NEW o \in Stream
  PROVE  Encoded(o) \in Streams.objects /\ Agrees(Encoded(o), o, Streams)
<1> DEFINE v == Encoded(o)
<1>1. v \in Stream /\ v.fin = o.fin /\ v.deleting = o.deleting /\ v.id = o.id
  BY DEF Stream, Encoded, StreamSpec
<1> HIDE DEF v
<1>2. v \in Streams.objects /\ Agrees(v, o, Streams)
  BY <1>1, StreamsParts, StreamsAssumption DEF Agrees, SameLife
<1> QED BY <1>2 DEF v

\* Every step of the stream's controller keeps the invariant and is a step of
\* the ledger.
LEMMA NextStreamInv ==
  ASSUME StreamInv, [Next]_streamVars
  PROVE  StreamInv' /\ LedgerStep(Streams)
<1>0. FrameInv(Streams) /\ IsKind(Streams) /\ FoundInv
  BY StreamIsKind DEF StreamInv
<1>1. ASSUME FrameInv(Streams)' /\ LedgerStep(Streams),
             \/ pc' \notin {"prepare", "write", "followUp", "save"}
             \/ UNCHANGED <<pc, req, rid, input, maker>>,
             DestTypes'
      PROVE  StreamInv' /\ LedgerStep(Streams)
  BY <1>0, <1>1 DEF StreamInv, FoundInv, DestTypes
<1>13. UNCHANGED dest => DestTypes'
  BY DEF StreamInv, DestTypes
<1>2. CASE createOrUpdateStream
  BY <1>2, FindStep, PrepareStep, CreateStep, UpdateStep, SaveStep DEF createOrUpdateStream
<1>3. CASE (EnsureFinalizer(Encoded(api[req])) \/ DropFinalizer(Encoded(api[req]))) /\ UNCHANGED dest
  <2>1. api[req] \in Streams.objects =>
          Encoded(api[req]) \in Streams.objects /\ Agrees(Encoded(api[req]), api[req], Streams)
    BY EncodedAgrees, StreamsParts
  <2>2. FrameInv(Streams)' /\ LedgerStep(Streams)
    BY <1>0, <1>3, <2>1, EnsureFinalizerStep, DropFinalizerStep
  <2> QED BY <1>1, <1>13, <1>3, <2>2 DEF EnsureFinalizer, DropFinalizer
<1>4. CASE (MarkReconciling(TRUE) \/ MarkReady(TRUE) \/ MarkError(TRUE)) /\ UNCHANGED dest
  BY <1>0, <1>1, <1>13, <1>4, ConditionSteps DEF MarkReconciling, MarkReady, MarkError
<1>5. CASE InitNginxPMClient(obj.id # NoId) /\ UNCHANGED dest
  <2>1. obj \in Streams.objects => (obj.id # NoId <=> obj \in Streams.owned)
    BY StreamsParts
  <2>2. FrameInv(Streams)' /\ LedgerStep(Streams)
    BY <1>0, <1>5, <2>1, InitNginxPMClientStep
  <2> QED BY <1>1, <1>13, <1>5, <2>2 DEF InitNginxPMClient
<1>6. CASE (DeleteRemote \/ Return \/ Crash) /\ UNCHANGED dest
  BY <1>0, <1>1, <1>13, <1>6, DeleteRemoteStep, ReturnStep, CrashStep DEF DeleteRemote, Return, Reset, Crash
<1>7. ASSUME NEW k \in Keys, Dequeue(k) \/ WatchEvent(k), UNCHANGED dest
      PROVE  StreamInv' /\ LedgerStep(Streams)
  <2>1. FrameInv(Streams)' /\ LedgerStep(Streams)
    BY <1>0, <1>7, DequeueStep, WatchEventStep
  <2> QED BY <1>1, <1>13, <1>7, <2>1 DEF Dequeue, WatchEvent, helperVars, localVars, remoteVars
<1>8. ASSUME NEW k \in Keys, NEW s \in Specs, UserCreate(k, NewStream(s)) \/ UserEdit(k, s),
             UNCHANGED dest
      PROVE  StreamInv' /\ LedgerStep(Streams)
  <2>1. /\ NewStream(s) \in Streams.objects /\ NewStream(s) \notin Streams.owned
        /\ ~NewStream(s).fin /\ ~NewStream(s).deleting
    BY StreamsParts, StreamsAssumption DEF NewStream, Stream
  <2>2. FrameInv(Streams)' /\ LedgerStep(Streams)
    BY <1>0, <1>8, <2>1, UserCreateStep, UserEditStep
  <2> QED BY <1>1, <1>13, <1>8, <2>2 DEF UserCreate, UserEdit, UserWrite, localVars, remoteVars
<1>9. ASSUME NEW k \in Keys, UserDelete(k) \/ Trigger(k), UNCHANGED dest
      PROVE  StreamInv' /\ LedgerStep(Streams)
  <2>1. CASE UserDelete(k)
    BY <1>0, <1>1, <1>13, <1>9, <2>1, UserDeleteStep DEF UserDelete, UserWrite, localVars, remoteVars
  <2>2. CASE Trigger(k)
    <3>1. queue' \subseteq Keys
      BY <1>0, <2>2 DEF Trigger, FrameInv, Types, FrameTypeOK
    <3>2. FrameInv(Streams)' /\ LedgerStep(Streams)
      BY <1>0, <2>2, <3>1, QueueStep DEF Trigger
    <3> QED BY <1>1, <1>13, <1>9, <2>2, <3>2 DEF Trigger, helperVars, localVars, remoteVars
  <2> QED BY <1>9, <2>1, <2>2
<1>10. ASSUME NEW i \in Ids, AdminRemove(i), UNCHANGED dest
       PROVE  StreamInv' /\ LedgerStep(Streams)
  BY <1>0, <1>1, <1>13, <1>10, AdminRemoveStep DEF AdminRemove, helperVars, localVars
<1>11. ASSUME NEW k \in Keys, DestinationChange(k)
       PROVE  StreamInv' /\ LedgerStep(Streams)
  <2>1. /\ UNCHANGED <<api, cache, watch, helperVars, localVars, remoteVars>>
        /\ queue' \subseteq Keys /\ ops' = ops + 1
    BY <1>0, <1>11 DEF DestinationChange, Op, FrameInv, Types, FrameTypeOK
  <2>2. FrameInv(Streams)' /\ LedgerStep(Streams)
    BY <1>0, <2>1, QueueStep
  <2>3. DestTypes'
    BY <1>11 DEF DestinationChange, StreamInv, DestTypes
  <2> QED BY <1>1, <2>1, <2>2, <2>3 DEF helperVars, localVars, remoteVars
<1>12. CASE UNCHANGED streamVars
  <2>1. UNCHANGED vars /\ UNCHANGED <<pc, req, rid, input, maker, dest>>
    BY <1>12 DEF streamVars, vars, helperVars, localVars, remoteVars
  <2> QED BY <1>0, <1>1, <2>1, FrameStutters DEF StreamInv, DestTypes
<1> QED BY <1>2, <1>3, <1>4, <1>5, <1>6, <1>7, <1>8, <1>9, <1>10, <1>11, <1>12
        DEF Next, Reconcile, Environment

-----------------------------------------------------------------------------
(* The theorems                                                             *)

\* The initial states.
LEMMA StreamStarts ==
  ASSUME Init
  PROVE  StreamInv /\ Ledgers(Streams)!Init
<1>1. DestTypes
  BY DEF Init, DestTypes
<1> QED BY <1>1, StreamIsKind, FrameInitInv DEF StreamInv, FoundInv, FrameInit, Init

\* What the ledger of the kind holds is what StreamController's holds.
LEMMA SameHeld ==
  ASSUME NEW f \in [Keys -> Stream \cup {NoObj}]
  PROVE  [k \in Keys |-> IF f[k] \in Streams.owned THEN f[k].id ELSE NoId]
         = [k \in Keys |-> IF f[k] # NoObj THEN f[k].id ELSE NoId]
<1>1. ASSUME NEW k \in Keys
      PROVE  (IF f[k] \in Streams.owned THEN f[k].id ELSE NoId)
             = IF f[k] # NoObj THEN f[k].id ELSE NoId
  BY StreamsParts, StreamsAssumption
<1> QED BY <1>1

\* The two ledgers start alike.
LEMMA SameStart ==
  ASSUME StreamInv, Ledgers(Streams)!Init
  PROVE  Ledger!Init
<1>1. api \in [Keys -> Stream \cup {NoObj}]
  BY StreamsParts, FrameTypes DEF StreamInv
<1>2. Held(Streams) = [k \in Keys |-> IF Live(k) THEN api[k].id ELSE NoId]
  BY <1>1, SameHeld DEF Held, Live
<1> QED BY <1>2 DEF Ledger!Init, Ledgers!Init, Present, Leaving, AliveIds

\* And their steps are the same.
LEMMA SameSteps ==
  ASSUME StreamInv, StreamInv', LedgerStep(Streams)
  PROVE  [Ledger!Next]_Ledger!ledgerVars
<1>1. /\ Held(Streams) = [k \in Keys |-> IF Live(k) THEN api[k].id ELSE NoId]
      /\ Held(Streams)' = [k \in Keys |-> IF Live(k)' THEN api'[k].id ELSE NoId]
  <2>1. api \in [Keys -> Stream \cup {NoObj}] /\ api' \in [Keys -> Stream \cup {NoObj}]
    BY StreamsParts DEF StreamInv, FrameInv, Types, FrameTypeOK
  <2> QED BY <2>1, SameHeld DEF Held, Live
<1> QED BY <1>1, StreamsParts
        DEF LedgerStep, Present, Leaving, AliveIds,
            Ledger!ledgerVars, Ledger!Next, Ledger!Others, Ledger!Operator, Ledger!Appear,
            Ledger!Edit, Ledger!Mark, Ledger!Withdraw, Ledger!Outside, Ledger!Create,
            Ledger!Record, Ledger!Disown, Ledger!Removable, Ledger!Remove, Ledger!Abandon,
            Ledger!Leave,
            Ledgers!ledgerVars, Ledgers!Next, Ledgers!Others, Ledgers!Operator, Ledgers!Appear,
            Ledgers!Edit, Ledgers!Mark, Ledgers!Withdraw, Ledgers!Outside, Ledgers!Create,
            Ledgers!Record, Ledgers!Disown, Ledgers!Removable, Ledgers!Remove, Ledgers!Abandon,
            Ledgers!Leave

\* The stream's controller implements the ledger, whatever the destination does
\* meanwhile and though the version it stores with the finalizer has the
\* defaults of the CRD in place of flags that were false.
THEOREM StreamLedger == Spec => ImplementsLedger
<1>1. Init => StreamInv /\ Ledger!Init
  BY StreamStarts, SameStart
<1>2. StreamInv /\ [Next]_streamVars => StreamInv' /\ [Ledger!Next]_Ledger!ledgerVars
  BY NextStreamInv, SameSteps
<1> QED BY <1>1, <1>2, PTL DEF Spec, ImplementsLedger, Ledger!Spec

\* Every stored, cached or delivered stream, every request body and everything
\* the worker holds has its type.
THEOREM StreamTypes == Spec => []TypeOK
<1>1. Init => StreamInv
  BY StreamStarts
<1>2. StreamInv /\ [Next]_streamVars => StreamInv'
  BY NextStreamInv
<1>3. StreamInv => TypeOK
  BY StreamsParts DEF StreamInv, FrameInv, Types, DestTypes, TypeOK
<1> QED BY <1>1, <1>2, <1>3, PTL DEF Spec

-----------------------------------------------------------------------------
(* Nothing is left undone                                                   *)

\* What the worker has found, built and written is what NPM and the cluster
\* have now.  A stream that it has just made is not the one recorded, so that
\* its first status write causes another reconciliation.
WorkInv ==
  /\ pc \in {"prepare", "write"} /\ rid # NoId => rid = obj.id
  /\ pc = "write" =>
       /\ dest[req] # NoDest
       /\ input = RequestInput(obj, dest[req], rid # NoId /\ UnscopedSupported)
  /\ pc = "followUp" => rid # obj.id
  /\ pc = "save" /\ rid = obj.id =>
       /\ dest[req] # NoDest
       /\ input = RequestInput(obj, dest[req], UnscopedSupported)
       /\ Alive(rid) => remote[rid] = input

\* A resource that nothing will queue again is served, unless the worker is
\* busy with it; and then the worker's work is up to date.
RestInv ==
  /\ \A k \in Keys : Settled(k) /\ Live(k) /\ ~Busy(k) => Served(k)
  /\ Settled(req) => WorkInv

ServedInv == StreamInv /\ TidyInv /\ RestInv

\* A step that does not change the destination of what it leaves settled.
CalmDest == \A k \in Keys : Settled(k)' /\ Live(k)' => dest'[k] = dest[k]

\* What is settled records an object of NPM that was made for it.
LEMMA ServedId ==
  ASSUME ServedInv, NEW k \in Keys, Settled(k), Live(k), ~Busy(k)
  PROVE  Served(k) /\ api[k].id \in Ids /\ maker[api[k].id] = k
<1>1. Served(k)
  BY DEF ServedInv, RestInv
<1>2. api[k] \in Stream /\ api[k].id # NoId
  BY <1>1, FrameTypes, StreamsParts DEF ServedInv, StreamInv, Live, Served
<1>3. maker[api[k].id] = k
  BY <1>2, StoredOwner, StreamsParts DEF ServedInv, StreamInv
<1> QED BY <1>1, <1>2, <1>3 DEF Stream

\* What is settled stays served while NPM keeps its stream or loses it.
LEMMA ServedStays ==
  ASSUME ServedInv, NEW k \in Keys, Settled(k), Live(k), ~Busy(k),
         api'[k] = api[k], dest'[k] = dest[k],
         \/ remote'[api[k].id] \in {remote[api[k].id], NoRemote}
         \/ maker[api[k].id] = k => remote'[api[k].id] = remote[api[k].id]
  PROVE  Served(k)'
<1>1. remote'[api[k].id] \in {remote[api[k].id], NoRemote}
  BY ServedId
<1> QED BY <1>1, ServedId DEF Served, Live, Alive

\* Steps that leave NPM alone or take an object from it.
LEMMA ServedUnwritten ==
  ASSUME ServedInv, Calm, CalmDest, NEW k \in Keys, Settled(k)', Live(k)', ~Busy(k),
         \/ UNCHANGED remote
         \/ \E i : remote' = [remote EXCEPT ![i] = NoRemote]
  PROVE  Served(k)'
<1>1. Settled(k) /\ api'[k] = api[k] /\ Live(k) /\ dest'[k] = dest[k]
  BY DEF Calm, CalmDest, Live
<1>2. remote \in [Ids -> Bodies \cup {NoRemote}]
  BY StreamsParts DEF ServedInv, StreamInv, FrameInv, Types, FrameTypeOK
<1>3. remote'[api[k].id] \in {remote[api[k].id], NoRemote}
  BY <1>1, <1>2, ServedId
<1> QED BY <1>1, <1>3, ServedStays

\* Steps of the worker that are not about the stream's body.
LEMMA RestWorker ==
  ASSUME ServedInv, Calm, CalmDest, pc # "idle", req' = req,
         pc' \notin {"idle", "prepare", "write", "followUp", "save", "ready", "done"},
         \/ UNCHANGED remote
         \/ \E i : remote' = [remote EXCEPT ![i] = NoRemote]
  PROVE  RestInv'
<1>1. \A k \in Keys : ~Busy(k)' => ~Busy(k)
  BY DEF Busy
<1> QED BY <1>1, ServedUnwritten DEF RestInv, WorkInv

\* A finalization that ends without another request has unsettled its resource.
LEMMA RestEnds ==
  ASSUME ServedInv, Calm, CalmDest, TidyInv', pc \notin {"idle", "ready", "done"}, req' = req,
         pc' \in {"done", "requeue"}, marked', UNCHANGED remote
  PROVE  RestInv'
<1>1. \A k \in Keys : Settled(k)' /\ ~Busy(k)' => ~Busy(k)
  BY DEF Busy, TidyInv
<1> QED BY <1>1, ServedUnwritten DEF RestInv, WorkInv

\* Steps of others.
LEMMA RestOutside ==
  ASSUME ServedInv, Calm, CalmDest, TidyInv', UNCHANGED <<pc, req, obj, rid, input>>,
         \/ UNCHANGED remote
         \/ \E i : remote' = [remote EXCEPT ![i] = NoRemote]
  PROVE  RestInv'
<1>1. \A k \in Keys : ~Busy(k)' => ~Busy(k)
  BY DEF Busy
<1>2. ASSUME pc \in {"prepare", "write", "followUp", "save"}, Settled(req)'
      PROVE  WorkInv'
  <2>1. req \in Keys
    BY <1>2 DEF ServedInv, StreamInv, FrameInv, WorkerInv
  <2>2. Live(req)'
    BY <1>2 DEF TidyInv
  <2>3. Settled(req) /\ dest'[req] = dest[req]
    BY <1>2, <2>1, <2>2 DEF Calm, CalmDest
  <2>4. WorkInv
    BY <2>3 DEF ServedInv, RestInv
  <2>5. pc = "save" => remote'[rid] \in {remote[rid], NoRemote}
    <3>1. ASSUME pc = "save"
          PROVE  rid \in Ids /\ remote \in [Ids -> Bodies \cup {NoRemote}]
      BY <3>1, StreamsParts DEF ServedInv, StreamInv, FoundInv, FrameInv, Types, FrameTypeOK
    <3> QED BY <3>1
  <2> QED BY <2>3, <2>4, <2>5 DEF WorkInv, Alive
<1>3. pc \notin {"prepare", "write", "followUp", "save"} => WorkInv'
  BY DEF WorkInv
<1> QED BY <1>1, <1>2, <1>3, ServedUnwritten DEF RestInv


\* Calls that find, build or write: they write nobody else's stream.
LEMMA ServedCall ==
  ASSUME ServedInv, UNCHANGED <<kubeVars, req, obj, marked, dest>>,
         pc \in {"find", "prepare", "write", "followUp"},
         pc' \in {"prepare", "write", "followUp", "save", "fail"},
         \/ UNCHANGED remote
         \/ \E i \in Ids : \E b : maker[i] \in {req, NoKey} /\ remote' = [remote EXCEPT ![i] = b],
         Settled(req) => WorkInv'
  PROVE  TidyInv' /\ RestInv'
<1>0. req \in Keys /\ remote \in [Ids -> Bodies \cup {NoRemote}]
  BY StreamsParts DEF ServedInv, StreamInv, FrameInv, WorkerInv, Types, FrameTypeOK
<1>1. TidyInv'
  BY TidyWork DEF ServedInv, StreamInv, kubeVars
<1>2. ASSUME NEW k \in Keys, Settled(k)', Live(k)', ~Busy(k)'
      PROVE  Served(k)'
  <2>1. k # req /\ ~Busy(k) /\ Settled(k) /\ Live(k) /\ api'[k] = api[k] /\ dest'[k] = dest[k]
    BY <1>2 DEF Busy, kubeVars, Settled, Fresh, Live
  <2>2. maker[api[k].id] = k /\ api[k].id \in Ids
    BY <2>1, ServedId
  <2>3. remote'[api[k].id] = remote[api[k].id]
    BY <1>0, <2>1, <2>2, KeysAssumption
  <2> QED BY <2>1, <2>3, ServedStays
<1>3. Settled(req)' => WorkInv'
  BY DEF kubeVars, Settled, Fresh
<1> QED BY <1>1, <1>2, <1>3 DEF RestInv

\* What one request to NPM changes.
LEMMA RequestWrites ==
  ASSUME StreamInv, req \in Keys, NEW b, NEW ok \in BOOLEAN
  PROVE  /\ CreateRemote(b, FALSE, ok) =>
              /\ \/ UNCHANGED remote
                 \/ /\ nextId \in Ids /\ maker[nextId] = NoKey
                    /\ remote' = [remote EXCEPT ![nextId] = b]
              /\ ok => maker[nextId] = NoKey /\ nextId \in Ids
         /\ \A i \in Ids : UpdateRemote(i, b, ok) =>
              \/ UNCHANGED remote /\ ~ok
              \/ remote' = [remote EXCEPT ![i] = b]
<1>1. nextId \in Ids => maker[nextId] = NoKey
  BY DEF StreamInv, FrameInv, OwnersInv, Ids
<1> QED BY <1>1 DEF CreateRemote, Post, UpdateRemote, Put, remoteVars

\* The search, the body and the requests.
LEMMA ServedCalls ==
  ASSUME ServedInv,
         FindStreamByID \/ PrepareInput \/ CreateStream \/ FollowUp \/ UpdateStream
  PROVE  TidyInv' /\ RestInv'
<1>0. StreamInv /\ (Settled(req) => WorkInv) /\ NoId \notin Ids
  BY FrameAssumption DEF ServedInv, RestInv, Ids
<1>1. CASE FindStreamByID
  <2>1. /\ UNCHANGED <<kubeVars, req, obj, marked, dest, remote>>
        /\ pc = "find" /\ \/ pc' = "prepare" /\ rid' \in {obj.id, NoId}
                          \/ pc' = "fail"
    BY <1>1 DEF FindStreamByID, remoteVars
  <2>2. WorkInv'
    BY <2>1 DEF WorkInv
  <2> QED BY <2>1, <2>2, ServedCall
<1>2. CASE PrepareInput
  <2>1. /\ UNCHANGED <<kubeVars, req, obj, marked, dest, remote, rid>> /\ pc = "prepare"
        /\ \/ /\ pc' = "write" /\ dest[req] # NoDest
              /\ input' = RequestInput(obj, dest[req], rid # NoId /\ UnscopedSupported)
           \/ pc' = "fail"
    BY <1>2 DEF PrepareInput, remoteVars
  <2>2. Settled(req) => WorkInv'
    BY <1>0, <2>1 DEF WorkInv
  <2> QED BY <2>1, <2>2, ServedCall
<1>3. CASE CreateStream
  <2>1. PICK ok \in BOOLEAN :
          /\ UNCHANGED <<kubeVars, req, obj, marked, dest>> /\ pc = "write"
          /\ CreateRemote(input, FALSE, ok)
          /\ pc' = (IF ok THEN "followUp" ELSE "fail") /\ rid' = (IF ok THEN nextId ELSE NoId)
    BY <1>3 DEF CreateStream
  <2>2. req \in Keys /\ obj \in Stream /\ (obj.id # NoId => maker[obj.id] = req)
    BY <1>0, <2>1, WorkerFacts
  <2>3. /\ \/ UNCHANGED remote
           \/ /\ nextId \in Ids /\ maker[nextId] = NoKey
              /\ remote' = [remote EXCEPT ![nextId] = input]
        /\ ok => maker[nextId] = NoKey /\ nextId \in Ids
    BY <1>0, <2>1, <2>2, RequestWrites
  <2>4. ok => nextId # obj.id
    BY <1>0, <2>2, <2>3, KeysAssumption
  <2>5. WorkInv'
    BY <2>1, <2>4 DEF WorkInv
  <2> QED BY <2>1, <2>3, <2>5, ServedCall
<1>4. CASE FollowUp
  <2>1. PICK ok \in BOOLEAN :
          /\ UNCHANGED <<kubeVars, req, obj, marked, dest, rid, input>>
          /\ pc = "followUp" /\ pc' = "save" /\ UpdateRemote(rid, input, ok)
    BY <1>4 DEF FollowUp
  <2>2. rid \in Ids /\ maker[rid] = req /\ req \in Keys
    BY <1>0, <2>1, WorkerFacts DEF FoundInv
  <2>3. UNCHANGED remote \/ remote' = [remote EXCEPT ![rid] = input]
    BY <1>0, <2>1, <2>2, RequestWrites
  <2>4. Settled(req) => WorkInv'
    BY <1>0, <2>1 DEF WorkInv
  <2> QED BY <2>1, <2>2, <2>3, <2>4, ServedCall
<1>5. CASE UpdateStream
  <2>1. PICK ok \in BOOLEAN :
          /\ UNCHANGED <<kubeVars, req, obj, marked, dest, rid, input>> /\ pc = "write"
          /\ rid # NoId /\ UpdateRemote(rid, input, ok) /\ pc' = (IF ok THEN "save" ELSE "fail")
    BY <1>5 DEF UpdateStream
  <2>2. rid \in Ids /\ maker[rid] = req /\ req \in Keys
    BY <1>0, <2>1, WorkerFacts DEF FoundInv
  <2>3. (UNCHANGED remote /\ ~ok) \/ remote' = [remote EXCEPT ![rid] = input]
    BY <1>0, <2>1, <2>2, RequestWrites
  <2>4. remote \in [Ids -> Bodies \cup {NoRemote}]
    BY <1>0, StreamsParts DEF StreamInv, FrameInv, Types, FrameTypeOK
  <2>5. ok => remote'[rid] = input
    BY <2>2, <2>3, <2>4
  <2>6. Settled(req) => WorkInv'
    BY <1>0, <2>1, <2>5, UnscopedAssumption DEF WorkInv
  <2> QED BY <2>1, <2>2, <2>3, <2>6, ServedCall
<1> QED BY <1>1, <1>2, <1>3, <1>4, <1>5

\* What the status records is what was written.
LEMMA ServedSave ==
  ASSUME ServedInv, SaveStatus
  PROVE  TidyInv' /\ RestInv'
<1>0. /\ FrameInv(Streams) /\ TidyInv /\ pc = "save" /\ rid \in Ids /\ rid # NoId
      /\ req \in Keys /\ ~marked /\ input \in Bodies
      /\ UNCHANGED <<cache, queue, req, marked, rid, remote, input, dest>>
  BY WorkerFacts
  DEF SaveStatus, ServedInv, StreamInv, FoundInv, FrameInv, WorkerInv, Creating, remoteVars
<1> DEFINE v == Recorded(Cached)
<1>1. PICK ok \in BOOLEAN : StatusWrite(v, TRUE, ok) /\ pc' = (IF ok THEN "ready" ELSE "fail")
  BY DEF SaveStatus
<1>2. ASSUME cache[req] # NoObj
      PROVE  /\ v \in Stream /\ v # NoObj
             /\ v.id = rid /\ v.incoming = input.incoming /\ v.forwarding = input.port
             /\ v.fin = cache[req].fin /\ v.deleting = cache[req].deleting
  <2>1. Cached = cache[req] /\ cache[req] \in Stream
    BY <1>0, <1>2, FrameTypes, StreamsParts DEF Cached
  <2>2. /\ v \in Stream
        /\ v.id = rid /\ v.incoming = input.incoming /\ v.forwarding = input.port
        /\ v.fin = cache[req].fin /\ v.deleting = cache[req].deleting
    BY <1>0, <2>1 DEF Stream, Recorded, Bodies
  <2> HIDE DEF v
  <2> QED BY <2>2, StreamsAssumption
<1> HIDE DEF v
<1>3. TidyInv' /\ Calm
  <2>1. pc # "idle" /\ pc' # "done" /\ pc' \in {"ready", "fail"} /\ pc \notin {"fail", "requeue"}
    BY <1>0, <1>1
  <2> QED BY <1>0, <1>1, <1>2, <2>1, TidyStatus, StreamsParts
<1>4. ASSUME NEW k \in Keys, Settled(k)', Live(k)', ~Busy(k)'
      PROVE  Served(k)'
  <2>1. Settled(k) /\ Live(k) /\ api'[k] = api[k] /\ dest'[k] = dest[k]
    BY <1>0, <1>3, <1>4 DEF Calm, Live
  <2>2. CASE k # req
    BY <1>0, <2>1, <2>2, ServedStays DEF Busy
  <2>3. CASE k = req
    <3>1. ok
      BY <1>0, <1>1, <1>4, <2>3 DEF Busy
    <3>2. cache[req] # NoObj /\ Publish(req, v) /\ api'[req] = v
      <4>1. cache[req] # NoObj /\ Publish(req, v)
        BY <1>1, <3>1, StatusOutcome
      <4>2. v \in Streams.objects \cup {NoObj}
        BY <1>2, <4>1, StreamsParts
      <4>3. /\ api \in [Keys -> Streams.objects \cup {NoObj}]
            /\ watch \in [Keys -> Seq(Streams.objects \cup {NoObj})]
        BY <1>0, FrameTypes
      <4> QED BY <1>0, <4>1, <4>2, <4>3, PublishKeeps
    <3>3. /\ api[req].id = rid /\ api[req].incoming = input.incoming
          /\ api[req].forwarding = input.port
      BY <1>2, <2>1, <2>3, <3>2
    <3>4. Like(obj, api[req]) /\ marked = obj.deleting
      BY <1>0, <2>1, <2>3 DEF TidyInv
    <3>5. /\ dest[req] # NoDest /\ input = RequestInput(obj, dest[req], UnscopedSupported)
          /\ Alive(rid) => remote[rid] = input
      BY <1>0, <2>1, <2>3, <3>3, <3>4 DEF ServedInv, RestInv, WorkInv, Like
    <3>6. RequestInput(obj, dest[req], UnscopedSupported)
          = RequestInput(api[req], dest[req], UnscopedSupported)
      BY <3>4 DEF Like, RequestInput
    <3>7. /\ input.port = dest[req].port
          /\ input.incoming = IF api[req].spec.overwrite THEN dest[req].port
                              ELSE api[req].spec.incoming
      BY <3>5, <3>6 DEF RequestInput, Forward
    <3> QED BY <1>0, <2>1, <2>3, <3>3, <3>4, <3>5, <3>6, <3>7 DEF Served, Like, Alive, Live
  <2> QED BY <2>2, <2>3
<1>5. WorkInv'
  BY <1>0, <1>1 DEF WorkInv
<1> QED BY <1>4, <1>3, <1>5 DEF RestInv


\* The last write and the end of a request.
LEMMA ServedEnd ==
  ASSUME ServedInv, UNCHANGED dest, MarkReady(TRUE) \/ Return \/ Crash
  PROVE  TidyInv' /\ RestInv'
<1>0. /\ FrameInv(Streams) /\ TidyInv /\ IsKind(Streams) /\ CalmDest
      /\ \A o \in Streams.objects : \A type \in ConditionTypes :
           SetCondition(o, type).spec = o.spec
  BY StreamIsKind, StreamsParts DEF ServedInv, StreamInv, SetCondition, Stream, CalmDest
<1>1. CASE MarkReady(TRUE)
  <2>1. TidyInv' /\ Calm
    BY <1>0, <1>1, TidyConditions
  <2>2. pc = "ready" /\ pc' = "done" /\ UNCHANGED remote
    BY <1>1 DEF MarkReady, remoteVars
  <2>3. \A k \in Keys : ~Busy(k)
    BY <2>2 DEF Busy
  <2> QED BY <1>0, <2>1, <2>2, <2>3, ServedUnwritten DEF RestInv, WorkInv
<1>2. CASE Return
  <2>1. TidyInv' /\ Calm /\ (pc = "requeue" => \A k \in Keys : Settled(k)' => k # req)
    BY <1>0, <1>2, TidyEnd
  <2>2. pc \in {"done", "requeue"} /\ pc' = "idle" /\ UNCHANGED remote
    BY <1>2 DEF Return, Reset, remoteVars
  <2>3. \A k \in Keys : Settled(k)' => ~Busy(k)
    BY <2>1, <2>2 DEF Busy
  <2> QED BY <1>0, <2>1, <2>2, <2>3, ServedUnwritten DEF RestInv, WorkInv
<1>3. CASE Crash
  <2>1. pc' = "idle"
    BY <1>3 DEF Crash, Reset
  <2> QED BY <1>0, <1>3, <2>1, TidyEnd DEF RestInv, WorkInv
<1> QED BY <1>1, <1>2, <1>3

\* A request that is taken off the queue.
LEMMA ServedDequeue ==
  ASSUME ServedInv, UNCHANGED dest, NEW k \in Keys, Dequeue(k)
  PROVE  TidyInv' /\ RestInv'
<1>1. /\ TidyInv'
      /\ \A j \in Keys : Settled(j)' => api'[j] = api[j] /\ (j = k \/ Settled(j))
      /\ Settled(k)' /\ Live(k)' => req' = k /\ pc' = "finalizer"
  BY TidyDequeue DEF ServedInv, StreamInv
<1>2. pc = "idle" /\ pc' \in {"idle", "finalizer"} /\ UNCHANGED remote
  BY DEF Dequeue, remoteVars
<1>3. ASSUME NEW j \in Keys, Settled(j)', Live(j)', ~Busy(j)'
      PROVE  Served(j)'
  <2>1. Settled(j) /\ api'[j] = api[j] /\ Live(j) /\ ~Busy(j)
    BY <1>1, <1>2, <1>3 DEF Busy, Live
  <2> QED BY <1>2, <2>1, ServedStays
<1> QED BY <1>1, <1>2, <1>3 DEF RestInv, WorkInv

\* What users, administrators and the watch do to the worker's view.
LEMMA StreamTidyOutside ==
  ASSUME ServedInv,
         \/ \E k \in Keys :
              \/ \E s \in Specs : UserCreate(k, NewStream(s)) \/ UserEdit(k, s)
              \/ UserDelete(k) \/ WatchEvent(k)
         \/ UNCHANGED <<api, watch, req, obj, marked, pc>> /\ queue \subseteq queue'
  PROVE  TidyInv' /\ Calm
<1> DEFINE N == {NewStream(s) : s \in Specs}
<1>1. ASSUME NEW s \in Specs
      PROVE  NewStream(s) \in Streams.objects /\ ~NewStream(s).deleting
  BY StreamsParts, StreamsAssumption DEF NewStream, Stream
<1>2. \A v \in N : v \in Streams.objects /\ ~v.deleting
  BY <1>1
<1>3. \/ \E k \in Keys :
           \/ \E v \in N : UserCreate(k, v)
           \/ \E s \in Specs : UserEdit(k, s)
           \/ UserDelete(k) \/ WatchEvent(k)
      \/ UNCHANGED <<api, watch, req, obj, marked, pc>> /\ queue \subseteq queue'
  OBVIOUS
<1> HIDE DEF N
<1> QED BY <1>2, <1>3, StreamIsKind, TidyOutside DEF ServedInv, StreamInv

\* A change of the destination queues the stream, unless it is unknown.
LEMMA ServedDestination ==
  ASSUME ServedInv, NEW k \in Keys, DestinationChange(k)
  PROVE  TidyInv' /\ RestInv'
<1>1. /\ UNCHANGED <<api, cache, watch, req, obj, marked, pc, rid, input, remote>>
      /\ queue' = (IF cache[k] # NoObj THEN queue \cup {k} ELSE queue)
      /\ \A j \in Keys \ {k} : dest'[j] = dest[j]
  BY DEF DestinationChange, helperVars, localVars, remoteVars
<1>2. TidyInv' /\ Calm
  BY <1>1, StreamTidyOutside
<1>3. Settled(k)' => ~Live(k)'
  <2>1. ASSUME Settled(k)'
        PROVE  cache[k] = NoObj /\ Settled(k)
    BY <1>1, <1>2, <2>1 DEF Settled, Calm
  <2> QED BY <1>1, <2>1, SettledSeen DEF Live, ServedInv, StreamInv
<1>4. CalmDest
  BY <1>1, <1>3 DEF CalmDest
<1> QED BY <1>1, <1>2, <1>4, RestOutside

\* Every step of the stream's controller leaves nothing undone.
LEMMA NextServed ==
  ASSUME ServedInv, [Next]_streamVars
  PROVE  ServedInv'
<1>0. FrameInv(Streams) /\ IsKind(Streams) /\ TidyInv
  BY StreamIsKind DEF ServedInv, StreamInv
<1>1. StreamInv'
  BY NextStreamInv DEF ServedInv
<1> SUFFICES TidyInv' /\ RestInv'
  BY <1>1 DEF ServedInv
<1>2. UNCHANGED dest => CalmDest
  BY DEF CalmDest
<1>3. CASE createOrUpdateStream
  BY <1>3, ServedCalls, ServedSave DEF createOrUpdateStream
<1>4. CASE (EnsureFinalizer(Encoded(api[req])) \/ DropFinalizer(Encoded(api[req]))) /\ UNCHANGED dest
  <2>1. api[req] \in Streams.objects =>
          Encoded(api[req]) \in Streams.objects /\ Agrees(Encoded(api[req]), api[req], Streams)
    BY EncodedAgrees, StreamsParts
  <2>2. TidyInv' /\ Calm
    BY <1>0, <1>4, <2>1, TidyFinalizer, TidyRemoval
  <2>3. CASE EnsureFinalizer(Encoded(api[req]))
    <3>1. UNCHANGED <<req, remote>> /\ pc = "finalizer" /\ pc' \in {"reconciling", "requeue"}
      BY <2>3 DEF EnsureFinalizer, remoteVars
    <3> QED BY <1>2, <1>4, <2>2, <3>1, RestWorker
  <2>4. CASE DropFinalizer(Encoded(api[req]))
    <3>1. /\ UNCHANGED <<req, remote, marked>> /\ pc = "removeFinalizer" /\ marked
          /\ pc' \in {"done", "requeue"}
      BY <1>0, <2>4 DEF DropFinalizer, remoteVars, FrameInv, WorkerInv
    <3> QED BY <1>2, <1>4, <2>2, <3>1, RestEnds
  <2> QED BY <1>4, <2>3, <2>4
<1>5. CASE (MarkReconciling(TRUE) \/ MarkError(TRUE)) /\ UNCHANGED dest
  <2>1. /\ UNCHANGED <<req, remote>> /\ pc \in {"reconciling", "fail"}
        /\ pc' \in {"client", "requeue"}
    BY <1>5 DEF MarkReconciling, MarkError, remoteVars
  <2>2. \A o \in Streams.objects : \A type \in ConditionTypes :
           SetCondition(o, type).spec = o.spec
    BY StreamsParts DEF SetCondition, Stream
  <2> QED BY <1>0, <1>2, <1>5, <2>1, <2>2, TidyConditions, RestWorker
<1>6. CASE InitNginxPMClient(obj.id # NoId) /\ UNCHANGED dest
  <2>1. /\ UNCHANGED <<req, remote, marked>> /\ pc = "client"
        /\ pc' \in {"find", "fail", "done", "delete", "removeFinalizer"}
        /\ pc' = "done" => marked
    BY <1>6 DEF InitNginxPMClient
  <2> QED BY <1>0, <1>2, <1>6, <2>1, TidyClient, RestWorker, RestEnds
<1>7. CASE DeleteRemote /\ UNCHANGED dest
  <2>1. /\ UNCHANGED <<api, watch, queue, req, obj, marked>>
        /\ pc = "delete" /\ pc' = "removeFinalizer"
        /\ UNCHANGED remote \/ remote' = [remote EXCEPT ![obj.id] = NoRemote]
    BY <1>7 DEF DeleteRemote, kubeVars
  <2> QED BY <1>0, <1>2, <1>7, <2>1, TidyWork, RestWorker
<1>8. ASSUME NEW k \in Keys, WatchEvent(k), UNCHANGED dest
      PROVE  TidyInv' /\ RestInv'
  <2>1. UNCHANGED <<pc, req, obj, rid, input, remote>>
    BY <1>8 DEF WatchEvent, helperVars, localVars, remoteVars
  <2> QED BY <1>2, <1>8, <2>1, StreamTidyOutside, RestOutside
<1>9. ASSUME NEW k \in Keys, UNCHANGED dest,
             \/ \E s \in Specs : UserCreate(k, NewStream(s)) \/ UserEdit(k, s)
             \/ UserDelete(k)
      PROVE  TidyInv' /\ RestInv'
  <2>1. UNCHANGED <<pc, req, obj, rid, input, remote>>
    BY <1>9 DEF UserCreate, UserEdit, UserDelete, UserWrite, localVars, remoteVars
  <2> QED BY <1>2, <1>9, <2>1, StreamTidyOutside, RestOutside
<1>10. ASSUME NEW k \in Keys, Trigger(k), UNCHANGED dest
       PROVE  TidyInv' /\ RestInv'
  <2>1. UNCHANGED <<api, watch, req, obj, marked, pc, rid, input, remote>> /\ queue \subseteq queue'
    BY <1>10 DEF Trigger, helperVars, localVars, remoteVars
  <2> QED BY <1>2, <1>10, <2>1, StreamTidyOutside, RestOutside
<1>11. ASSUME NEW i \in Ids, AdminRemove(i), UNCHANGED dest
       PROVE  TidyInv' /\ RestInv'
  <2>1. /\ UNCHANGED <<api, watch, queue, req, obj, marked, pc, rid, input>>
        /\ remote' = [remote EXCEPT ![i] = NoRemote]
    BY <1>11 DEF AdminRemove, kubeVars, helperVars, localVars
  <2> QED BY <1>2, <1>11, <2>1, StreamTidyOutside, RestOutside
<1>12. CASE UNCHANGED streamVars
  <2>1. UNCHANGED <<api, watch, queue, req, obj, marked, pc, rid, input, remote, dest>>
    BY <1>12 DEF streamVars, vars, kubeVars, helperVars, localVars, remoteVars
  <2> QED BY <1>2, <2>1, StreamTidyOutside, RestOutside
<1> QED BY <1>3, <1>4, <1>5, <1>6, <1>7, <1>8, <1>9, <1>10, <1>11, <1>12,
           ServedEnd, ServedDequeue, ServedDestination
        DEF Next, Reconcile, Environment

\* An idle operator has every stream in NPM as its spec and the cluster have it
\* now, load balancing included, whatever changed while it was at work.
THEOREM QuietStreamsServed == Spec => []QuietMeansServed
<1>1. Init => ServedInv
  BY StreamStarts DEF ServedInv, TidyInv, RestInv, WorkInv, Init, FrameInit, Awaited, Live
<1>2. ServedInv /\ [Next]_streamVars => ServedInv'
  BY NextServed
<1>3. ServedInv => QuietMeansServed
  BY QuietIsSettled DEF ServedInv, RestInv, QuietMeansServed
<1> QED BY <1>1, <1>2, <1>3, PTL DEF Spec
-----------------------------------------------------------------------------
(* Where a Stream forwards to                                               *)

\* ServiceForwarding has its own specification.  In the rest of the module cache,
\* watch, pc, dest, remote and faults are its variables.
CONSTANTS Services, Pods, Nodes, Labels, Addresses, NoAddress, ClusterIP, Nil, Ref, Foreign,
          Unscoped, Changes, MaxChanges

VARIABLES world, queued, slot, svc, hosts, missed, changes

Fwd == INSTANCE ServiceForwarding

Pod ==
  [phase: {"Pending", "Running", "Failed"}, node: Nodes, labels: SUBSET Labels, deleting: BOOLEAN]

\* The versions of an object.
Kind(o) ==
  IF o \in Services THEN Fwd!Service \cup {Nil}
  ELSE IF o \in Pods THEN Pod \cup {Nil}
  ELSE Addresses \cup {NoAddress, Nil}

\* The undelivered versions lead from the cached one to the stored one.
LeadsFrom(c, s, w) == IF s = << >> THEN c = w ELSE s[Len(s)] = w

\* A pod is marked for deletion by a version that changes nothing else.
Marks(v, w) == w # Nil /\ w.deleting => v # Nil /\ (v.deleting \/ w.labels = v.labels)

MarkedAlone(c, s) ==
  /\ s # << >> => Marks(c, s[1])
  /\ \A i \in 1 .. Len(s) - 1 : Marks(s[i], s[i + 1])

EventsInv ==
  /\ world = [o \in Fwd!Objects |-> world[o]]
  /\ cache = [o \in Fwd!Objects |-> cache[o]]
  /\ watch = [o \in Fwd!Objects |-> watch[o]]
  /\ \A o \in Fwd!Objects :
       /\ world[o] \in Kind(o) /\ cache[o] \in Kind(o) /\ watch[o] \in Seq(Kind(o))
       /\ LeadsFrom(cache[o], watch[o], world[o])
  /\ \A p \in Pods : MarkedAlone(cache[p], watch[p])

\* d is a destination of slot i for a worker that reads the caches now.
Right(d, i) == Ref[i] # Nil => cache[Ref[i]] # Nil /\ d[i] \in Fwd!Destinations(cache, Ref[i])

PlacesInv ==
  /\ dest = [i \in Fwd!Slots |-> dest[i]]
  /\ pc \in {"service", "pods", "nodes"} => slot \in Fwd!Slots
  /\ pc \in {"pods", "nodes"} => Ref[slot] # Nil

\* As long as nothing has queued the resource again, whatever the worker has
\* resolved is what it would resolve now.
ResolvedInv ==
  /\ pc \in {"service", "pods", "nodes"} => \A i \in 1 .. slot - 1 : Right(dest, i)
  /\ pc \in {"pods", "nodes"} =>
       cache[Ref[slot]] # Nil /\ svc = cache[Ref[slot]] /\ svc.type = "NodePort"
  /\ pc = "nodes" => hosts = {cache[p].node : p \in Fwd!Running(cache, svc)}
  /\ pc = "put" => \A i \in Fwd!Slots : Right(dest, i)
  /\ pc \in {"done", "idle"} => \A i \in Fwd!Slots : Right(remote, i)

ForwardingInv == EventsInv /\ PlacesInv /\ (~queued /\ ~missed => ResolvedInv)

\* The services are found where the mapping functions of the pods' watch look:
\* in the resource's namespace, and one of them in spec.forward.
PodsAreWatched ==
  \A i \in Fwd!Slots : Ref[i] # Nil => Ref[1] # Nil /\ {Ref[1], Ref[i]} \cap Foreign = {}

\* A delivery brings the cache one version nearer to the store.
LEMMA NextVersion ==
  ASSUME NEW S, NEW c, NEW s \in Seq(S), NEW w, s # << >>
  PROVE  /\ Head(s) \in S /\ Tail(s) \in Seq(S) /\ Head(s) = s[1]
         /\ LeadsFrom(c, s, w) => LeadsFrom(Head(s), Tail(s), w)
         /\ MarkedAlone(c, s) => MarkedAlone(Head(s), Tail(s)) /\ Marks(c, Head(s))
<1>1. /\ Head(s) = s[1] /\ s[1] \in S /\ Tail(s) \in Seq(S)
      /\ Len(s) \in Nat \ {0} /\ Len(Tail(s)) = Len(s) - 1
      /\ \A i \in 1 .. Len(s) - 1 : Tail(s)[i] = s[i + 1]
  OBVIOUS
<1>2. Tail(s) = << >> <=> Len(s) = 1
  <2>1. Tail(s) = << >> => Len(Tail(s)) = 0
    BY EmptySeq
  <2>2. Tail(s) # << >> => Len(Tail(s)) # 0
    BY <1>1, EmptySeq
  <2> QED BY <1>1, <2>1, <2>2
<1>3. LeadsFrom(c, s, w) => LeadsFrom(Head(s), Tail(s), w)
  BY <1>1, <1>2 DEF LeadsFrom
<1>4. ASSUME MarkedAlone(c, s)
      PROVE  MarkedAlone(Head(s), Tail(s)) /\ Marks(c, Head(s))
  <2>1. Marks(c, Head(s))
    BY <1>1, <1>4 DEF MarkedAlone
  <2>2. ASSUME Tail(s) # << >>
        PROVE  Marks(Head(s), Tail(s)[1])
    <3>1. 1 \in 1 .. Len(s) - 1
      BY <1>1, <1>2, <2>2
    <3>2. Marks(s[1], s[1 + 1])
      BY <1>4, <3>1 DEF MarkedAlone
    <3> QED BY <1>1, <3>1, <3>2
  <2>3. ASSUME NEW i \in 1 .. Len(Tail(s)) - 1
        PROVE  Marks(Tail(s)[i], Tail(s)[i + 1])
    <3>1. i \in 1 .. Len(s) - 1 /\ i + 1 \in 1 .. Len(s) - 1
      BY <1>1
    <3>2. Marks(s[i + 1], s[(i + 1) + 1])
      BY <1>4, <3>1 DEF MarkedAlone
    <3> QED BY <1>1, <3>1, <3>2
  <2> QED BY <2>1, <2>2, <2>3 DEF MarkedAlone
<1> QED BY <1>1, <1>3, <1>4

\* A stored version becomes the last undelivered one.
LEMMA NewVersion ==
  ASSUME NEW S, NEW c, NEW s \in Seq(S), NEW w, NEW v \in S, LeadsFrom(c, s, w)
  PROVE  /\ Append(s, v) \in Seq(S) /\ LeadsFrom(c, Append(s, v), v)
         /\ MarkedAlone(c, s) /\ Marks(w, v) => MarkedAlone(c, Append(s, v))
<1> DEFINE t == Append(s, v)
<1>1. /\ t \in Seq(S) /\ t # << >> /\ Len(s) \in Nat /\ Len(t) = Len(s) + 1
      /\ t[Len(t)] = v
      /\ \A i \in 1 .. Len(s) : t[i] = s[i]
  OBVIOUS
<1> HIDE DEF t
<1>2. LeadsFrom(c, t, v)
  BY <1>1 DEF LeadsFrom
<1>3. ASSUME MarkedAlone(c, s), Marks(w, v)
      PROVE  MarkedAlone(c, t)
  <2>1. CASE s = << >>
    <3>1. Len(s) = 0
      BY <2>1
    <3>2. c = w
      BY <2>1 DEF LeadsFrom
    <3> QED BY <1>1, <1>3, <3>1, <3>2 DEF MarkedAlone
  <2>2. CASE s # << >>
    <3>1. Len(s) \in Nat \ {0} /\ s[Len(s)] = w
      BY <2>2, <1>1 DEF LeadsFrom
    <3>2. Marks(c, t[1])
      BY <1>1, <1>3, <2>2, <3>1 DEF MarkedAlone
    <3>3. ASSUME NEW i \in 1 .. Len(t) - 1
          PROVE  Marks(t[i], t[i + 1])
      <4>1. CASE i = Len(s)
        BY <1>1, <1>3, <3>1, <4>1
      <4>2. CASE i # Len(s)
        <5>1. i \in 1 .. Len(s) - 1 /\ i + 1 \in 1 .. Len(s) /\ i \in 1 .. Len(s)
          BY <1>1, <4>2
        <5>2. Marks(s[i], s[i + 1])
          BY <1>3, <5>1 DEF MarkedAlone
        <5> QED BY <1>1, <5>1, <5>2
      <4> QED BY <4>1, <4>2
    <3> QED BY <3>2, <3>3 DEF MarkedAlone
  <2> QED BY <2>1, <2>2
<1> QED BY <1>1, <1>2, <1>3 DEF t

\* What Destinations reads of a view.
LEMMA SameDestinations ==
  ASSUME NEW c, NEW d, NEW s, d[s] = c[s],
         Fwd!Running(d, c[s]) = Fwd!Running(c, c[s]),
         \A p \in Fwd!Running(c, c[s]) : d[p] = c[p] /\ c[p].node \in Nodes,
         \A n \in Nodes : d[n] = c[n]
  PROVE  Fwd!Destinations(d, s) = Fwd!Destinations(c, s)
<1> DEFINE at(v) == {v[p].node : p \in Fwd!Running(c, c[s])}
<1>1. at(d) = at(c) /\ at(c) \subseteq Nodes
  OBVIOUS
<1>2. Fwd!GetPodsHostIPS(d, at(c)) = Fwd!GetPodsHostIPS(c, at(c))
  BY <1>1 DEF Fwd!GetPodsHostIPS
<1> QED BY <1>1, <1>2 DEF Fwd!Destinations

\* The parts of the worker's and the environment's steps that the proofs need.
LEMMA DeliveredParts ==
  ASSUME EventsInv, NEW o \in Fwd!Objects, Fwd!Deliver(o)
  PROVE  /\ UNCHANGED <<world, changes, pc, slot, svc, hosts, dest, remote, faults>>
         /\ cache' = [cache EXCEPT ![o] = Head(watch[o])]
         /\ watch' = [watch EXCEPT ![o] = Tail(watch[o])]
         /\ watch[o] # << >>
         /\ Head(watch[o]) \in Kind(o)
         /\ cache'[o] = Head(watch[o]) /\ \A x \in Fwd!Objects \ {o} : cache'[x] = cache[x]
BY NextVersion DEF EventsInv, Fwd!Deliver, Fwd!workerVars

\* A delivery that neither queues the resource nor goes unreported concerns no
\* pod that a service of the resource selects.
LEMMA UnrelatedPod ==
  ASSUME EventsInv, PodsAreWatched, NEW o \in Pods, Fwd!Deliver(o), ~queued', ~missed',
         NEW i \in Fwd!Slots, Ref[i] # Nil, cache[Ref[i]] # Nil, cache[Ref[1]] # Nil
  PROVE  o \notin Fwd!Running(cache, cache[Ref[i]]) /\ o \notin Fwd!Running(cache', cache[Ref[i]])
<1> DEFINE old == cache[o]
           new == Head(watch[o])
           s == cache[Ref[i]]
<1>0. o \in Fwd!Objects
  BY DEF Fwd!Objects
<1>1. /\ ~Fwd!PodEvent(old, new)
      /\ ~(old # Nil /\ old.deleting)
  BY DEF Fwd!Deliver, Fwd!Unreported
<1>2. Marks(old, new) /\ cache'[o] = new
  BY <1>0, NextVersion, DeliveredParts DEF EventsInv
<1>3. Ref[1] # Nil /\ Ref[1] \notin Foreign /\ Ref[i] \notin Foreign
  BY DEF PodsAreWatched
<1> HIDE DEF old, new
<1>4. \A v : v # Nil /\ ~v.deleting /\ Fwd!Selects(s, v) => Fwd!findProxyHostsForPod(v)
  BY <1>3 DEF Fwd!findProxyHostsForPod, Fwd!PodMatches
<1>5. old # Nil => ~Fwd!Selects(s, old)
  BY <1>1, <1>4 DEF Fwd!PodEvent
<1>6. new # Nil => ~Fwd!Selects(s, new)
  <2>1. CASE new # Nil /\ new.deleting
    BY <1>1, <1>2, <1>5, <2>1 DEF Marks, Fwd!Selects
  <2>2. CASE new # Nil /\ ~new.deleting
    BY <1>1, <1>4, <2>2 DEF Fwd!PodEvent
  <2> QED BY <2>1, <2>2
<1> QED BY <1>2, <1>5, <1>6 DEF Fwd!Running, old

\* Such a delivery leaves what the worker reads for a service as it was.
LEMMA SameView ==
  ASSUME ForwardingInv, PodsAreWatched, Fwd!KindsAssumption,
         NEW o \in Fwd!Objects, Fwd!Deliver(o), ~queued', ~missed',
         NEW i \in Fwd!Slots, Ref[i] # Nil, cache[Ref[i]] # Nil, cache[Ref[1]] # Nil,
         Ref[i] \in Services
  PROVE  /\ cache'[Ref[i]] = cache[Ref[i]]
         /\ Fwd!Running(cache', cache[Ref[i]]) = Fwd!Running(cache, cache[Ref[i]])
         /\ \A p \in Fwd!Running(cache, cache[Ref[i]]) : cache'[p] = cache[p]
         /\ Fwd!Destinations(cache', Ref[i]) = Fwd!Destinations(cache, Ref[i])
<1>1. o \notin Nodes /\ o # Ref[i]
  BY DEF Fwd!Deliver, Fwd!Unreported, Fwd!ServiceEvent
<1>2. \A x \in Fwd!Objects \ {o} : cache'[x] = cache[x]
  BY DeliveredParts DEF ForwardingInv
<1>3. cache'[Ref[i]] = cache[Ref[i]] /\ \A n \in Nodes : cache'[n] = cache[n]
  BY <1>1, <1>2 DEF Fwd!Objects
<1>4. o \in Pods => o \notin Fwd!Running(cache, cache[Ref[i]])
                   /\ o \notin Fwd!Running(cache', cache[Ref[i]])
  BY UnrelatedPod DEF ForwardingInv
<1>5. \A p \in Pods \ {o} : cache'[p] = cache[p]
  BY <1>2 DEF Fwd!Objects
<1>6. /\ Fwd!Running(cache', cache[Ref[i]]) = Fwd!Running(cache, cache[Ref[i]])
      /\ \A p \in Fwd!Running(cache, cache[Ref[i]]) : cache'[p] = cache[p]
  BY <1>4, <1>5 DEF Fwd!Running
<1>7. \A p \in Fwd!Running(cache, cache[Ref[i]]) : cache[p].node \in Nodes
  <2>1. \A p \in Pods : cache[p] # Nil => cache[p] \in Pod
    BY DEF ForwardingInv, EventsInv, Kind, Fwd!Objects, Fwd!KindsAssumption
  <2> QED BY <2>1 DEF Fwd!Running, Pod
<1>8. Fwd!Destinations(cache', Ref[i]) = Fwd!Destinations(cache, Ref[i])
  BY <1>3, <1>6, <1>7, SameDestinations
<1> QED BY <1>3, <1>6, <1>8

\* A reference is to a service.
LEMMA ReferencesAreServices ==
  ASSUME Fwd!ForwardingAssumption, NEW i \in Fwd!Slots
  PROVE  /\ Ref[i] # Nil => Ref[i] \in Services /\ Ref[i] \in Fwd!Objects
         /\ Len(Ref) \in Nat \ {0} /\ 1 \in Fwd!Slots /\ Fwd!Slots = 1 .. Len(Ref)
BY EmptySeq DEF Fwd!ForwardingAssumption, Fwd!Slots, Fwd!Objects

\* Delivery keeps the order of events.
LEMMA DeliverEvents ==
  ASSUME EventsInv, NEW o \in Fwd!Objects, Fwd!Deliver(o)
  PROVE  EventsInv'
<1>1. /\ Head(watch[o]) \in Kind(o) /\ Tail(watch[o]) \in Seq(Kind(o))
      /\ LeadsFrom(Head(watch[o]), Tail(watch[o]), world[o])
      /\ MarkedAlone(cache[o], watch[o]) => MarkedAlone(Head(watch[o]), Tail(watch[o]))
  BY NextVersion, DeliveredParts DEF EventsInv
<1>2. /\ world' = world
      /\ cache' = [x \in Fwd!Objects |-> IF x = o THEN Head(watch[o]) ELSE cache[x]]
      /\ watch' = [x \in Fwd!Objects |-> IF x = o THEN Tail(watch[o]) ELSE watch[x]]
  BY DeliveredParts DEF EventsInv
<1>3. \A x \in Fwd!Objects :
        world'[x] \in Kind(x) /\ cache'[x] \in Kind(x) /\ watch'[x] \in Seq(Kind(x))
        /\ LeadsFrom(cache'[x], watch'[x], world'[x])
  BY <1>1, <1>2 DEF EventsInv
<1>4. \A p \in Pods : MarkedAlone(cache'[p], watch'[p])
  BY <1>1, <1>2 DEF EventsInv, Fwd!Objects
<1>5. /\ world' = [x \in Fwd!Objects |-> world'[x]]
      /\ cache' = [x \in Fwd!Objects |-> cache'[x]]
      /\ watch' = [x \in Fwd!Objects |-> watch'[x]]
  BY <1>2 DEF EventsInv
<1> QED BY <1>3, <1>4, <1>5 DEF EventsInv, Kind, Fwd!Objects, Fwd!Service, Pod

\* Delivery keeps what is resolved, or has the resource queued again.
LEMMA DeliverResolved ==
  ASSUME ForwardingInv, PodsAreWatched, Fwd!ForwardingAssumption, Fwd!KindsAssumption,
         NEW o \in Fwd!Objects, Fwd!Deliver(o), ~queued', ~missed'
  PROVE  ResolvedInv'
<1>1. ResolvedInv /\ UNCHANGED <<pc, slot, svc, hosts, dest, remote>>
  BY DeliveredParts DEF ForwardingInv, Fwd!Deliver
<1>2. ASSUME NEW i \in Fwd!Slots, Ref[i] # Nil, cache[Ref[i]] # Nil, cache[Ref[1]] # Nil
      PROVE  /\ cache'[Ref[i]] = cache[Ref[i]]
             /\ Fwd!Running(cache', cache[Ref[i]]) = Fwd!Running(cache, cache[Ref[i]])
             /\ \A p \in Fwd!Running(cache, cache[Ref[i]]) : cache'[p] = cache[p]
             /\ Fwd!Destinations(cache', Ref[i]) = Fwd!Destinations(cache, Ref[i])
  BY <1>2, SameView, ReferencesAreServices
<1>3. \A i \in Fwd!Slots : Ref[i] # Nil => Ref[1] # Nil
  BY DEF PodsAreWatched
<1>4. 1 \in Fwd!Slots /\ Fwd!Slots = 1 .. Len(Ref) /\ Len(Ref) \in Nat \ {0}
  BY EmptySeq DEF Fwd!ForwardingAssumption, Fwd!Slots
<1>5. ASSUME NEW i \in Fwd!Slots, NEW d, Right(d, 1), Right(d, i)
      PROVE  Ref[i] # Nil => cache'[Ref[i]] # Nil /\ d[i] \in Fwd!Destinations(cache', Ref[i])
  BY <1>2, <1>3, <1>5 DEF Right
<1>6. ASSUME pc \in {"service", "pods", "nodes"}
      PROVE  \A i \in 1 .. slot - 1 :
               Ref[i] # Nil => cache'[Ref[i]] # Nil /\ dest[i] \in Fwd!Destinations(cache', Ref[i])
  <2>1. slot \in Fwd!Slots /\ \A i \in 1 .. slot - 1 : Right(dest, i)
    BY <1>1, <1>6 DEF ForwardingInv, PlacesInv, ResolvedInv
  <2>2. \A i \in 1 .. slot - 1 : i \in Fwd!Slots /\ 1 \in 1 .. slot - 1
    BY <1>4, <2>1
  <2> QED BY <1>5, <2>1, <2>2
<1>7. ASSUME pc \in {"pods", "nodes"}
      PROVE  /\ cache'[Ref[slot]] = cache[Ref[slot]]
             /\ Fwd!Running(cache', svc) = Fwd!Running(cache, svc)
             /\ \A p \in Fwd!Running(cache, svc) : cache'[p] = cache[p]
  <2>1. /\ slot \in Fwd!Slots /\ \A i \in 1 .. slot - 1 : Right(dest, i)
        /\ Ref[slot] # Nil /\ cache[Ref[slot]] # Nil /\ svc = cache[Ref[slot]]
    BY <1>1, <1>7 DEF ForwardingInv, PlacesInv, ResolvedInv
  <2>2. cache[Ref[1]] # Nil
    <3>1. slot = 1 \/ 1 \in 1 .. slot - 1
      BY <1>4, <2>1
    <3> QED BY <1>3, <2>1, <3>1 DEF Right
  <2> QED BY <1>2, <2>1, <2>2
<1>8. ASSUME NEW d, \A i \in Fwd!Slots : Right(d, i)
      PROVE  \A i \in Fwd!Slots :
               Ref[i] # Nil => cache'[Ref[i]] # Nil /\ d[i] \in Fwd!Destinations(cache', Ref[i])
  BY <1>4, <1>5, <1>8
<1>9. pc = "put" => \A i \in Fwd!Slots : Right(dest, i)'
  BY <1>1, <1>8 DEF ResolvedInv, Right
<1>10. pc \in {"done", "idle"} => \A i \in Fwd!Slots : Right(remote, i)'
  BY <1>1, <1>8 DEF ResolvedInv, Right
<1>11. pc \in {"service", "pods", "nodes"} => \A i \in 1 .. slot - 1 : Right(dest, i)'
  BY <1>1, <1>6 DEF Right
<1>12. pc = "nodes" => hosts = {cache'[p].node : p \in Fwd!Running(cache', svc)}
  BY <1>1, <1>7 DEF ResolvedInv
<1> QED BY <1>1, <1>7, <1>9, <1>10, <1>11, <1>12 DEF ResolvedInv

\* A change of the cluster stores a version that Change is given.
LEMMA ChangeEvents ==
  ASSUME EventsInv, Fwd!KindsAssumption, NEW kind, NEW o \in Fwd!Objects, NEW v \in Kind(o),
         Fwd!Change(kind, o, v), o \in Pods => Marks(world[o], v)
  PROVE  EventsInv'
<1>1. /\ Append(watch[o], v) \in Seq(Kind(o)) /\ LeadsFrom(cache[o], Append(watch[o], v), v)
      /\ o \in Pods => MarkedAlone(cache[o], Append(watch[o], v))
  BY NewVersion DEF EventsInv
<1>2. /\ cache' = cache
      /\ world' = [x \in Fwd!Objects |-> IF x = o THEN v ELSE world[x]]
      /\ watch' = [x \in Fwd!Objects |-> IF x = o THEN Append(watch[o], v) ELSE watch[x]]
  BY DEF EventsInv, Fwd!Change
<1>3. \A x \in Fwd!Objects :
        world'[x] \in Kind(x) /\ cache'[x] \in Kind(x) /\ watch'[x] \in Seq(Kind(x))
        /\ LeadsFrom(cache'[x], watch'[x], world'[x])
  BY <1>1, <1>2 DEF EventsInv
<1>4. \A p \in Pods : MarkedAlone(cache'[p], watch'[p])
  BY <1>1, <1>2 DEF EventsInv, Fwd!Objects
<1>5. /\ world' = [x \in Fwd!Objects |-> world'[x]]
      /\ cache' = [x \in Fwd!Objects |-> cache'[x]]
      /\ watch' = [x \in Fwd!Objects |-> watch'[x]]
  BY <1>2 DEF EventsInv
<1> QED BY <1>3, <1>4, <1>5 DEF EventsInv, Kind, Fwd!Objects, Fwd!Service, Pod

\* Every change of the cluster is one of these.
LEMMA ClusterEvents ==
  ASSUME EventsInv, Fwd!KindsAssumption, Fwd!Cluster
  PROVE  EventsInv'
<1>1. ASSUME NEW s \in Services, Fwd!ServiceChange(s)
      PROVE  EventsInv'
  <2>1. PICK v \in Fwd!Service \cup {Nil} : Fwd!Change("service", s, v)
    BY <1>1 DEF Fwd!ServiceChange
  <2>2. s \in Fwd!Objects /\ v \in Kind(s) /\ s \notin Pods
    BY DEF Fwd!Objects, Kind, Fwd!KindsAssumption
  <2> QED BY <2>1, <2>2, ChangeEvents
<1>2. ASSUME NEW p \in Pods,
             \/ Fwd!PodStart(p) \/ Fwd!PodPhase(p) \/ Fwd!PodRelabel(p)
             \/ Fwd!PodTerminate(p) \/ Fwd!PodRemove(p)
      PROVE  EventsInv'
  <2>1. p \in Fwd!Objects /\ Kind(p) = Pod \cup {Nil} /\ world[p] \in Kind(p)
    BY DEF Fwd!Objects, Kind, Fwd!KindsAssumption, EventsInv
  <2>2. ASSUME Fwd!PodStart(p) PROVE EventsInv'
    <3>1. PICK n \in Nodes, l \in SUBSET Labels : Fwd!Change("start", p, Fwd!NewPod(n, l))
      BY <2>2 DEF Fwd!PodStart
    <3>2. Fwd!NewPod(n, l) \in Pod /\ ~Fwd!NewPod(n, l).deleting
      BY DEF Fwd!NewPod, Pod
    <3> QED BY <2>1, <3>1, <3>2, ChangeEvents DEF Marks
  <2>3. ASSUME Fwd!PodPhase(p) PROVE EventsInv'
    <3>1. PICK phase \in {"Running", "Failed"} :
            world[p] # Nil /\ Fwd!Change("phase", p, [world[p] EXCEPT !.phase = phase])
      BY <2>3 DEF Fwd!PodPhase
    <3>2. /\ [world[p] EXCEPT !.phase = phase] \in Pod
          /\ Marks(world[p], [world[p] EXCEPT !.phase = phase])
      BY <2>1, <3>1 DEF Pod, Marks
    <3> QED BY <2>1, <3>1, <3>2, ChangeEvents
  <2>4. ASSUME Fwd!PodRelabel(p) PROVE EventsInv'
    <3>1. PICK l \in SUBSET Labels :
            world[p] # Nil /\ Fwd!Change("relabel", p, [world[p] EXCEPT !.labels = l])
      BY <2>4 DEF Fwd!PodRelabel
    <3>2. /\ [world[p] EXCEPT !.labels = l] \in Pod
          /\ Marks(world[p], [world[p] EXCEPT !.labels = l])
      BY <2>1, <3>1 DEF Pod, Marks
    <3> QED BY <2>1, <3>1, <3>2, ChangeEvents
  <2>5. ASSUME Fwd!PodTerminate(p) PROVE EventsInv'
    <3>1. world[p] # Nil /\ Fwd!Change("terminate", p, [world[p] EXCEPT !.deleting = TRUE])
      BY <2>5 DEF Fwd!PodTerminate
    <3>2. /\ [world[p] EXCEPT !.deleting = TRUE] \in Pod
          /\ Marks(world[p], [world[p] EXCEPT !.deleting = TRUE])
      BY <2>1, <3>1 DEF Pod, Marks
    <3> QED BY <2>1, <3>1, <3>2, ChangeEvents
  <2>6. ASSUME Fwd!PodRemove(p) PROVE EventsInv'
    <3>1. Fwd!Change("remove", p, Nil) /\ Marks(world[p], Nil)
      BY <2>6 DEF Fwd!PodRemove, Marks
    <3> QED BY <2>1, <3>1, ChangeEvents
  <2> QED BY <1>2, <2>2, <2>3, <2>4, <2>5, <2>6
<1>3. ASSUME NEW n \in Nodes, Fwd!NodeChange(n)
      PROVE  EventsInv'
  <2>1. PICK a \in Addresses \cup {NoAddress, Nil} : Fwd!Change("node", n, a)
    BY <1>3 DEF Fwd!NodeChange
  <2>2. n \in Fwd!Objects /\ a \in Kind(n) /\ n \notin Pods
    BY DEF Fwd!Objects, Kind, Fwd!KindsAssumption
  <2> QED BY <2>1, <2>2, ChangeEvents
<1> QED BY <1>1, <1>2, <1>3 DEF Fwd!Cluster

\* The cluster does not touch what the worker knows or has written.
LEMMA ClusterForwarding ==
  ASSUME ForwardingInv, Fwd!KindsAssumption, Fwd!Cluster
  PROVE  ForwardingInv'
<1>1. UNCHANGED <<cache, queued, missed, pc, slot, svc, hosts, dest, remote>>
  BY DEF Fwd!Cluster, Fwd!ServiceChange, Fwd!PodStart, Fwd!PodPhase, Fwd!PodRelabel,
         Fwd!PodTerminate, Fwd!PodRemove, Fwd!NodeChange, Fwd!Change, Fwd!workerVars
<1>2. EventsInv'
  BY ClusterEvents DEF ForwardingInv
<1>3. PlacesInv'
  BY <1>1 DEF ForwardingInv, PlacesInv, Fwd!Slots
<1>4. ResolvedInv => ResolvedInv'
  BY <1>1 DEF ResolvedInv, Right
<1> QED BY <1>1, <1>2, <1>3, <1>4 DEF ForwardingInv

\* What the worker reads for a slot is what it would read now, as nothing has
\* queued the resource since it began.
LEMMA WorkerForwarding ==
  ASSUME ForwardingInv, Fwd!ForwardingAssumption, Fwd!Dequeue \/ Fwd!Reconcile
  PROVE  ForwardingInv'
<1>0. 1 \in Fwd!Slots /\ Fwd!Slots = 1 .. Len(Ref) /\ Len(Ref) \in Nat \ {0}
  BY EmptySeq DEF Fwd!ForwardingAssumption, Fwd!Slots
<1>1. UNCHANGED <<world, cache, watch>>
  BY DEF Fwd!Dequeue, Fwd!Reconcile, Fwd!makeForward, Fwd!GetService, Fwd!ListPods,
         Fwd!forwardWhenNodePortType, Fwd!UpdateRemote, Fwd!Return, Fwd!envVars
<1>2. EventsInv'
  BY <1>1 DEF ForwardingInv, EventsInv
<1>3. CASE Fwd!Dequeue
  <2>1. PlacesInv'
    BY <1>0, <1>3 DEF ForwardingInv, PlacesInv, Fwd!Dequeue
  <2>2. ResolvedInv'
    BY <1>3 DEF ResolvedInv, Fwd!Dequeue
  <2> QED BY <1>2, <2>1, <2>2 DEF ForwardingInv
<1>4. ASSUME NEW d, Fwd!Resolved(d), UNCHANGED <<queued, missed, remote>>,
             pc \in {"service", "nodes"}, slot \in Fwd!Slots,
             ~queued /\ ~missed /\ Ref[slot] # Nil =>
               cache[Ref[slot]] # Nil /\ d \in Fwd!Destinations(cache, Ref[slot])
      PROVE  ForwardingInv'
  <2>1. /\ dest' = [i \in Fwd!Slots |-> IF i = slot THEN d ELSE dest[i]]
        /\ \/ slot = Len(Ref) /\ pc' = "put"
           \/ slot # Len(Ref) /\ pc' = "service" /\ slot' = slot + 1
    BY <1>4 DEF ForwardingInv, PlacesInv, Fwd!Resolved
  <2>2. PlacesInv'
    BY <1>0, <1>4, <2>1 DEF PlacesInv
  <2>3. ASSUME ~queued, ~missed
        PROVE  ResolvedInv'
    <3>1. \A i \in 1 .. slot - 1 : Right(dest, i)
      BY <1>4, <2>3 DEF ForwardingInv, ResolvedInv
    <3>2. \A i \in 1 .. slot : i \in Fwd!Slots /\ (i = slot \/ i \in 1 .. slot - 1)
      BY <1>0, <1>4
    <3>3. \A i \in 1 .. slot : Right(dest, i)'
      BY <1>1, <1>4, <2>1, <2>3, <3>1, <3>2 DEF Right
    <3>4. CASE pc' = "put"
      BY <1>0, <2>1, <3>3, <3>4 DEF ResolvedInv
    <3>5. CASE pc' = "service" /\ slot' = slot + 1
      BY <1>0, <1>4, <3>3, <3>5 DEF ResolvedInv
    <3> QED BY <2>1, <3>4, <3>5
  <2> QED BY <1>2, <1>4, <2>2, <2>3 DEF ForwardingInv
<1>5. ASSUME pc' = "fail", PlacesInv'
      PROVE  ForwardingInv'
  BY <1>2, <1>5 DEF ForwardingInv, ResolvedInv
<1>6. CASE Fwd!GetService
  <2>0. slot \in Fwd!Slots /\ pc = "service" /\ UNCHANGED <<queued, missed, remote>>
    BY <1>6 DEF ForwardingInv, PlacesInv, Fwd!GetService
  <2>1. CASE Ref[slot] = Nil /\ Fwd!Resolved({})
    BY <1>4, <2>0, <2>1
  <2>2. CASE pc' = "fail" /\ UNCHANGED dest
    BY <1>5, <2>2 DEF ForwardingInv, PlacesInv
  <2>3. CASE /\ Ref[slot] # Nil /\ cache[Ref[slot]] # Nil
             /\ cache[Ref[slot]].type = "NodePort"
             /\ svc' = cache[Ref[slot]] /\ pc' = "pods" /\ UNCHANGED <<slot, hosts, dest>>
    <3>1. PlacesInv'
      BY <2>0, <2>3 DEF ForwardingInv, PlacesInv
    <3>2. ~queued /\ ~missed => ResolvedInv'
      BY <1>1, <2>0, <2>3 DEF ForwardingInv, ResolvedInv, Right
    <3> QED BY <1>2, <2>0, <3>1, <3>2 DEF ForwardingInv
  <2>4. CASE /\ Ref[slot] # Nil /\ cache[Ref[slot]] # Nil
             /\ cache[Ref[slot]].type # "NodePort" /\ Fwd!Resolved({ClusterIP})
    BY <1>4, <2>0, <2>4 DEF Fwd!Destinations
  <2> QED BY <1>6, <2>1, <2>2, <2>3, <2>4 DEF Fwd!GetService
<1>7. CASE Fwd!ListPods
  <2>1. PlacesInv'
    BY <1>7 DEF ForwardingInv, PlacesInv, Fwd!ListPods
  <2>2. ~queued /\ ~missed => ResolvedInv'
    BY <1>1, <1>7 DEF ForwardingInv, ResolvedInv, Right, Fwd!ListPods
  <2> QED BY <1>2, <1>7, <2>1, <2>2 DEF ForwardingInv, Fwd!ListPods
<1>8. CASE Fwd!forwardWhenNodePortType
  <2>0. /\ slot \in Fwd!Slots /\ pc = "nodes" /\ UNCHANGED <<queued, missed, remote>>
        /\ Ref[slot] # Nil
    BY <1>8 DEF ForwardingInv, PlacesInv, Fwd!forwardWhenNodePortType
  <2>1. CASE pc' = "fail" /\ UNCHANGED dest
    BY <1>5, <2>1 DEF ForwardingInv, PlacesInv
  <2>2. ASSUME NEW d \in Fwd!NodePortDestinations(Fwd!GetPodsHostIPS(cache, hosts)),
               Fwd!Resolved(d)
        PROVE  ForwardingInv'
    <3>1. ~queued /\ ~missed => cache[Ref[slot]] # Nil /\ d \in Fwd!Destinations(cache, Ref[slot])
      BY <2>0, <2>2 DEF ForwardingInv, ResolvedInv, Fwd!Destinations
    <3> QED BY <1>4, <2>0, <2>2, <3>1
  <2> QED BY <1>8, <2>1, <2>2 DEF Fwd!forwardWhenNodePortType
<1>9. CASE Fwd!UpdateRemote
  <2>1. PlacesInv'
    BY <1>9 DEF ForwardingInv, PlacesInv, Fwd!UpdateRemote
  <2>2. ~queued /\ ~missed => ResolvedInv'
    BY <1>1, <1>9 DEF ForwardingInv, ResolvedInv, Right, Fwd!UpdateRemote
  <2> QED BY <1>2, <1>9, <2>1, <2>2 DEF ForwardingInv, Fwd!UpdateRemote
<1>10. CASE Fwd!Return
  <2>1. PlacesInv'
    BY <1>10 DEF PlacesInv, Fwd!Return, Fwd!Reset, Fwd!Slots
  <2>2. ~queued' /\ ~missed' => ResolvedInv'
    BY <1>1, <1>10 DEF ForwardingInv, ResolvedInv, Right, Fwd!Return, Fwd!Reset
  <2> QED BY <1>2, <2>1, <2>2 DEF ForwardingInv
<1> QED BY <1>3, <1>6, <1>7, <1>8, <1>9, <1>10 DEF Fwd!Reconcile, Fwd!makeForward

\* The resource starts on the queue, with caches that have just been listed.
LEMMA ForwardingStarts ==
  ASSUME Fwd!KindsAssumption, Fwd!Init
  PROVE  ForwardingInv
<1>1. PICK services \in [Services -> Fwd!Service], pods \in [Pods -> Fwd!RunningPod \cup {Nil}],
           nodes \in [Nodes -> Addresses] :
             world = [o \in Fwd!Objects |-> IF o \in Services THEN services[o]
                                           ELSE IF o \in Pods THEN pods[o] ELSE nodes[o]]
  BY DEF Fwd!Init
<1>2. Fwd!RunningPod \subseteq Pod
  <2>1. \A n \in Nodes, l \in SUBSET Labels : [Fwd!NewPod(n, l) EXCEPT !.phase = "Running"] \in Pod
    BY DEF Fwd!NewPod, Pod
  <2> QED BY <2>1 DEF Fwd!RunningPod
<1>3. /\ world = [o \in Fwd!Objects |-> world[o]]
      /\ \A s \in Services : world[s] = services[s]
      /\ \A p \in Pods : world[p] = pods[p]
      /\ \A n \in Nodes : world[n] = nodes[n]
  BY <1>1 DEF Fwd!Objects, Fwd!KindsAssumption
<1>4. \A o \in Fwd!Objects : world[o] \in Kind(o)
  BY <1>2, <1>3 DEF Fwd!Objects, Kind, Fwd!KindsAssumption
<1>5. cache = world /\ watch = [o \in Fwd!Objects |-> << >>]
  BY DEF Fwd!Init
<1>6. \A o \in Fwd!Objects : watch[o] \in Seq(Kind(o)) /\ LeadsFrom(cache[o], watch[o], world[o])
  BY <1>5 DEF LeadsFrom
<1>7. \A p \in Pods : MarkedAlone(cache[p], watch[p])
  BY <1>5, EmptySeq DEF MarkedAlone, Fwd!Objects
<1>8. EventsInv
  BY <1>3, <1>4, <1>5, <1>6, <1>7 DEF EventsInv
<1>9. PlacesInv
  BY DEF PlacesInv, Fwd!Init, Fwd!Slots
<1> QED BY <1>8, <1>9 DEF ForwardingInv, Fwd!Init

\* The invariant.
LEMMA NextForwarding ==
  ASSUME ForwardingInv, Fwd!ForwardingAssumption, Fwd!KindsAssumption, PodsAreWatched,
         [Fwd!Next]_(Fwd!vars)
  PROVE  ForwardingInv'
<1>1. ASSUME NEW o \in Fwd!Objects, Fwd!Deliver(o)
      PROVE  ForwardingInv'
  <2>1. EventsInv'
    BY <1>1, DeliverEvents DEF ForwardingInv
  <2>2. PlacesInv'
    BY <1>1, DeliveredParts DEF ForwardingInv, PlacesInv
  <2> QED BY <1>1, <2>1, <2>2, DeliverResolved DEF ForwardingInv
<1>2. CASE UNCHANGED Fwd!vars
  <2>1. UNCHANGED <<world, cache, watch, queued, missed, pc, slot, svc, hosts, dest, remote>>
    BY <1>2 DEF Fwd!vars, Fwd!envVars, Fwd!workerVars
  <2>2. EventsInv'
    BY <2>1 DEF ForwardingInv, EventsInv
  <2>3. PlacesInv'
    BY <2>1 DEF ForwardingInv, PlacesInv
  <2>4. ResolvedInv => ResolvedInv'
    BY <2>1 DEF ResolvedInv, Right
  <2> QED BY <2>1, <2>2, <2>3, <2>4 DEF ForwardingInv
<1> QED BY <1>1, <1>2, WorkerForwarding, ClusterForwarding DEF Fwd!Next

\* When nothing is under way, NPM forwards to where the services are now
\* (makeForward and the watches on services and pods), unless a change went
\* unreported; a service of a custom location or of another namespace alone is
\* not watched for.
THEOREM ForwardsAreCurrent ==
  ASSUME Fwd!ForwardingAssumption, Fwd!KindsAssumption, PodsAreWatched
  PROVE  Fwd!Spec => []Fwd!QuietMeansCurrent
<1>1. Fwd!Init => ForwardingInv
  BY ForwardingStarts
<1>2. ForwardingInv /\ [Fwd!Next]_(Fwd!vars) => ForwardingInv'
  BY NextForwarding
<1>3. ForwardingInv => Fwd!QuietMeansCurrent
  <2> SUFFICES ASSUME ForwardingInv, Fwd!Quiet, ~missed
               PROVE  Fwd!Current
    BY DEF Fwd!QuietMeansCurrent
  <2>1. \A o \in Fwd!Objects : cache[o] = world[o]
    BY DEF Fwd!Quiet, ForwardingInv, EventsInv, LeadsFrom
  <2>2. cache = world
    BY <2>1 DEF ForwardingInv, EventsInv
  <2>3. \A i \in Fwd!Slots : Right(remote, i)
    BY DEF Fwd!Quiet, ForwardingInv, ResolvedInv
  <2> QED BY <2>2, <2>3 DEF Fwd!Current, Right
<1> QED BY <1>1, <1>2, <1>3, PTL DEF Fwd!Spec
==============================================================================
