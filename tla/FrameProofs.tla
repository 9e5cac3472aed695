------------------------------ MODULE FrameProofs ------------------------------
(***************************************************************************)
(* What every reconciler built on ResourceReconciler owes to that frame,   *)
(* for every value of the constants: types, what the worker knows of the   *)
(* stored object, whose the objects in NPM are, and that each action of    *)
(* the frame is a step of RemoteLedger.  A kind of resource is a record K: *)
(*   objects   the versions of a resource                                  *)
(*   owned     those that record an object which finalization deletes      *)
(*   remote    the objects in NPM                                          *)
(*   inputs    the request bodies                                          *)
(*   pcs       the places of Reconcile                                     *)
(*   disowns   a resource may be bound to an object it once owned          *)
(***************************************************************************)
EXTENDS ResourceReconciler, HelperProofs

\* v differs from o in nothing that the ledger or the finalizer depend on.
Agrees(v, o, K) == SameLife(v, o) /\ v.id = o.id /\ (v \in K.owned <=> o \in K.owned)

\* The versions are closed under what the frame and users write.
IsKind(K) ==
  /\ NoObj \notin K.objects /\ NoRemote \notin K.remote
  /\ K.owned \subseteq K.objects
  /\ \A o \in K.owned : o.id \in Ids
  /\ {"idle", "finalizer", "reconciling", "client", "delete", "removeFinalizer", "find", "fail",
      "done", "requeue"} \subseteq K.pcs
  /\ \A o \in K.objects :
       /\ o.fin \in BOOLEAN /\ o.deleting \in BOOLEAN
       /\ \A type \in ConditionTypes :
            SetCondition(o, type) \in K.objects /\ Agrees(SetCondition(o, type), o, K)
       /\ \A s \in Specs :
            LET v == [o EXCEPT !.spec = s] IN v \in K.objects /\ Agrees(v, o, K)
       /\ LET v == WithFinalizer(o)
          IN  /\ v \in K.objects /\ v.fin /\ v.deleting = o.deleting /\ v.id = o.id
              /\ v \in K.owned <=> o \in K.owned
       /\ LET v == [o EXCEPT !.deleting = TRUE]
          IN  /\ v \in K.objects /\ v.fin = o.fin /\ v.deleting /\ v.id = o.id
              /\ v \in K.owned <=> o \in K.owned
\* The status without an id names no object.
LEMMA NilIsNoId == NoId \notin Ids
BY FrameAssumption DEF Ids
-----------------------------------------------------------------------------
(* The inductive invariant                                                  *)

\* The places between the finalizer and the end of a creation or update.
Creating ==
  pc \notin {"idle", "finalizer", "reconciling", "client", "delete", "removeFinalizer",
             "done", "requeue"}

\* What Reconcile knows of the stored object, besides what it reads.
WorkerInv(K) ==
  /\ pc # "idle" => req \in Keys /\ obj \in K.objects
  /\ pc \in {"delete", "removeFinalizer"} => marked
  /\ Creating => ~marked
  /\ pc = "finalizer" => marked = obj.deleting
  /\ pc = "finalizer" /\ ~marked /\ fresh => obj = api[req] /\ Fresh(req)
  /\ pc = "finalizer" /\ ~marked /\ obj.fin => Finalized(api[req])
  /\ (Creating \/ pc \in {"reconciling", "client"}) /\ ~marked => Finalized(api[req])
  /\ pc # "idle" /\ marked /\ Finalized(api[req]) => Deleting(api[req])
  /\ pc # "idle" /\ marked /\ fresh =>
       Agrees(obj, api[req], K) /\ \A x \in Seen(req) : Finalized(x) => Deleting(x)

\* A resource that owns an object in NPM carries the finalizer.
OwnedHasFinalizer(K) == \A k \in Keys : api[k] \in K.owned => api[k].fin

\* Ids not handed out belong to nobody, and whoever owns an object, in any
\* version the worker may read or has read, is the one it was made for.
OwnersInv(K) ==
  /\ \A i \in Ids : i >= nextId => ~Alive(i) /\ maker[i] = NoKey
  /\ \A k \in Keys : \A x \in Seen(k) : x \in K.owned => maker[x.id] = k
  /\ pc # "idle" /\ obj \in K.owned => maker[obj.id] = req

\* Finalization removes what the worker's copy owns before the finalizer goes.
RemovalInv(K) ==
  /\ pc = "delete" => obj \in K.owned
  /\ pc = "removeFinalizer" /\ obj \in K.owned => ~Alive(obj.id) \/ obj.id \in abandoned

Types(K) == FrameTypeOK(K.objects, K.remote, K.inputs, K.pcs)

ClusterInv(K) == CacheFollows /\ FreshExists /\ SeenInv /\ OwnedHasFinalizer(K)

FrameInv(K) == Types(K) /\ ClusterInv(K) /\ WorkerInv(K) /\ OwnersInv(K) /\ RemovalInv(K)
-----------------------------------------------------------------------------
(* The ledger                                                               *)

Present  == {k \in Keys : Live(k)}
Leaving  == {k \in Keys : Live(k) /\ api[k].deleting}
Held(K)  == [k \in Keys |-> IF api[k] \in K.owned THEN api[k].id ELSE NoId]
AliveIds == {i \in Ids : Alive(i)}

Ledgers(K) ==
  INSTANCE RemoteLedger WITH
    Nobody <- NoKey,
    MayDisown <- K.disowns,
    present <- Present,
    leaving <- Leaving,
    held <- Held(K),
    alive <- AliveIds,
    owner <- maker,
    turns <- ops

LedgerStep(K) == Ledgers(K)!Next \/ UNCHANGED Ledgers(K)!ledgerVars

\* What touches neither stored objects nor NPM is not seen by the ledger.
LEMMA LedgerStutters ==
  ASSUME NEW K, UNCHANGED <<api, remote, maker, abandoned, ops>>
  PROVE  LedgerStep(K)
BY DEF LedgerStep, Ledgers!ledgerVars, Present, Leaving, Held, AliveIds, Live, Alive

\* Nor is a write that keeps what the ledger records of a resource.
LEMMA LedgerIgnores ==
  ASSUME NEW K, IsKind(K), NEW k \in Keys, api[k] # NoObj, api'[k] # NoObj,
         \A j \in Keys \ {k} : api'[j] = api[j],
         api'[k].deleting = api[k].deleting, api'[k].id = api[k].id,
         api'[k] \in K.owned <=> api[k] \in K.owned,
         UNCHANGED <<remote, maker, abandoned>>
  PROVE  /\ UNCHANGED <<Present, Leaving, Held(K), AliveIds>>
         /\ UNCHANGED ops => LedgerStep(K)
<1>1. Present' = Present /\ Leaving' = Leaving /\ AliveIds' = AliveIds
  BY DEF Present, Leaving, AliveIds, Live, Alive
<1>2. Held(K)' = Held(K)
  BY DEF Held
<1> QED BY <1>1, <1>2 DEF LedgerStep, Ledgers!ledgerVars
\* A write to one resource changes what the ledger records of that resource.
LEMMA HeldChanges ==
  ASSUME NEW K, NEW k \in Keys, \A j \in Keys \ {k} : api'[j] = api[j]
  PROVE  Held(K)' = [Held(K) EXCEPT ![k] = IF api'[k] \in K.owned THEN api'[k].id ELSE NoId]
<1> DEFINE holds(o) == IF o \in K.owned THEN o.id ELSE NoId
<1>1. Held(K)' = [j \in Keys |-> holds(api'[j])] /\ Held(K) = [j \in Keys |-> holds(api[j])]
  BY DEF Held
<1>2. \A j \in Keys \ {k} : holds(api'[j]) = holds(api[j])
  OBVIOUS
<1> HIDE DEF holds
<1>3. Held(K)' = [Held(K) EXCEPT ![k] = holds(api'[k])]
  BY <1>1, <1>2
<1> QED BY <1>3 DEF holds
-----------------------------------------------------------------------------
(* The cluster                                                              *)

\* A step that leaves the cluster alone leaves every version in its place.
LEMMA QuietCluster ==
  ASSUME NEW K, ClusterInv(K), UNCHANGED <<api, cache, watch>>, fresh' => fresh /\ req' = req
  PROVE  ClusterInv(K)' /\ \A k \in Keys : Seen(k)' = Seen(k)
<1>1. \A k \in Keys : Seen(k)' = Seen(k)
  BY DEF Seen
<1> QED BY <1>1
        DEF ClusterInv, CacheFollows, FreshExists, SeenInv, OwnedHasFinalizer

\* The facts about the cluster that the lemmas on versions need.
LEMMA FrameTypes ==
  ASSUME NEW K, FrameInv(K)
  PROVE  /\ api \in [Keys -> K.objects \cup {NoObj}]
         /\ cache \in [Keys -> K.objects \cup {NoObj}]
         /\ watch \in [Keys -> Seq(K.objects \cup {NoObj})]
         /\ CacheFollows /\ FreshExists /\ SeenInv /\ OwnedHasFinalizer(K)
         /\ fresh \in BOOLEAN /\ faults \in Nat
BY DEF FrameInv, ClusterInv, Types, FrameTypeOK

\* Whoever owns an object, now in the store, is the one it was made for.
LEMMA StoredOwner ==
  ASSUME NEW K, FrameInv(K), NEW k \in Keys, api[k] \in K.owned
  PROVE  maker[api[k].id] = k /\ api[k].fin
<1>1. api[k] \in Seen(k)
  BY FrameTypes, StoredIsSeen
<1> QED BY <1>1 DEF FrameInv, ClusterInv, OwnersInv, OwnedHasFinalizer

\* What holds of every version.
LEMMA ObjectFacts ==
  ASSUME NEW K, IsKind(K), NEW o \in K.objects
  PROVE  o # NoObj /\ o.fin \in BOOLEAN /\ o.deleting \in BOOLEAN
BY DEF IsKind

\* Reading a key that is free: the version comes from the cache, and what it
\* says about the finalizer and the deletion still holds of the stored one.
LEMMA DequeueStep ==
  ASSUME NEW K, IsKind(K), FrameInv(K), NEW k \in Keys, Dequeue(k)
  PROVE  FrameInv(K)' /\ LedgerStep(K)
<1>1. UNCHANGED <<api, cache, watch, faults, rid, input, remoteVars, ops>> /\ pc = "idle"
      /\ queue' \subseteq queue
  BY DEF Dequeue
<1>2. LedgerStep(K)
  BY <1>1, LedgerStutters DEF remoteVars
<1>3. CASE cache[k] = NoObj
  <2>1. UNCHANGED <<req, obj, fresh, marked, pc>>
    BY <1>3 DEF Dequeue
  <2>2. Types(K)'
    BY <1>1, <2>1 DEF FrameInv, Types, FrameTypeOK, remoteVars
  <2>3. ClusterInv(K)' /\ \A j \in Keys : Seen(j)' = Seen(j)
    BY <1>1, <2>1, QuietCluster DEF FrameInv
  <2>4. WorkerInv(K)' /\ RemovalInv(K)'
    BY <1>1, <2>1 DEF WorkerInv, RemovalInv, Creating
  <2>5. OwnersInv(K)'
    BY <1>1, <2>1, <2>3 DEF FrameInv, OwnersInv, remoteVars, Alive
  <2> QED BY <1>2, <2>2, <2>3, <2>4, <2>5 DEF FrameInv
<1>4. CASE cache[k] # NoObj
  <2>1. /\ pc' = "finalizer" /\ req' = k /\ obj' = cache[k] /\ fresh' = Fresh(k)
        /\ marked' = cache[k].deleting
    BY <1>4 DEF Dequeue, GetObject
  <2>2. cache[k] \in K.objects /\ cache[k].deleting \in BOOLEAN /\ Fresh(k) \in BOOLEAN
    <3>1. cache[k] \in K.objects
      BY <1>4, FrameTypes
    <3> QED BY <3>1, ObjectFacts DEF Fresh
  <2>3. Types(K)'
    BY <1>1, <2>1, <2>2 DEF FrameInv, Types, FrameTypeOK, remoteVars, IsKind
  <2>4. cache[k] \in Seen(k) /\ Before(cache[k], api[k])
    BY FrameTypes DEF SeenInv, Seen
  <2>5. Fresh(k) => cache[k] = api[k] /\ Seen(k) = {api[k]}
    BY FrameTypes, FreshSeen
  <2>6. \A j \in Keys : Seen(j)' = Seen(j)
    BY <1>1 DEF Seen
  <2>7. ClusterInv(K)'
    BY <1>1, <1>4, <2>1, <2>5, <2>6
    DEF FrameInv, ClusterInv, CacheFollows, FreshExists, SeenInv, OwnedHasFinalizer
  <2>8. WorkerInv(K)'
    BY <1>1, <1>4, <2>1, <2>2, <2>4, <2>5, <2>6
    DEF WorkerInv, Creating, Before, Finalized, Deleting, Fresh, Agrees, SameLife
  <2>9. OwnersInv(K)' /\ RemovalInv(K)'
    BY <1>1, <2>1, <2>4, <2>6 DEF FrameInv, OwnersInv, RemovalInv, remoteVars, Alive
  <2> QED BY <1>2, <2>3, <2>7, <2>8, <2>9 DEF FrameInv
<1> QED BY <1>3, <1>4

-----------------------------------------------------------------------------
(* Writes to the API server                                                 *)

\* What a status write comes to: nothing, a changed copy of the cached version
\* in the worker's hands, or that copy stored over the version it was made of.
LEMMA StatusWriteCases ==
  ASSUME NEW v, NEW accepted \in BOOLEAN, NEW ok \in BOOLEAN, faults \in Nat, fresh \in BOOLEAN,
         StatusWrite(v, accepted, ok)
  PROVE  /\ faults' \in Nat /\ fresh' \in BOOLEAN
         /\ \/ UNCHANGED <<api, watch, obj, fresh>>
            \/ /\ UNCHANGED <<api, watch>>
               /\ cache[req] # NoObj /\ obj' = v /\ (fresh' => Fresh(req))
            \/ /\ cache[req] # NoObj /\ Fresh(req) /\ Publish(req, v) /\ obj' = v
               /\ accepted
BY FaultKeeps DEF StatusWrite, UpdateStatus, Fresh

\* What the caller of a status write has to see to.
StatusOf(v, o, K) ==
  /\ v \in K.objects
  /\ SameLife(v, o)
  /\ \/ Agrees(v, o, K)
     \/ Creating /\ IF v \in K.owned THEN maker[v.id] = req ELSE K.disowns

\* Status writes: the finalizer, the mark and, unless the worker has an object
\* to record, the object owned stay what they are.
LEMMA StatusStep ==
  ASSUME NEW K, IsKind(K), FrameInv(K), NEW v, NEW accepted \in BOOLEAN, NEW ok \in BOOLEAN,
         StatusWrite(v, accepted, ok),
         UNCHANGED <<cache, queue, req, marked, rid, input, remoteVars, ops>>,
         \/ pc = "reconciling" /\ pc' = "client"
         \/ Creating /\ pc' \in K.pcs /\ (Creating' \/ pc' \in {"done", "requeue"}),
         cache[req] # NoObj => StatusOf(v, cache[req], K)
  PROVE  FrameInv(K)' /\ LedgerStep(K)
<1> DEFINE S == K.objects \cup {NoObj}
<1>0. /\ Types(K) /\ ClusterInv(K) /\ WorkerInv(K) /\ OwnersInv(K) /\ RemovalInv(K)
      /\ req \in Keys /\ obj \in K.objects /\ pc # "idle" /\ pc' # "idle"
      /\ pc' \in K.pcs
  BY DEF FrameInv, WorkerInv, Creating, IsKind
<1>1. /\ api \in [Keys -> S] /\ cache \in [Keys -> S] /\ watch \in [Keys -> Seq(S)]
      /\ CacheFollows /\ FreshExists /\ SeenInv /\ OwnedHasFinalizer(K)
      /\ fresh \in BOOLEAN /\ faults \in Nat
  BY FrameTypes
<1>2. /\ faults' \in Nat /\ fresh' \in BOOLEAN
      /\ \/ UNCHANGED <<api, watch, obj, fresh>>
         \/ /\ UNCHANGED <<api, watch>>
            /\ cache[req] # NoObj /\ obj' = v /\ (fresh' => Fresh(req))
         \/ cache[req] # NoObj /\ Fresh(req) /\ Publish(req, v) /\ obj' = v
  BY <1>1, StatusWriteCases
<1>3. /\ pc' \notin {"finalizer", "delete", "removeFinalizer"}
      /\ Creating' => Creating
      /\ pc \in {"finalizer", "delete", "removeFinalizer"} => FALSE
      /\ pc' \in {"reconciling", "client"} => pc = "reconciling"
  BY DEF Creating
<1>4. cache[req] \in Seen(req)
  BY DEF Seen
<1>5. cache[req] # NoObj /\ v \in K.owned => maker[v.id] = req
  BY <1>0, <1>4 DEF StatusOf, Agrees, OwnersInv
<1> HIDE DEF S
<1>6. CASE UNCHANGED <<api, watch, obj, fresh>>
  <2>1. Types(K)'
    BY <1>0, <1>2, <1>6 DEF Types, FrameTypeOK, remoteVars
  <2>2. ClusterInv(K)' /\ \A k \in Keys : Seen(k)' = Seen(k)
    BY <1>0, <1>6, QuietCluster
  <2>3. WorkerInv(K)'
    BY <1>0, <1>3, <1>6, <2>2 DEF WorkerInv
  <2>4. OwnersInv(K)' /\ RemovalInv(K)'
    BY <1>0, <1>3, <1>6, <2>2 DEF OwnersInv, RemovalInv, remoteVars, Alive
  <2>5. LedgerStep(K)
    BY <1>6, LedgerStutters DEF remoteVars
  <2> QED BY <2>1, <2>2, <2>3, <2>4, <2>5 DEF FrameInv
<1>7. CASE UNCHANGED <<api, watch>> /\ cache[req] # NoObj /\ obj' = v /\ (fresh' => Fresh(req))
  <2>1. v \in K.objects
    BY <1>7 DEF StatusOf
  <2>2. Types(K)'
    BY <1>0, <1>2, <1>7, <2>1 DEF Types, FrameTypeOK, remoteVars
  <2>3. \A k \in Keys : Seen(k)' = Seen(k)
    BY <1>7 DEF Seen
  <2>4. Fresh(req) => cache[req] = api[req] /\ Seen(req) = {api[req]}
    BY <1>0, <1>1, FreshSeen
  <2>5. ClusterInv(K)'
    BY <1>0, <1>7, <2>3, <2>4
    DEF ClusterInv, CacheFollows, FreshExists, SeenInv, OwnedHasFinalizer
  <2>6. marked => Agrees(v, cache[req], K)
    BY <1>0, <1>7 DEF WorkerInv, StatusOf
  <2>7. WorkerInv(K)'
    BY <1>0, <1>3, <1>7, <2>1, <2>3, <2>4, <2>6 DEF WorkerInv
  <2>8. OwnersInv(K)' /\ RemovalInv(K)'
    BY <1>0, <1>3, <1>5, <1>7, <2>3 DEF OwnersInv, RemovalInv, remoteVars, Alive
  <2>9. LedgerStep(K)
    BY <1>7, LedgerStutters DEF remoteVars
  <2> QED BY <2>2, <2>5, <2>7, <2>8, <2>9 DEF FrameInv
<1>8. CASE cache[req] # NoObj /\ Fresh(req) /\ Publish(req, v) /\ obj' = v
  <2>1. cache[req] = api[req] /\ Seen(req) = {api[req]}
    BY <1>0, <1>1, <1>8, FreshSeen
  <2>2. v \in K.objects /\ v \in S /\ SameLife(v, api[req]) /\ StatusOf(v, api[req], K)
    BY <1>8, <2>1 DEF StatusOf, S
  <2>3. /\ api' \in [Keys -> S] /\ watch' \in [Keys -> Seq(S)] /\ api'[req] = v
        /\ \A j \in Keys \ {req} : api'[j] = api[j]
    BY <1>0, <1>1, <1>8, <2>2, PublishKeeps
  <2>4. Seen(req)' \subseteq {api[req], v} /\ \A j \in Keys \ {req} : Seen(j)' = Seen(j)
    BY <1>0, <1>1, <1>8, <2>1, <2>2, PublishAdds
  <2>5. Finalized(v) = Finalized(api[req]) /\ Deleting(v) = Deleting(api[req])
    BY <2>2 DEF SameLife, Finalized, Deleting
  <2>6. Types(K)'
    BY <1>0, <1>2, <1>8, <2>2, <2>3 DEF Types, FrameTypeOK, remoteVars, S
  <2>7. SeenInv'
    BY <1>0, <1>1, <1>8, <2>1, <2>2, <2>5, PublishSeen DEF Before
  <2>8. CacheFollows'
    BY <1>0, <1>1, <1>8, <2>2, PublishFollows
  <2>9. OwnedHasFinalizer(K)'
    <3>1. v \in K.owned => v.fin
      <4>1. CASE Agrees(v, api[req], K)
        BY <1>0, <1>1, <2>2, <4>1 DEF Agrees, SameLife, OwnedHasFinalizer
      <4>2. CASE Creating
        BY <1>0, <2>5, <4>2 DEF WorkerInv, Finalized
      <4> QED BY <2>2, <4>1, <4>2 DEF StatusOf
    <3> QED BY <1>1, <2>3, <3>1 DEF OwnedHasFinalizer
  <2>10. FreshExists'
    BY <1>0, <2>2, <2>3 DEF FreshExists, SameLife
  <2>11. WorkerInv(K)'
    <3>1. Agrees(v, v, K)
      BY <2>2 DEF Agrees, SameLife
    <3> QED BY <1>0, <1>3, <1>8, <2>2, <2>3, <2>4, <2>5, <3>1 DEF WorkerInv
  <2>12. OwnersInv(K)' /\ RemovalInv(K)'
    BY <1>0, <1>3, <1>4, <1>5, <1>8, <2>1, <2>3, <2>4
    DEF OwnersInv, RemovalInv, remoteVars, Alive
  <2>13. LedgerStep(K)
    <3>1. /\ v # NoObj /\ api[req] # NoObj /\ v.deleting = api[req].deleting
          /\ UNCHANGED <<remote, maker, abandoned, ops>>
      BY <2>2 DEF SameLife, remoteVars
    <3>2. CASE Agrees(v, api[req], K)
      BY <1>0, <2>3, <3>1, <3>2, LedgerIgnores DEF Agrees
    <3>3. CASE Creating /\ IF v \in K.owned THEN maker[v.id] = req ELSE K.disowns
      <4>1. Present' = Present /\ Leaving' = Leaving /\ AliveIds' = AliveIds /\ req \in Present
        BY <1>0, <2>3, <3>1 DEF Present, Leaving, AliveIds, Live, Alive
      <4>2. Held(K)' = [Held(K) EXCEPT ![req] = IF v \in K.owned THEN v.id ELSE NoId]
        BY <1>0, <2>3, HeldChanges
      <4>3. v \in K.owned => v.id \in Ids
        BY DEF IsKind
      <4>4. CASE v \in K.owned
        <5>1. Ledgers(K)!Record(req, v.id)
          BY <3>1, <3>3, <4>1, <4>2, <4>4 DEF Ledgers!Record
        <5> QED BY <1>0, <3>1, <4>3, <4>4, <5>1 DEF LedgerStep, Ledgers!Next, Ledgers!Operator
      <4>5. CASE v \notin K.owned
        <5>1. Ledgers(K)!Disown(req)
          BY <3>1, <3>3, <4>1, <4>2, <4>5 DEF Ledgers!Disown
        <5> QED BY <1>0, <3>1, <5>1 DEF LedgerStep, Ledgers!Next, Ledgers!Operator
      <4> QED BY <4>4, <4>5
    <3> QED BY <2>2, <3>2, <3>3 DEF StatusOf
  <2> QED BY <2>6, <2>7, <2>8, <2>9, <2>10, <2>11, <2>12, <2>13 DEF FrameInv, ClusterInv
<1> QED BY <1>2, <1>6, <1>7, <1>8

\* The conditions that the frame itself writes.
LEMMA ConditionSteps ==
  ASSUME NEW K, IsKind(K), FrameInv(K), NEW accepted \in BOOLEAN,
         MarkReconciling(accepted) \/ MarkReady(accepted) \/ MarkError(accepted)
  PROVE  FrameInv(K)' /\ LedgerStep(K)
<1>1. /\ UNCHANGED <<cache, queue, req, marked, rid, input, remoteVars, ops>>
      /\ \/ pc = "reconciling" /\ pc' = "client"
         \/ Creating /\ pc' \in K.pcs /\ pc' \in {"done", "requeue"}
  BY DEF MarkReconciling, MarkReady, MarkError, Creating, IsKind
<1>2. /\ req \in Keys /\ obj \in K.objects /\ cache[req] \in K.objects \cup {NoObj}
  BY <1>1, FrameTypes DEF FrameInv, WorkerInv, Creating
<1>3. CASE pc = "reconciling" /\ pc' = "client" /\ UNCHANGED <<api, watch, obj, fresh, faults>>
  <2>1. Types(K)'
    BY <1>1, <1>3 DEF FrameInv, Types, FrameTypeOK, remoteVars, IsKind
  <2>2. ClusterInv(K)' /\ \A k \in Keys : Seen(k)' = Seen(k)
    BY <1>1, <1>3, QuietCluster DEF FrameInv
  <2>3. WorkerInv(K)'
    BY <1>1, <1>3, <2>2 DEF FrameInv, WorkerInv, Creating
  <2>4. OwnersInv(K)' /\ RemovalInv(K)'
    BY <1>1, <1>3, <2>2 DEF FrameInv, OwnersInv, RemovalInv, remoteVars, Alive
  <2>5. LedgerStep(K)
    BY <1>1, <1>3, LedgerStutters DEF remoteVars
  <2> QED BY <2>1, <2>2, <2>3, <2>4, <2>5 DEF FrameInv
<1>4. CASE \E type \in ConditionTypes, ok \in BOOLEAN :
             StatusWrite(SetCondition(Cached, type), accepted, ok)
  <2>1. PICK type \in ConditionTypes, ok \in BOOLEAN :
          StatusWrite(SetCondition(Cached, type), accepted, ok)
    BY <1>4
  <2>2. ASSUME cache[req] # NoObj
        PROVE  StatusOf(SetCondition(Cached, type), cache[req], K)
    <3>1. cache[req] \in K.objects /\ Cached = cache[req]
      BY <1>2, <2>2 DEF Cached
    <3> QED BY <3>1 DEF IsKind, StatusOf, Agrees
  <2> QED BY <1>1, <2>1, <2>2, StatusStep
<1>5. {"Reconciling", "Ready", "Error"} = ConditionTypes
  BY DEF ConditionTypes
<1> QED BY <1>3, <1>4, <1>5 DEF MarkReconciling, MarkReady, MarkError

\* AddFinalizer: it stores the finalizer on the version it read, which nobody
\* has marked for deletion.
LEMMA EnsureFinalizerStep ==
  ASSUME NEW K, IsKind(K), FrameInv(K), NEW e, EnsureFinalizer(e),
         api[req] \in K.objects => e \in K.objects /\ Agrees(e, api[req], K)
  PROVE  FrameInv(K)' /\ LedgerStep(K)
<1> DEFINE S == K.objects \cup {NoObj}
           v == WithFinalizer(e)
<1>0. /\ Types(K) /\ ClusterInv(K) /\ WorkerInv(K) /\ OwnersInv(K) /\ RemovalInv(K)
      /\ api \in [Keys -> S] /\ cache \in [Keys -> S] /\ watch \in [Keys -> Seq(S)]
      /\ CacheFollows /\ FreshExists /\ SeenInv /\ OwnedHasFinalizer(K)
      /\ fresh \in BOOLEAN /\ faults \in Nat
  BY FrameTypes DEF FrameInv
<1>1. /\ UNCHANGED <<cache, queue, req, marked, rid, input, remoteVars, ops>>
      /\ pc = "finalizer" /\ pc' \in {"reconciling", "requeue"} /\ pc' \in K.pcs
      /\ req \in Keys /\ obj \in K.objects
  BY <1>0 DEF EnsureFinalizer, WorkerInv, IsKind
<1>2. CASE /\ UNCHANGED <<api, watch, obj>> /\ (fresh' => fresh)
           /\ fresh' \in BOOLEAN /\ faults' \in Nat
           /\ marked \/ obj.fin \/ pc' = "requeue"
  <2>1. Types(K)'
    BY <1>0, <1>1, <1>2 DEF Types, FrameTypeOK, remoteVars
  <2>2. ClusterInv(K)' /\ \A k \in Keys : Seen(k)' = Seen(k)
    BY <1>0, <1>1, <1>2, QuietCluster
  <2>3. WorkerInv(K)'
    BY <1>0, <1>1, <1>2, <2>2 DEF WorkerInv, Creating
  <2>4. OwnersInv(K)' /\ RemovalInv(K)'
    BY <1>0, <1>1, <1>2, <2>2 DEF OwnersInv, RemovalInv, remoteVars, Alive
  <2>5. LedgerStep(K)
    BY <1>1, <1>2, LedgerStutters DEF remoteVars
  <2> QED BY <2>1, <2>2, <2>3, <2>4, <2>5 DEF FrameInv
<1>3. CASE /\ ~marked /\ ~obj.fin /\ fresh /\ Publish(req, v) /\ obj' \in {obj, v}
           /\ (fresh' => obj' = v) /\ fresh' \in BOOLEAN /\ faults' \in Nat
  <2>1. obj = api[req] /\ Fresh(req) /\ ~Finalized(api[req]) /\ ~Deleting(api[req])
    BY <1>0, <1>1, <1>3 DEF WorkerInv, Finalized, Deleting
  <2>2. /\ v \in K.objects /\ v.fin /\ v.deleting = api[req].deleting /\ v.id = api[req].id
        /\ v \in K.owned <=> api[req] \in K.owned
    <3>1. e \in K.objects /\ Agrees(e, api[req], K)
      BY <1>1, <2>1
    <3> QED BY <3>1 DEF IsKind, Agrees, SameLife
  <2>3. v # NoObj /\ api[req] # NoObj
    BY <1>1, <2>1, <2>2, ObjectFacts
  <2> HIDE DEF S, v
  <2>4. v \in S
    BY <2>2 DEF S
  <2>5. /\ api' \in [Keys -> S] /\ watch' \in [Keys -> Seq(S)] /\ api'[req] = v
        /\ \A j \in Keys \ {req} : api'[j] = api[j]
    BY <1>0, <1>1, <1>3, <2>4, PublishKeeps
  <2>6. cache[req] = api[req] /\ Seen(req) = {api[req]}
    BY <1>0, <1>1, <2>1, FreshSeen
  <2>7. Seen(req)' \subseteq {api[req], v} /\ \A j \in Keys \ {req} : Seen(j)' = Seen(j)
    BY <1>0, <1>1, <1>3, <2>4, <2>6, PublishAdds
  <2>8. Types(K)'
    BY <1>0, <1>1, <1>3, <2>2, <2>5 DEF Types, FrameTypeOK, remoteVars, S
  <2>9. SeenInv'
    <3>1. \A x \in Seen(req) : Before(x, v)
      BY <2>1, <2>6 DEF Before
    <3> QED BY <1>0, <1>1, <1>3, <2>4, <3>1, PublishSeen
  <2>10. CacheFollows'
    BY <1>0, <1>1, <1>3, <2>4, PublishFollows
  <2>11. OwnedHasFinalizer(K)' /\ FreshExists'
    BY <1>0, <1>1, <2>2, <2>3, <2>5 DEF OwnedHasFinalizer, FreshExists
  <2>12. WorkerInv(K)'
    BY <1>0, <1>1, <1>3, <2>2, <2>3, <2>5 DEF WorkerInv, Creating, Finalized
  <2>13. OwnersInv(K)' /\ RemovalInv(K)'
    <3>1. v \in K.owned => maker[v.id] = req
      BY <1>0, <1>1, <2>2, <2>6 DEF OwnersInv
    <3> QED BY <1>0, <1>1, <1>3, <2>6, <2>7, <3>1 DEF OwnersInv, RemovalInv, remoteVars, Alive
  <2>14. LedgerStep(K)
    BY <1>1, <2>2, <2>3, <2>5, LedgerIgnores DEF remoteVars
  <2> QED BY <2>8, <2>9, <2>10, <2>11, <2>12, <2>13, <2>14 DEF FrameInv, ClusterInv
<1>4. ASSUME NEW ok \in BOOLEAN, ~marked, ~obj.fin, UpdateObject(v, ok),
             pc' = IF ok THEN "reconciling" ELSE "requeue"
      PROVE  \/ /\ UNCHANGED <<api, watch, obj>> /\ (fresh' => fresh)
                /\ fresh' \in BOOLEAN /\ faults' \in Nat /\ pc' = "requeue"
             \/ /\ fresh /\ Publish(req, v) /\ obj' \in {obj, v}
                /\ (fresh' => obj' = v) /\ fresh' \in BOOLEAN /\ faults' \in Nat
  <2>1. fresh => v # NoObj
    <3>1. fresh => e \in K.objects
      BY <1>0, <1>1, <1>4 DEF WorkerInv
    <3> QED BY <3>1, ObjectFacts DEF IsKind
  <2> HIDE DEF v
  <2> QED BY <1>0, <1>4, <2>1, FaultKeeps DEF UpdateObject
<1>5. marked \in BOOLEAN /\ obj.fin \in BOOLEAN
  BY <1>0, <1>1, ObjectFacts DEF Types, FrameTypeOK
<1> HIDE DEF v, S
<1>6. CASE marked \/ obj.fin
  <2>1. /\ UNCHANGED <<api, watch, obj, fresh, faults>>
    BY <1>6 DEF EnsureFinalizer, AddFinalizer, v
  <2> QED BY <1>0, <1>2, <1>6, <2>1
<1>7. CASE ~marked /\ ~obj.fin
  <2>1. PICK ok \in BOOLEAN : UpdateObject(v, ok) /\ pc' = IF ok THEN "reconciling" ELSE "requeue"
    BY <1>7 DEF EnsureFinalizer, AddFinalizer, v
  <2> QED BY <1>2, <1>3, <1>4, <1>7, <2>1
<1> QED BY <1>5, <1>6, <1>7

\* An object that the worker's copy owns may be removed from NPM: whatever the
\* cache lags behind, the resource that owns it is being deleted.
LEMMA Removable ==
  ASSUME NEW K, IsKind(K), FrameInv(K), pc # "idle", marked, obj \in K.owned
  PROVE  obj.id \in Ids /\ Ledgers(K)!Removable(obj.id)
<1>1. maker[obj.id] = req /\ req \in Keys /\ obj.id \in Ids
  BY DEF FrameInv, OwnersInv, WorkerInv, IsKind
<1>2. ASSUME Held(K)[req] = obj.id
      PROVE  req \in Leaving
  <2>1. obj.id # NoId
    BY <1>1, FrameAssumption DEF Ids
  <2>2. api[req] \in K.owned
    BY <1>1, <1>2, <2>1 DEF Held
  <2>3. api[req] # NoObj /\ Finalized(api[req])
    BY <1>1, <2>2, StoredOwner DEF Finalized, IsKind
  <2>4. Deleting(api[req])
    BY <2>3 DEF FrameInv, WorkerInv
  <2> QED BY <1>1, <2>4 DEF Leaving, Live, Deleting
<1> QED BY <1>1, <1>2 DEF Ledgers!Removable

\* Without a client a marked resource skips the removal: what it owns is
\* abandoned.  owned is the kind's own test of the worker's copy.
LEMMA InitNginxPMClientStep ==
  ASSUME NEW K, IsKind(K), FrameInv(K), NEW owned, InitNginxPMClient(owned),
         obj \in K.objects => (owned <=> obj \in K.owned)
  PROVE  FrameInv(K)' /\ LedgerStep(K)
<1>0. /\ Types(K) /\ ClusterInv(K) /\ WorkerInv(K) /\ OwnersInv(K) /\ RemovalInv(K)
      /\ faults \in Nat
  BY FrameTypes DEF FrameInv
<1>1. /\ UNCHANGED <<api, cache, watch, queue, req, obj, fresh, marked, rid, input, remote,
                     nextId, maker, ops>>
      /\ pc = "client" /\ req \in Keys /\ obj \in K.objects
      /\ owned <=> obj \in K.owned
  BY <1>0 DEF InitNginxPMClient, WorkerInv, kubeVars
<1>2. /\ faults' \in Nat
      /\ \/ ~marked /\ pc' \in {"find", "fail"} /\ UNCHANGED abandoned
         \/ marked /\ pc' = "done" /\ UNCHANGED abandoned
         \/ marked /\ pc' = "delete" /\ owned /\ UNCHANGED abandoned
         \/ marked /\ pc' = "removeFinalizer" /\ ~owned /\ UNCHANGED abandoned
         \/ marked /\ pc' = "removeFinalizer" /\ owned /\ abandoned' = abandoned \cup {obj.id}
  BY <1>0, <1>1, FaultKeeps DEF InitNginxPMClient
<1>3. obj \in K.owned => obj.id \in Ids
  BY DEF IsKind
<1>4. Types(K)'
  BY <1>0, <1>1, <1>2, <1>3 DEF Types, FrameTypeOK, IsKind
<1>5. ClusterInv(K)' /\ \A k \in Keys : Seen(k)' = Seen(k)
  BY <1>0, <1>1, QuietCluster
<1>6. WorkerInv(K)'
  BY <1>0, <1>1, <1>2, <1>5 DEF WorkerInv, Creating
<1>7. OwnersInv(K)'
  BY <1>0, <1>1, <1>2, <1>5 DEF OwnersInv, Alive
<1>8. RemovalInv(K)'
  BY <1>0, <1>1, <1>2 DEF RemovalInv
<1>9. LedgerStep(K)
  <2>1. CASE UNCHANGED abandoned
    BY <1>1, <2>1, LedgerStutters
  <2>2. CASE marked /\ owned /\ abandoned' = abandoned \cup {obj.id}
    <3>1. obj.id \in Ids /\ Ledgers(K)!Removable(obj.id)
      BY <1>1, <2>2, Removable
    <3>2. UNCHANGED <<Present, Leaving, Held(K), AliveIds>>
      BY <1>1 DEF Present, Leaving, Held, AliveIds, Live, Alive
    <3>3. Ledgers(K)!Abandon(obj.id)
      BY <1>1, <2>2, <3>1, <3>2 DEF Ledgers!Abandon
    <3> QED BY <1>1, <3>1, <3>3 DEF LedgerStep, Ledgers!Next, Ledgers!Operator
  <2> QED BY <1>2, <2>1, <2>2
<1> QED BY <1>4, <1>5, <1>6, <1>7, <1>8, <1>9 DEF FrameInv

\* The removal, or a failed one that is only logged.
LEMMA DeleteRemoteStep ==
  ASSUME NEW K, IsKind(K), FrameInv(K), DeleteRemote
  PROVE  FrameInv(K)' /\ LedgerStep(K)
<1>0. /\ Types(K) /\ ClusterInv(K) /\ WorkerInv(K) /\ OwnersInv(K) /\ RemovalInv(K)
      /\ faults \in Nat
  BY FrameTypes DEF FrameInv
<1>1. /\ UNCHANGED <<api, cache, watch, queue, req, obj, fresh, marked, rid, input,
                     nextId, maker, ops>>
      /\ pc = "delete" /\ pc' = "removeFinalizer" /\ marked /\ obj \in K.owned
  BY <1>0 DEF DeleteRemote, WorkerInv, RemovalInv, kubeVars
<1>2. obj.id \in Ids /\ Ledgers(K)!Removable(obj.id)
  BY <1>1, Removable
<1>3. /\ faults' \in Nat /\ remote \in [Ids -> K.remote \cup {NoRemote}] /\ abandoned \subseteq Ids
      /\ \/ remote' = [remote EXCEPT ![obj.id] = NoRemote] /\ UNCHANGED abandoned
         \/ remote' = remote /\ abandoned' = abandoned \cup {obj.id}
  BY <1>0, FaultKeeps DEF DeleteRemote, Types, FrameTypeOK
<1>4. Types(K)'
  BY <1>0, <1>1, <1>2, <1>3 DEF Types, FrameTypeOK, IsKind
<1>5. ClusterInv(K)' /\ \A k \in Keys : Seen(k)' = Seen(k)
  BY <1>0, <1>1, QuietCluster
<1>6. WorkerInv(K)'
  BY <1>0, <1>1, <1>5 DEF WorkerInv, Creating
<1>7. \A i \in Ids : ~Alive(i) => ~Alive(i)'
  BY <1>2, <1>3 DEF Alive
<1>8. OwnersInv(K)'
  BY <1>0, <1>1, <1>5, <1>7 DEF OwnersInv
<1>9. RemovalInv(K)'
  BY <1>1, <1>2, <1>3 DEF RemovalInv, Alive
<1>10. LedgerStep(K)
  <2>1. UNCHANGED <<Present, Leaving, Held(K)>>
    BY <1>1 DEF Present, Leaving, Held, Live
  <2>2. CASE remote' = [remote EXCEPT ![obj.id] = NoRemote] /\ UNCHANGED abandoned
    <3>1. AliveIds' = AliveIds \ {obj.id}
      BY <1>2, <1>3, <2>2 DEF AliveIds, Alive
    <3>2. Ledgers(K)!Remove(obj.id)
      BY <1>1, <1>2, <2>1, <2>2, <3>1 DEF Ledgers!Remove
    <3> QED BY <1>1, <1>2, <3>2 DEF LedgerStep, Ledgers!Next, Ledgers!Operator
  <2>3. CASE remote' = remote /\ abandoned' = abandoned \cup {obj.id}
    <3>1. AliveIds' = AliveIds
      BY <2>3 DEF AliveIds, Alive
    <3>2. Ledgers(K)!Abandon(obj.id)
      BY <1>1, <1>2, <2>1, <2>3, <3>1 DEF Ledgers!Abandon
    <3> QED BY <1>1, <1>2, <3>2 DEF LedgerStep, Ledgers!Next, Ledgers!Operator
  <2> QED BY <1>3, <2>2, <2>3
<1> QED BY <1>4, <1>5, <1>6, <1>8, <1>9, <1>10 DEF FrameInv

\* RemoveFinalizer: what is stored is still what the worker read and finalized,
\* so the object is being deleted and goes, after what it owned.
LEMMA DropFinalizerStep ==
  ASSUME NEW K, IsKind(K), FrameInv(K), NEW e, DropFinalizer(e),
         api[req] \in K.objects => e \in K.objects /\ Agrees(e, api[req], K)
  PROVE  FrameInv(K)' /\ LedgerStep(K)
<1> DEFINE S == K.objects \cup {NoObj}
<1>0. /\ Types(K) /\ ClusterInv(K) /\ WorkerInv(K) /\ OwnersInv(K) /\ RemovalInv(K)
      /\ api \in [Keys -> S] /\ cache \in [Keys -> S] /\ watch \in [Keys -> Seq(S)]
      /\ CacheFollows /\ FreshExists /\ SeenInv /\ OwnedHasFinalizer(K)
      /\ fresh \in BOOLEAN /\ faults \in Nat
  BY FrameTypes DEF FrameInv
<1>1. /\ UNCHANGED <<cache, queue, req, marked, rid, input, remote, nextId, maker, abandoned, ops>>
      /\ pc = "removeFinalizer" /\ pc' \in {"done", "requeue"} /\ pc' \in K.pcs
      /\ req \in Keys /\ obj \in K.objects /\ marked
  BY <1>0 DEF DropFinalizer, WorkerInv, IsKind, remoteVars
<1>2. CASE /\ UNCHANGED <<api, watch, obj>> /\ (fresh' => fresh)
           /\ fresh' \in BOOLEAN /\ faults' \in Nat
  <2>1. Types(K)'
    BY <1>0, <1>1, <1>2 DEF Types, FrameTypeOK
  <2>2. ClusterInv(K)' /\ \A k \in Keys : Seen(k)' = Seen(k)
    BY <1>0, <1>1, <1>2, QuietCluster
  <2>3. WorkerInv(K)'
    BY <1>0, <1>1, <1>2, <2>2 DEF WorkerInv, Creating
  <2>4. OwnersInv(K)' /\ RemovalInv(K)'
    BY <1>0, <1>1, <1>2, <2>2 DEF OwnersInv, RemovalInv, Alive
  <2>5. LedgerStep(K)
    BY <1>1, <1>2, LedgerStutters
  <2> QED BY <2>1, <2>2, <2>3, <2>4, <2>5 DEF FrameInv
<1>3. ASSUME obj.fin, fresh
      PROVE  /\ WithoutFinalizer(e) = NoObj
             /\ api[req] \in K.objects /\ Deleting(api[req]) /\ Agrees(obj, api[req], K)
             /\ \A x \in Seen(req) : Finalized(x) => Deleting(x)
  <2>1. /\ Agrees(obj, api[req], K)
        /\ \A x \in Seen(req) : Finalized(x) => Deleting(x)
    BY <1>0, <1>1, <1>3 DEF WorkerInv
  <2>2. api[req] \in K.objects /\ Finalized(api[req])
    BY <1>0, <1>1, <1>3, <2>1 DEF Agrees, SameLife, Finalized
  <2>3. Deleting(api[req])
    BY <1>0, <1>1, <2>2 DEF WorkerInv
  <2>4. e.deleting
    BY <2>2, <2>3 DEF Agrees, SameLife, Deleting
  <2> QED BY <2>1, <2>2, <2>3, <2>4 DEF WithoutFinalizer
<1> HIDE DEF S
<1>4. CASE /\ obj.fin /\ fresh /\ Publish(req, NoObj) /\ UNCHANGED obj
           /\ fresh' = FALSE /\ faults' \in Nat
  <2>1. /\ api[req] \in K.objects /\ Deleting(api[req]) /\ Agrees(obj, api[req], K)
        /\ \A x \in Seen(req) : Finalized(x) => Deleting(x)
    BY <1>3, <1>4
  <2>2. NoObj \in S
    BY DEF S
  <2>3. /\ api' \in [Keys -> S] /\ watch' \in [Keys -> Seq(S)] /\ api'[req] = NoObj
        /\ \A j \in Keys \ {req} : api'[j] = api[j]
    BY <1>0, <1>1, <1>4, <2>2, PublishKeeps
  <2>4. Seen(req)' \subseteq Seen(req) \cup {NoObj} /\ \A j \in Keys \ {req} : Seen(j)' = Seen(j)
    BY <1>0, <1>1, <1>4, <2>2, PublishAdds
  <2>5. Types(K)'
    BY <1>0, <1>1, <1>4, <2>3 DEF Types, FrameTypeOK, S
  <2>6. SeenInv'
    <3>1. \A x \in Seen(req) : Before(x, NoObj)
      BY <2>1 DEF Before, Finalized
    <3> QED BY <1>0, <1>1, <1>4, <2>2, <3>1, PublishSeen
  <2>7. CacheFollows'
    BY <1>0, <1>1, <1>4, <2>2, PublishFollows
  <2>8. OwnedHasFinalizer(K)' /\ FreshExists'
    BY <1>0, <1>1, <1>4, <2>3 DEF OwnedHasFinalizer, FreshExists, IsKind
  <2>9. WorkerInv(K)'
    BY <1>0, <1>1, <1>4, <2>3 DEF WorkerInv, Creating, Finalized
  <2>10. OwnersInv(K)' /\ RemovalInv(K)'
    <3>1. NoObj \notin K.owned
      BY DEF IsKind
    <3> QED BY <1>0, <1>1, <1>4, <2>4, <3>1 DEF OwnersInv, RemovalInv, Alive
  <2>11. LedgerStep(K)
    <3>1. Present' = Present \ {req} /\ Leaving' = Leaving \ {req} /\ AliveIds' = AliveIds
      BY <1>1, <2>3 DEF Present, Leaving, AliveIds, Live, Alive
    <3>2. Held(K)' = [Held(K) EXCEPT ![req] = NoId]
      <4>1. NoObj \notin K.owned
        BY DEF IsKind
      <4> QED BY <1>1, <2>3, <4>1, HeldChanges
    <3>3. req \in Leaving
      BY <1>1, <2>1 DEF Leaving, Live, Deleting
    <3>4. Held(K)[req] \notin AliveIds \ abandoned
      <4>1. CASE api[req] \in K.owned
        BY <1>0, <1>1, <2>1, <4>1 DEF Held, AliveIds, Agrees, RemovalInv
      <4>2. CASE api[req] \notin K.owned
        BY <1>1, <4>2, FrameAssumption DEF Held, AliveIds, Ids
      <4> QED BY <4>1, <4>2
    <3>5. Ledgers(K)!Leave(req)
      BY <1>1, <3>1, <3>2, <3>3, <3>4 DEF Ledgers!Leave
    <3> QED BY <1>1, <3>5 DEF LedgerStep, Ledgers!Next, Ledgers!Operator
  <2> QED BY <2>5, <2>6, <2>7, <2>8, <2>9, <2>10, <2>11 DEF FrameInv, ClusterInv
<1>5. ASSUME NEW ok \in BOOLEAN, RemoveFinalizer(e, ok)
      PROVE  \/ /\ UNCHANGED <<api, watch, obj>> /\ (fresh' => fresh)
                /\ fresh' \in BOOLEAN /\ faults' \in Nat
             \/ /\ obj.fin /\ fresh /\ Publish(req, NoObj) /\ UNCHANGED obj
                /\ fresh' = FALSE /\ faults' \in Nat
  <2>1. CASE obj.fin
    <3>1. UpdateObject(WithoutFinalizer(e), ok)
      BY <1>5, <2>1 DEF RemoveFinalizer
    <3> QED BY <1>0, <1>3, <2>1, <3>1, FaultKeeps DEF UpdateObject
  <2>2. CASE ~obj.fin
    BY <1>0, <1>5, <2>2 DEF RemoveFinalizer
  <2> QED BY <2>1, <2>2
<1> QED BY <1>2, <1>4, <1>5 DEF DropFinalizer

\* Reconcile ends: the worker forgets what it knew.
LEMMA ReturnStep ==
  ASSUME NEW K, IsKind(K), FrameInv(K), Return
  PROVE  FrameInv(K)' /\ LedgerStep(K)
<1>1. /\ UNCHANGED <<api, cache, watch, faults, remote, nextId, maker, abandoned, ops>>
      /\ pc' = "idle" /\ req' = NoKey /\ obj' = NoObj /\ fresh' = FALSE /\ marked' = FALSE
      /\ rid' = NoId /\ input' = NoInput /\ queue' \subseteq Keys
  <2>1. pc # "idle" /\ req \in Keys /\ queue \subseteq Keys
    BY DEF Return, FrameInv, WorkerInv, Types, FrameTypeOK
  <2> QED BY <2>1 DEF Return, Reset, remoteVars
<1>2. Types(K)'
  BY <1>1 DEF FrameInv, Types, FrameTypeOK, IsKind
<1>3. ClusterInv(K)' /\ \A k \in Keys : Seen(k)' = Seen(k)
  BY <1>1, QuietCluster DEF FrameInv
<1>4. WorkerInv(K)' /\ RemovalInv(K)'
  BY <1>1 DEF WorkerInv, RemovalInv, Creating
<1>5. OwnersInv(K)'
  BY <1>1, <1>3 DEF FrameInv, OwnersInv, Alive
<1> QED BY <1>1, <1>2, <1>3, <1>4, <1>5, LedgerStutters DEF FrameInv

-----------------------------------------------------------------------------
(* The environment                                                          *)

\* A user's write: it leaves the finalizer to the operator, and a new object
\* has neither a finalizer nor a mark.
LEMMA UserWriteStep ==
  ASSUME NEW K, IsKind(K), FrameInv(K), NEW k \in Keys, NEW v \in K.objects \cup {NoObj},
         UserWrite(k, v), ops' \in Nat,
         v \in K.owned => api[k] \in K.owned /\ v.id = api[k].id,
         Finalized(v) <=> Finalized(api[k]),
         Finalized(v) /\ Deleting(api[k]) => Deleting(v)
  PROVE  /\ FrameInv(K)'
         /\ api'[k] = v /\ \A j \in Keys \ {k} : api'[j] = api[j]
         /\ UNCHANGED <<remote, maker, abandoned>>
<1> DEFINE S == K.objects \cup {NoObj}
<1>0. /\ Types(K) /\ ClusterInv(K) /\ WorkerInv(K) /\ OwnersInv(K) /\ RemovalInv(K)
      /\ api \in [Keys -> S] /\ cache \in [Keys -> S] /\ watch \in [Keys -> Seq(S)]
      /\ CacheFollows /\ FreshExists /\ SeenInv /\ OwnedHasFinalizer(K)
      /\ fresh \in BOOLEAN
  BY FrameTypes DEF FrameInv
<1>1. /\ Publish(k, v) /\ fresh' = (fresh /\ req # k)
      /\ UNCHANGED <<cache, queue, req, obj, faults, pc, marked, rid, input, remote, nextId,
                     maker, abandoned>>
  BY DEF UserWrite, localVars, remoteVars
<1> HIDE DEF S
<1>2. v \in S
  BY DEF S
<1>3. /\ api' \in [Keys -> S] /\ watch' \in [Keys -> Seq(S)] /\ api'[k] = v
      /\ \A j \in Keys \ {k} : api'[j] = api[j] /\ watch'[j] = watch[j]
  BY <1>0, <1>1, <1>2, PublishKeeps
<1>4. Seen(k)' \subseteq Seen(k) \cup {v} /\ \A j \in Keys \ {k} : Seen(j)' = Seen(j)
  BY <1>0, <1>1, <1>2, PublishAdds
<1>5. Types(K)'
  BY <1>0, <1>1, <1>3 DEF Types, FrameTypeOK, S
<1>6. SeenInv'
  <2>1. \A x \in Seen(k) : Before(x, v)
    BY <1>0 DEF SeenInv, Before
  <2> QED BY <1>0, <1>1, <1>2, <2>1, PublishSeen
<1>7. CacheFollows'
  BY <1>0, <1>1, <1>2, PublishFollows
<1>8. v \in K.owned => v.fin /\ maker[v.id] = k
  <2>1. v \in K.owned => Finalized(api[k]) /\ maker[api[k].id] = k
    BY <1>0, StoredOwner DEF Finalized, IsKind
  <2> QED BY <2>1 DEF Finalized
<1>9. OwnedHasFinalizer(K)' /\ FreshExists'
  BY <1>0, <1>1, <1>3, <1>8 DEF OwnedHasFinalizer, FreshExists
<1>10. WorkerInv(K)'
  <2>1. pc # "idle" => req \in Keys
    BY <1>0 DEF WorkerInv
  <2>2. /\ pc # "idle" => (Finalized(api[req]) <=> Finalized(api'[req]))
        /\ pc # "idle" /\ Finalized(api'[req]) /\ Deleting(api[req]) => Deleting(api'[req])
    BY <1>3, <2>1
  <2>3. pc # "idle" /\ fresh' =>
          fresh /\ api'[req] = api[req] /\ watch'[req] = watch[req] /\ Seen(req)' = Seen(req)
    BY <1>1, <1>3, <1>4, <2>1
  <2> QED BY <1>0, <1>1, <2>2, <2>3 DEF WorkerInv, Creating, Fresh
<1>11. OwnersInv(K)' /\ RemovalInv(K)'
  BY <1>0, <1>1, <1>4, <1>8 DEF OwnersInv, RemovalInv, Alive
<1> QED BY <1>1, <1>3, <1>5, <1>6, <1>7, <1>9, <1>10, <1>11 DEF FrameInv, ClusterInv

\* The acts of users and administrators are counted by the ledger.
LEMMA OpCounts ==
  ASSUME NEW K, Types(K), NEW kind, Op(kind)
  PROVE  ops' = ops + 1 /\ ops' \in Nat
BY DEF Types, FrameTypeOK, Op

\* A resource appears.
LEMMA UserCreateStep ==
  ASSUME NEW K, IsKind(K), FrameInv(K), NEW k \in Keys,
         NEW v \in K.objects, v \notin K.owned, ~v.fin, ~v.deleting, UserCreate(k, v)
  PROVE  FrameInv(K)' /\ LedgerStep(K)
<1>1. UserWrite(k, v) /\ api[k] = NoObj /\ ops' = ops + 1 /\ ops' \in Nat
  BY OpCounts DEF UserCreate, Live, FrameInv
<1>2. ~Finalized(v) /\ ~Finalized(api[k]) /\ v # NoObj
  BY <1>1, ObjectFacts DEF Finalized
<1>3. /\ FrameInv(K)'
      /\ api'[k] = v /\ \A j \in Keys \ {k} : api'[j] = api[j]
      /\ UNCHANGED <<remote, maker, abandoned>>
  BY <1>1, <1>2, UserWriteStep
<1>4. Present' = Present \cup {k} /\ k \notin Present /\ Leaving' = Leaving /\ AliveIds' = AliveIds
  BY <1>1, <1>2, <1>3 DEF Present, Leaving, AliveIds, Live, Alive
<1>5. Held(K)' = Held(K)
  <2>1. NoObj \notin K.owned
    BY DEF IsKind
  <2>2. \A j \in Keys : (IF api'[j] \in K.owned THEN api'[j].id ELSE NoId)
                        = (IF api[j] \in K.owned THEN api[j].id ELSE NoId)
    BY <1>1, <1>3, <2>1
  <2> QED BY <2>2 DEF Held
<1>6. Ledgers(K)!Appear(k)
  BY <1>3, <1>4, <1>5 DEF Ledgers!Appear
<1> QED BY <1>1, <1>3, <1>6 DEF LedgerStep, Ledgers!Next, Ledgers!Others

\* A user edits the spec: the ledger only counts the act.
LEMMA UserEditStep ==
  ASSUME NEW K, IsKind(K), FrameInv(K), NEW k \in Keys, NEW s \in Specs, UserEdit(k, s)
  PROVE  FrameInv(K)' /\ LedgerStep(K)
<1> DEFINE v == [api[k] EXCEPT !.spec = s]
<1>1. UserWrite(k, v) /\ api[k] # NoObj /\ ops' = ops + 1 /\ ops' \in Nat
  BY OpCounts DEF UserEdit, Live, FrameInv
<1>2. api[k] \in K.objects
  BY <1>1, FrameTypes
<1>3. v \in K.objects /\ Agrees(v, api[k], K)
  BY <1>2 DEF IsKind
<1> HIDE DEF v
<1>4. Finalized(v) = Finalized(api[k]) /\ Deleting(v) = Deleting(api[k])
  BY <1>3 DEF Agrees, SameLife, Finalized, Deleting
<1>5. /\ FrameInv(K)'
      /\ api'[k] = v /\ \A j \in Keys \ {k} : api'[j] = api[j]
      /\ UNCHANGED <<remote, maker, abandoned>>
  BY <1>1, <1>3, <1>4, UserWriteStep DEF Agrees
<1>6. UNCHANGED <<Present, Leaving, Held(K), AliveIds>>
  BY <1>3, <1>5, LedgerIgnores DEF Agrees, SameLife
<1>7. Ledgers(K)!Edit
  BY <1>5, <1>6 DEF Ledgers!Edit
<1> QED BY <1>1, <1>5, <1>7 DEF LedgerStep, Ledgers!Next, Ledgers!Others

\* A user deletes: with the finalizer the resource is marked, without it goes,
\* and then it owns nothing.
LEMMA UserDeleteStep ==
  ASSUME NEW K, IsKind(K), FrameInv(K), NEW k \in Keys, UserDelete(k)
  PROVE  FrameInv(K)' /\ LedgerStep(K)
<1>1. /\ api[k] \in K.objects /\ api[k] # NoObj /\ ~api[k].deleting
      /\ ops' = ops + 1 /\ ops' \in Nat
  BY OpCounts, FrameTypes DEF UserDelete, Live, FrameInv
<1>2. CASE api[k].fin
  <2> DEFINE v == [api[k] EXCEPT !.deleting = TRUE]
  <2>1. UserWrite(k, v)
    BY <1>2 DEF UserDelete
  <2>2. /\ v \in K.objects /\ v.fin = api[k].fin /\ v.deleting /\ v.id = api[k].id
        /\ v \in K.owned <=> api[k] \in K.owned
    BY <1>1 DEF IsKind
  <2> HIDE DEF v
  <2>3. v # NoObj
    BY <2>2, ObjectFacts
  <2>4. Finalized(v) /\ Finalized(api[k]) /\ Deleting(v)
    BY <1>1, <1>2, <2>2, <2>3 DEF Finalized, Deleting
  <2>5. /\ FrameInv(K)'
        /\ api'[k] = v /\ \A j \in Keys \ {k} : api'[j] = api[j]
        /\ UNCHANGED <<remote, maker, abandoned>>
    BY <1>1, <2>1, <2>2, <2>4, UserWriteStep
  <2>6. Present' = Present /\ k \in Present /\ Leaving' = Leaving \cup {k} /\ AliveIds' = AliveIds
    BY <1>1, <2>2, <2>3, <2>5 DEF Present, Leaving, AliveIds, Live, Alive
  <2>7. Held(K)' = Held(K)
    <3>1. \A j \in Keys : (IF api'[j] \in K.owned THEN api'[j].id ELSE NoId)
                          = (IF api[j] \in K.owned THEN api[j].id ELSE NoId)
      BY <2>2, <2>5
    <3> QED BY <3>1 DEF Held
  <2>8. Ledgers(K)!Mark(k)
    BY <2>5, <2>6, <2>7 DEF Ledgers!Mark
  <2> QED BY <1>1, <2>5, <2>8 DEF LedgerStep, Ledgers!Next, Ledgers!Others
<1>3. CASE ~api[k].fin
  <2>1. UserWrite(k, NoObj) /\ NoObj \notin K.owned
    BY <1>3 DEF UserDelete, IsKind
  <2>2. ~Finalized(NoObj) /\ ~Finalized(api[k])
    BY <1>3 DEF Finalized
  <2>3. /\ FrameInv(K)'
        /\ api'[k] = NoObj /\ \A j \in Keys \ {k} : api'[j] = api[j]
        /\ UNCHANGED <<remote, maker, abandoned>>
    BY <1>1, <2>1, <2>2, UserWriteStep
  <2>4. /\ Present' = Present \ {k} /\ k \in Present /\ Leaving' = Leaving
        /\ AliveIds' = AliveIds
    BY <1>1, <2>3 DEF Present, Leaving, AliveIds, Live, Alive
  <2>5. api[k] \notin K.owned
    BY <1>3, StoredOwner
  <2>6. Held(K)[k] = NoId /\ Held(K)' = Held(K)
    <3>1. \A j \in Keys : (IF api'[j] \in K.owned THEN api'[j].id ELSE NoId)
                          = (IF api[j] \in K.owned THEN api[j].id ELSE NoId)
      BY <2>1, <2>3, <2>5
    <3> QED BY <2>5, <3>1 DEF Held
  <2>7. Ledgers(K)!Withdraw(k)
    BY <2>3, <2>4, <2>6 DEF Ledgers!Withdraw
  <2> QED BY <1>1, <2>3, <2>7 DEF LedgerStep, Ledgers!Next, Ledgers!Others
<1> QED BY <1>1, <1>2, <1>3, ObjectFacts

\* A step of the environment that reaches neither the API server nor NPM, but
\* may queue keys, as the events of other kinds do.
LEMMA QueueStep ==
  ASSUME NEW K, IsKind(K), FrameInv(K),
         UNCHANGED <<api, cache, watch, helperVars, localVars, remoteVars>>,
         queue' \subseteq Keys, ops' = ops \/ ops' = ops + 1
  PROVE  FrameInv(K)' /\ LedgerStep(K)
<1>1. /\ UNCHANGED <<req, obj, fresh, faults, pc, marked, rid, input, remote, nextId, maker,
                     abandoned>>
      /\ Types(K) /\ ops \in Nat
  BY DEF helperVars, localVars, remoteVars, FrameInv, Types, FrameTypeOK
<1>2. Types(K)'
  BY <1>1 DEF Types, FrameTypeOK
<1>3. ClusterInv(K)' /\ \A k \in Keys : Seen(k)' = Seen(k)
  BY <1>1, QuietCluster DEF FrameInv
<1>4. WorkerInv(K)' /\ OwnersInv(K)' /\ RemovalInv(K)'
  BY <1>1, <1>3 DEF FrameInv, WorkerInv, OwnersInv, RemovalInv, Creating, Alive, Fresh
<1>5. UNCHANGED <<Present, Leaving, Held(K), AliveIds>>
  BY <1>1 DEF Present, Leaving, Held, AliveIds, Live, Alive
<1>6. LedgerStep(K)
  <2>1. CASE ops' = ops
    BY <1>1, <2>1, LedgerStutters
  <2>2. CASE ops' = ops + 1
    <3>1. Ledgers(K)!Edit
      BY <1>1, <1>5 DEF Ledgers!Edit
    <3> QED BY <1>1, <2>2, <3>1 DEF LedgerStep, Ledgers!Next, Ledgers!Others
  <2> QED BY <2>1, <2>2
<1> QED BY <1>2, <1>3, <1>4, <1>6 DEF FrameInv

\* An administrator removes an object.
LEMMA AdminRemoveStep ==
  ASSUME NEW K, IsKind(K), FrameInv(K), NEW i \in Ids, AdminRemove(i)
  PROVE  FrameInv(K)' /\ LedgerStep(K)
<1>1. /\ UNCHANGED <<api, cache, watch, queue, req, obj, fresh, faults, pc, marked, rid, input,
                     nextId, maker, abandoned>>
      /\ remote \in [Ids -> K.remote \cup {NoRemote}]
      /\ remote' = [remote EXCEPT ![i] = NoRemote] /\ ops' = ops + 1 /\ ops' \in Nat
  BY OpCounts DEF AdminRemove, kubeVars, helperVars, localVars, FrameInv, Types, FrameTypeOK
<1>2. Types(K)'
  BY <1>1 DEF FrameInv, Types, FrameTypeOK
<1>3. ClusterInv(K)' /\ \A k \in Keys : Seen(k)' = Seen(k)
  BY <1>1, QuietCluster DEF FrameInv
<1>4. (\A j \in Ids : ~Alive(j) => ~Alive(j)') /\ AliveIds' = AliveIds \ {i}
  BY <1>1 DEF Alive, AliveIds
<1>5. WorkerInv(K)' /\ OwnersInv(K)' /\ RemovalInv(K)'
  <2>1. obj \in K.owned => obj.id \in Ids
    BY DEF IsKind
  <2> QED BY <1>1, <1>3, <1>4, <2>1
          DEF FrameInv, WorkerInv, OwnersInv, RemovalInv, Creating, Fresh
<1>6. Ledgers(K)!Outside(i)
  BY <1>1, <1>4 DEF Ledgers!Outside, Present, Leaving, Held, Live
<1> QED BY <1>1, <1>2, <1>3, <1>5, <1>6
        DEF FrameInv, LedgerStep, Ledgers!Next, Ledgers!Others

\* A watch event only changes what the cache shows.
LEMMA WatchEventStep ==
  ASSUME NEW K, IsKind(K), FrameInv(K), NEW k \in Keys, WatchEvent(k)
  PROVE  FrameInv(K)' /\ LedgerStep(K)
<1> DEFINE S == K.objects \cup {NoObj}
<1>0. /\ Types(K) /\ ClusterInv(K) /\ WorkerInv(K) /\ OwnersInv(K) /\ RemovalInv(K)
      /\ cache \in [Keys -> S] /\ watch \in [Keys -> Seq(S)]
      /\ CacheFollows /\ FreshExists /\ SeenInv /\ OwnedHasFinalizer(K)
      /\ queue \subseteq Keys
  BY FrameTypes DEF FrameInv, Types, FrameTypeOK
<1> HIDE DEF S
<1>1. /\ Deliver(k) /\ api' = api
      /\ UNCHANGED <<req, obj, fresh, faults, pc, marked, rid, input, remote, nextId, maker,
                     abandoned, ops>>
      /\ watch[k] # << >> /\ \A j \in Keys \ {k} : watch'[j] = watch[j]
  BY <1>0 DEF WatchEvent, Deliver, helperVars, localVars, remoteVars
<1>2. cache' \in [Keys -> S] /\ watch' \in [Keys -> Seq(S)] /\ queue' \subseteq Keys
  BY <1>0, <1>1, DeliverKeeps
<1>3. Types(K)'
  BY <1>0, <1>1, <1>2 DEF Types, FrameTypeOK, S
<1>4. SeenInv' /\ \A j \in Keys : Seen(j)' \subseteq Seen(j)
  BY <1>0, <1>1, DeliverSeen
<1>5. CacheFollows'
  BY <1>0, <1>1, DeliverFollows
<1>6. OwnedHasFinalizer(K)' /\ FreshExists'
  BY <1>0, <1>1 DEF OwnedHasFinalizer, FreshExists
<1>7. WorkerInv(K)'
  <2>1. pc # "idle" => req \in Keys
    BY <1>0 DEF WorkerInv
  <2>2. pc # "idle" /\ Fresh(req) => watch'[req] = << >>
    BY <1>1, <2>1 DEF Fresh
  <2> QED BY <1>0, <1>1, <1>4, <2>1, <2>2 DEF WorkerInv, Creating, Fresh
<1>8. OwnersInv(K)' /\ RemovalInv(K)'
  BY <1>0, <1>1, <1>4 DEF OwnersInv, RemovalInv, Alive
<1>9. LedgerStep(K)
  BY <1>1, LedgerStutters
<1> QED BY <1>3, <1>4, <1>5, <1>6, <1>7, <1>8, <1>9 DEF FrameInv, ClusterInv

\* A crash: the next process knows what the server stores, and nothing else.
LEMMA CrashStep ==
  ASSUME NEW K, IsKind(K), FrameInv(K), Crash
  PROVE  FrameInv(K)' /\ LedgerStep(K)
<1> DEFINE S == K.objects \cup {NoObj}
<1>0. Types(K) /\ ClusterInv(K) /\ OwnersInv(K) /\ api \in [Keys -> S] /\ faults \in Nat
      /\ OwnedHasFinalizer(K)
  BY FrameTypes DEF FrameInv
<1> HIDE DEF S
<1>1. /\ Relist /\ UNCHANGED <<api, remote, nextId, maker, abandoned, ops>> /\ faults' \in Nat
      /\ pc' = "idle" /\ req' = NoKey /\ obj' = NoObj /\ fresh' = FALSE /\ marked' = FALSE
      /\ rid' = NoId /\ input' = NoInput
  BY <1>0, FaultKeeps DEF Crash, Relist, Reset, remoteVars
<1>2. cache' \in [Keys -> S] /\ watch' \in [Keys -> Seq(S)] /\ queue' \subseteq Keys
  BY <1>0, <1>1, RelistKeeps
<1>3. Types(K)'
  BY <1>0, <1>1, <1>2 DEF Types, FrameTypeOK, S, IsKind
<1>4. ClusterInv(K)' /\ \A k \in Keys : Seen(k)' = {api[k]}
  BY <1>0, <1>1, RelistFollows, RelistSeen DEF ClusterInv, OwnedHasFinalizer, FreshExists
<1>5. WorkerInv(K)' /\ RemovalInv(K)'
  BY <1>1 DEF WorkerInv, RemovalInv, Creating
<1>6. OwnersInv(K)'
  BY <1>0, <1>1, <1>4, StoredOwner DEF OwnersInv, Alive
<1> QED BY <1>1, <1>3, <1>4, <1>5, <1>6, LedgerStutters DEF FrameInv

-----------------------------------------------------------------------------
(* Requests to NPM                                                          *)

\* Only a creation adds an object, under the next id, and names its owner.
LEMMA PostKeeps ==
  ASSUME NEW K, IsKind(K), Types(K), OwnersInv(K), NEW k \in Keys \cup {NoKey},
         NEW v \in K.remote, Post(k, v)
  PROVE  /\ remote' \in [Ids -> K.remote \cup {NoRemote}] /\ nextId' \in 1 .. MaxRemote + 1
         /\ maker' \in [Ids -> Keys \cup {NoKey}] /\ UNCHANGED abandoned
         /\ nextId \in Ids /\ nextId \notin AliveIds /\ maker[nextId] = NoKey
         /\ AliveIds' = AliveIds \cup {nextId} /\ maker' = [maker EXCEPT ![nextId] = k]
         /\ remote'[nextId] = v
         /\ \A i \in Ids : i >= nextId' => ~Alive(i)' /\ maker'[i] = NoKey
         /\ \A i \in Ids : maker[i] \in Keys => maker'[i] = maker[i] /\ remote'[i] = remote[i]
<1>1. /\ remote \in [Ids -> K.remote \cup {NoRemote}] /\ maker \in [Ids -> Keys \cup {NoKey}]
      /\ nextId \in 1 .. MaxRemote + 1
  BY DEF Types, FrameTypeOK
<1>2. /\ nextId \in Ids /\ remote' = [remote EXCEPT ![nextId] = v] /\ nextId' = nextId + 1
      /\ maker' = [maker EXCEPT ![nextId] = k] /\ UNCHANGED abandoned
  BY DEF Post
<1>3. Ids \subseteq Nat /\ Ids = 1 .. MaxRemote /\ MaxRemote \in Nat
  BY FrameAssumption DEF Ids
<1>4. maker[nextId] = NoKey /\ ~Alive(nextId)
  BY <1>1, <1>2, <1>3 DEF OwnersInv
<1>5. \A i \in Ids : i >= nextId' => ~Alive(i)' /\ maker'[i] = NoKey
  BY <1>1, <1>2, <1>3 DEF OwnersInv, Alive
<1>6. \A i \in Ids : maker[i] \in Keys => maker'[i] = maker[i] /\ remote'[i] = remote[i]
  BY <1>1, <1>2, <1>4, KeysAssumption
<1>7. AliveIds' = AliveIds \cup {nextId} /\ nextId \notin AliveIds
  BY <1>1, <1>2, <1>4 DEF AliveIds, Alive, IsKind
<1> QED BY <1>1, <1>2, <1>3, <1>4, <1>5, <1>6, <1>7

\* What a request of Reconcile does to NPM: nothing, a creation or an update.
RemoteEffect(K) ==
  \/ UNCHANGED remoteVars
  \/ \E v \in K.remote : Post(req, v)
  \/ \E i \in Ids, v \in K.remote : Alive(i) /\ Put(i, v)

\* Every outcome of a creation or an update is one of these.
LEMMA RequestEffects ==
  ASSUME NEW K, faults \in Nat, NEW ok \in BOOLEAN
  PROVE  /\ \A v \in K.remote : CreateRemote(v, FALSE, ok) => RemoteEffect(K) /\ faults' \in Nat
         /\ \A i \in Ids : \A v : (Alive(i) => v \in K.remote) /\ UpdateRemote(i, v, ok)
              => RemoteEffect(K) /\ faults' \in Nat
BY FaultKeeps DEF CreateRemote, UpdateRemote, RemoteEffect

\* A step of Reconcile between the finalizer and the end that talks to NPM or
\* to nobody: the ledger sees at most a creation for the resource at hand.
LEMMA WorkStep ==
  ASSUME NEW K, IsKind(K), FrameInv(K), RemoteEffect(K), faults' \in Nat,
         UNCHANGED <<kubeVars, req, obj, fresh, marked, ops>>,
         Creating, pc' \in K.pcs, Creating' \/ pc' = "requeue",
         rid' \in Ids \cup {NoId}, input' \in K.inputs \cup {NoInput}
  PROVE  FrameInv(K)' /\ LedgerStep(K)
<1>0. /\ Types(K) /\ ClusterInv(K) /\ WorkerInv(K) /\ OwnersInv(K)
      /\ UNCHANGED <<api, cache, watch, queue>> /\ req \in Keys /\ api[req] # NoObj
      /\ pc' \notin {"finalizer", "reconciling", "client", "delete", "removeFinalizer"}
  BY DEF FrameInv, kubeVars, WorkerInv, Creating, Finalized
<1>1. ClusterInv(K)' /\ \A k \in Keys : Seen(k)' = Seen(k)
  BY <1>0, QuietCluster
<1>2. WorkerInv(K)' /\ RemovalInv(K)'
  BY <1>0, <1>1 DEF WorkerInv, RemovalInv, Creating
<1>3. UNCHANGED <<Present, Leaving, Held(K)>> /\ req \in Present
  BY <1>0 DEF Present, Leaving, Held, Live
<1>4. /\ remote \in [Ids -> K.remote \cup {NoRemote}] /\ maker \in [Ids -> Keys \cup {NoKey}]
      /\ nextId \in 1 .. MaxRemote + 1 /\ abandoned \subseteq Ids
  BY <1>0 DEF Types, FrameTypeOK
<1>5. (\A o \in K.owned : o.id \in Ids) /\ NoRemote \notin K.remote
  BY DEF IsKind
<1>6. CASE UNCHANGED remoteVars
  <2>1. UNCHANGED <<remote, nextId, maker, abandoned>>
    BY <1>6 DEF remoteVars
  <2>2. Types(K)' /\ OwnersInv(K)'
    BY <1>0, <1>1, <2>1 DEF Types, FrameTypeOK, OwnersInv, Alive, Creating
  <2> QED BY <1>0, <1>1, <1>2, <2>1, <2>2, LedgerStutters DEF FrameInv
<1>7. ASSUME NEW v \in K.remote, Post(req, v)
      PROVE  FrameInv(K)' /\ LedgerStep(K)
  <2>1. /\ remote' \in [Ids -> K.remote \cup {NoRemote}] /\ nextId' \in 1 .. MaxRemote + 1
        /\ maker' \in [Ids -> Keys \cup {NoKey}] /\ UNCHANGED abandoned
        /\ nextId \in Ids /\ nextId \notin AliveIds /\ maker[nextId] = NoKey
        /\ AliveIds' = AliveIds \cup {nextId} /\ maker' = [maker EXCEPT ![nextId] = req]
        /\ \A i \in Ids : i >= nextId' => ~Alive(i)' /\ maker'[i] = NoKey
        /\ \A i \in Ids : maker[i] \in Keys => maker'[i] = maker[i]
    BY <1>0, <1>7, PostKeeps
  <2>2. Types(K)'
    BY <1>0, <2>1 DEF Types, FrameTypeOK
  <2>3. OwnersInv(K)'
    BY <1>0, <1>1, <1>5, <2>1 DEF OwnersInv, Creating
  <2>4. Ledgers(K)!Create(req, nextId)
    BY <1>3, <2>1 DEF Ledgers!Create
  <2> QED BY <1>0, <1>1, <1>2, <2>1, <2>2, <2>3, <2>4
          DEF FrameInv, LedgerStep, Ledgers!Next, Ledgers!Operator
<1>8. ASSUME NEW i \in Ids, NEW v \in K.remote, Alive(i), Put(i, v)
      PROVE  FrameInv(K)' /\ LedgerStep(K)
  <2>1. remote' = [remote EXCEPT ![i] = v] /\ UNCHANGED <<nextId, maker, abandoned>>
    BY <1>8 DEF Put
  <2>2. \A j \in Ids : Alive(j)' <=> Alive(j)
    BY <1>4, <1>5, <1>8, <2>1 DEF Alive
  <2>3. Types(K)'
    BY <1>0, <1>4, <2>1 DEF Types, FrameTypeOK
  <2>4. OwnersInv(K)'
    BY <1>0, <1>1, <2>1, <2>2 DEF OwnersInv, Creating
  <2>5. AliveIds' = AliveIds
    BY <2>2 DEF AliveIds
  <2>6. LedgerStep(K)
    BY <1>3, <2>1, <2>5 DEF LedgerStep, Ledgers!ledgerVars
  <2> QED BY <1>1, <1>2, <2>3, <2>4, <2>6 DEF FrameInv
<1> QED BY <1>6, <1>7, <1>8 DEF RemoteEffect

\* A cluster without resources, the worker idle and nothing in NPM.
LEMMA FrameInitInv ==
  ASSUME NEW K, IsKind(K), FrameInit
  PROVE  FrameInv(K) /\ Ledgers(K)!Init
<1>1. \A k \in Keys : Seen(k) = {NoObj}
  <2>1. CacheFollows /\ \A k \in Keys : Fresh(k) /\ api[k] = NoObj
    BY DEF FrameInit, CacheFollows, Fresh
  <2> QED BY <2>1, FreshSeen
<1>2. NoObj \notin K.owned
  BY DEF IsKind
<1>3. Types(K)
  <2>1. "idle" \in K.pcs
    BY DEF IsKind
  <2>2. 1 \in 1 .. MaxRemote + 1
    BY FrameAssumption
  <2>3. << >> \in Seq(K.objects \cup {NoObj})
    OBVIOUS
  <2>4. watch \in [Keys -> Seq(K.objects \cup {NoObj})]
    BY <2>3 DEF FrameInit
  <2>5. /\ api \in [Keys -> K.objects \cup {NoObj}] /\ cache \in [Keys -> K.objects \cup {NoObj}]
        /\ remote \in [Ids -> K.remote \cup {NoRemote}] /\ maker \in [Ids -> Keys \cup {NoKey}]
        /\ abandoned \subseteq Ids
    BY DEF FrameInit
  <2> QED BY <2>1, <2>2, <2>4, <2>5 DEF FrameInit, Types, FrameTypeOK
<1>4. ClusterInv(K)
  BY <1>1, <1>2 DEF FrameInit, ClusterInv, CacheFollows, FreshExists, SeenInv, Before,
                    OwnedHasFinalizer
<1>5. WorkerInv(K) /\ RemovalInv(K)
  BY DEF FrameInit, WorkerInv, RemovalInv, Creating
<1>6. OwnersInv(K)
  BY <1>1, <1>2 DEF FrameInit, OwnersInv, Alive
<1>7. Ledgers(K)!Init
  BY <1>2 DEF FrameInit, Ledgers!Init, Present, Leaving, Held, AliveIds, Live, Alive
<1> QED BY <1>3, <1>4, <1>5, <1>6, <1>7 DEF FrameInv

\* A step that nothing of the frame takes part in.
LEMMA FrameStutters ==
  ASSUME NEW K, FrameInv(K), UNCHANGED vars
  PROVE  FrameInv(K)' /\ LedgerStep(K)
<1>1. UNCHANGED <<api, cache, watch, queue, req, obj, fresh, faults, pc, marked, rid, input,
                  remote, nextId, maker, abandoned, ops>>
  BY DEF vars, kubeVars, helperVars, localVars, remoteVars
<1>2. Types(K)'
  BY <1>1 DEF FrameInv, Types, FrameTypeOK
<1>3. ClusterInv(K)' /\ \A k \in Keys : Seen(k)' = Seen(k)
  BY <1>1, QuietCluster DEF FrameInv
<1>4. WorkerInv(K)' /\ OwnersInv(K)' /\ RemovalInv(K)'
  BY <1>1, <1>3 DEF FrameInv, WorkerInv, OwnersInv, RemovalInv, Creating, Alive, Fresh
<1> QED BY <1>1, <1>2, <1>3, <1>4, LedgerStutters DEF FrameInv

-----------------------------------------------------------------------------
(* What is said of a resource by every version of it                        *)

\* A set of versions that no write of the frame leaves.  Conditions are only
\* stored with a status that the server accepts, of the versions in A.
Closed(P, A) ==
  \A o \in P :
    /\ WithFinalizer(o) \in P
    /\ ~o.deleting => [o EXCEPT !.fin = FALSE] \in P
    /\ o.fin => [o EXCEPT !.deleting = TRUE] \in P
    /\ \A s \in Specs : [o EXCEPT !.spec = s] \in P
    /\ o \in A => \A type \in ConditionTypes : SetCondition(o, type) \in P

\* All versions that the server stores or the cache will show are in P.
SeenIn(P) == \A k \in Keys : Seen(k) \subseteq P \cup {NoObj}

\* A step that stores nothing but variants of stored versions, and resources as
\* users make them, in N.
VersionsKept(K, N, A) ==
  \A P \in SUBSET K.objects :
    Closed(P, A) /\ SeenIn(P) /\ N \subseteq P => \A j \in Keys : Seen(j)' \subseteq P \cup {NoObj}

\* A write adds its version and no other.
LEMMA StoreStays ==
  ASSUME NEW K, FrameInv(K), NEW P, SeenIn(P), NEW k \in Keys, NEW w \in K.objects \cup {NoObj},
         w \in P \cup {NoObj}, Publish(k, w), UNCHANGED cache
  PROVE  \A j \in Keys : Seen(j)' \subseteq P \cup {NoObj}
<1> DEFINE S == K.objects \cup {NoObj}
<1>1. api \in [Keys -> S] /\ watch \in [Keys -> Seq(S)] /\ CacheFollows /\ w \in S
  BY FrameTypes
<1> HIDE DEF S
<1>2. Seen(k)' \subseteq Seen(k) \cup {w} /\ \A j \in Keys \ {k} : Seen(j)' = Seen(j)
  BY <1>1, PublishAdds
<1> QED BY <1>2 DEF SeenIn

\* Writes of the worker on the frame's behalf: e is the stored object as the
\* server receives it.
FrameWrites(e, accepted) ==
  \/ MarkReconciling(accepted) \/ MarkReady(accepted) \/ MarkError(accepted)
  \/ EnsureFinalizer(e) \/ DropFinalizer(e)

\* What they store are variants of what was stored.
LEMMA WorkerVersions ==
  ASSUME NEW K, IsKind(K), FrameInv(K), NEW e, NEW accepted \in BOOLEAN,
         FrameWrites(e, accepted), NEW N, NEW A,
         accepted /\ cache[req] # NoObj => cache[req] \in A,
         \A P \in SUBSET K.objects :
           api[req] \in P /\ Closed(P, A) => e \in P /\ e.deleting = api[req].deleting
  PROVE  VersionsKept(K, N, A)
<1> SUFFICES ASSUME NEW P \in SUBSET K.objects, Closed(P, A), SeenIn(P)
             PROVE  \A j \in Keys : Seen(j)' \subseteq P \cup {NoObj}
  BY DEF VersionsKept
<1>0. /\ req \in Keys /\ UNCHANGED cache /\ faults \in Nat /\ fresh \in BOOLEAN
      /\ fresh => api[req] # NoObj
  BY FrameTypes
  DEF FrameInv, WorkerInv, FrameWrites, MarkReconciling, MarkReady, MarkError, EnsureFinalizer,
      DropFinalizer, FreshExists
<1>1. /\ cache[req] # NoObj => cache[req] \in P
      /\ api[req] # NoObj => api[req] \in P
  <2>1. cache[req] \in Seen(req) /\ api[req] \in Seen(req)
    BY <1>0, FrameTypes, StoredIsSeen DEF Seen
  <2> QED BY <1>0, <2>1 DEF SeenIn
<1>2. ASSUME UNCHANGED <<api, watch>>
      PROVE  \A j \in Keys : Seen(j)' \subseteq P \cup {NoObj}
  BY <1>0, <1>2 DEF SeenIn, Seen
<1>3. ASSUME NEW w \in P \cup {NoObj}, Publish(req, w)
      PROVE  \A j \in Keys : Seen(j)' \subseteq P \cup {NoObj}
  BY <1>0, <1>3, StoreStays
<1>4. ASSUME NEW type \in ConditionTypes, NEW ok \in BOOLEAN,
             StatusWrite(SetCondition(Cached, type), accepted, ok)
      PROVE  \A j \in Keys : Seen(j)' \subseteq P \cup {NoObj}
  <2>1. \/ UNCHANGED <<api, watch>>
        \/ /\ cache[req] # NoObj /\ Publish(req, SetCondition(Cached, type))
           /\ accepted
    BY <1>0, <1>4, StatusWriteCases
  <2>2. ASSUME cache[req] # NoObj, accepted
        PROVE  SetCondition(Cached, type) \in P
    <3>1. Cached \in P /\ Cached \in A
      BY <1>1, <2>2 DEF Cached
    <3> QED BY <3>1 DEF Closed
  <2> QED BY <1>2, <1>3, <2>1, <2>2
<1>5. CASE MarkReconciling(accepted) \/ MarkReady(accepted) \/ MarkError(accepted)
  <2>1. {"Reconciling", "Ready", "Error"} = ConditionTypes
    BY DEF ConditionTypes
  <2> QED BY <1>2, <1>4, <1>5, <2>1 DEF MarkReconciling, MarkReady, MarkError
<1>6. ASSUME NEW w, NEW ok \in BOOLEAN, UpdateObject(w, ok), api[req] \in P => w \in P \cup {NoObj}
      PROVE  \A j \in Keys : Seen(j)' \subseteq P \cup {NoObj}
  <2>1. UNCHANGED <<api, watch>> \/ (fresh /\ Publish(req, w))
    BY <1>6 DEF UpdateObject
  <2> QED BY <1>0, <1>1, <1>2, <1>3, <1>6, <2>1
<1>7. CASE EnsureFinalizer(e)
  BY <1>2, <1>6, <1>7 DEF EnsureFinalizer, AddFinalizer, Closed
<1>8. CASE DropFinalizer(e)
  BY <1>2, <1>6, <1>8 DEF DropFinalizer, RemoveFinalizer, WithoutFinalizer, Closed
<1> QED BY <1>5, <1>7, <1>8 DEF FrameWrites

\* So is what users write; watch events, crashes and all other steps store
\* nothing.
LEMMA OutsideVersions ==
  ASSUME NEW K, IsKind(K), FrameInv(K), NEW N, NEW A,
         \/ \E k \in Keys :
              \/ \E v \in N : UserCreate(k, v)
              \/ \E s \in Specs : UserEdit(k, s)
              \/ UserDelete(k) \/ WatchEvent(k)
         \/ Crash
         \/ UNCHANGED <<api, cache, watch>>
  PROVE  VersionsKept(K, N, A)
<1> SUFFICES ASSUME NEW P \in SUBSET K.objects, Closed(P, A), SeenIn(P), N \subseteq P
             PROVE  \A j \in Keys : Seen(j)' \subseteq P \cup {NoObj}
  BY DEF VersionsKept
<1>1. \A k \in Keys : api[k] \in P \cup {NoObj}
  BY FrameTypes, StoredIsSeen DEF SeenIn
<1>2. ASSUME NEW k \in Keys, NEW w \in P \cup {NoObj}, UserWrite(k, w)
      PROVE  \A j \in Keys : Seen(j)' \subseteq P \cup {NoObj}
  BY <1>2, StoreStays DEF UserWrite
<1>3. ASSUME NEW k \in Keys,
             \/ \E v \in N : UserCreate(k, v)
             \/ \E s \in Specs : UserEdit(k, s)
             \/ UserDelete(k)
      PROVE  \A j \in Keys : Seen(j)' \subseteq P \cup {NoObj}
  BY <1>1, <1>2, <1>3 DEF UserCreate, UserEdit, UserDelete, Live, Closed
<1>4. ASSUME NEW k \in Keys, WatchEvent(k)
      PROVE  \A j \in Keys : Seen(j)' \subseteq P \cup {NoObj}
  <2>1. Deliver(k)
    BY <1>4 DEF WatchEvent
  <2> QED BY <2>1, FrameTypes, DeliverSeen DEF SeenIn
<1>5. CASE Crash
  <2>1. Relist
    BY <1>5 DEF Crash
  <2>2. \A j \in Keys : Seen(j)' = {api[j]} /\ api[j] \in Seen(j)
    BY <2>1, RelistSeen, FrameTypes, StoredIsSeen
  <2> QED BY <2>2 DEF SeenIn
<1>6. CASE UNCHANGED <<api, cache, watch>>
  BY <1>6 DEF SeenIn, Seen
<1> QED BY <1>3, <1>4, <1>5, <1>6

-----------------------------------------------------------------------------
(* Resources that the operator has nothing to do for                        *)

\* The cache shows the stored version and no request for k waits.
Settled(k) == Fresh(k) /\ k \notin queue

\* A step that settles nothing, and leaves what is settled as it is stored.
Calm == \A k \in Keys : Settled(k)' => Settled(k) /\ api'[k] = api[k]

\* o and x differ in their conditions only, as far as the frame knows.
Like(o, x) == o.spec = x.spec /\ o.id = x.id /\ o.deleting = x.deleting /\ o.fin = x.fin

\* A resource whose deletion is pending waits for its finalizer.
Awaited == \A k \in Keys : Live(k) /\ api[k].deleting => api[k].fin

\* A request that is bound to end without another one is about the stored
\* version, if no other request for the resource waits or will come; and it does
\* not end before the resource is gone.
TidyInv ==
  /\ Awaited
  /\ pc \notin {"idle", "fail", "requeue"} /\ Settled(req) =>
       Live(req) /\ marked = obj.deleting /\ Like(obj, api[req])
  /\ pc = "done" /\ Settled(req) => ~marked

\* Writes and watch events unsettle the resource that they are about, and so
\* does whatever queues it.
LEMMA CalmSteps ==
  ASSUME NEW S, watch \in [Keys -> Seq(S)], api \in [Keys -> S], queue \subseteq queue',
         \/ UNCHANGED <<api, watch>>
         \/ \E k \in Keys : \E v : Publish(k, v)
         \/ \E k \in Keys : Deliver(k)
  PROVE  Calm
<1>1. CASE UNCHANGED <<api, watch>>
  BY <1>1 DEF Calm, Settled, Fresh
<1>2. ASSUME NEW k \in Keys, NEW v, Publish(k, v), v # api[k]
      PROVE  Calm
  <2>1. /\ api' = [api EXCEPT ![k] = v] /\ watch' = [watch EXCEPT ![k] = Append(watch[k], v)]
    BY <1>2 DEF Publish
  <2>2. Append(watch[k], v) # << >>
    <3>1. watch[k] \in Seq(S)
      BY <1>2
    <3> QED BY <3>1
  <2>3. watch'[k] # << >> /\ \A j \in Keys \ {k} : api'[j] = api[j] /\ watch'[j] = watch[j]
    BY <2>1, <2>2
  <2> QED BY <2>3 DEF Calm, Settled, Fresh
<1>3. ASSUME NEW k \in Keys, NEW v, Publish(k, v)
      PROVE  Calm
  BY <1>1, <1>2, <1>3 DEF Publish
<1>4. ASSUME NEW k \in Keys, Deliver(k)
      PROVE  Calm
  <2>1. k \in queue' /\ api' = api /\ \A j \in Keys \ {k} : watch'[j] = watch[j]
    BY <1>4 DEF Deliver
  <2> QED BY <2>1 DEF Calm, Settled, Fresh
<1> QED BY <1>1, <1>3, <1>4

\* What is settled is what the cache shows.
LEMMA SettledSeen ==
  ASSUME NEW K, FrameInv(K), NEW k \in Keys, Settled(k)
  PROVE  cache[k] = api[k]
BY FreshSeen, FrameTypes DEF Settled

\* Calm steps that leave the worker's copy alone.
LEMMA TidyKept ==
  ASSUME TidyInv, Calm, Awaited', UNCHANGED <<req, obj, marked>>, req \in Keys \cup {NoKey},
         pc = "idle" => pc' = "idle", pc # "idle" => req \in Keys,
         \/ pc' = pc
         \/ pc' \in {"fail", "requeue", "idle"}
         \/ pc \notin {"idle", "fail", "requeue"} /\ (pc' = "done" => ~Settled(req) \/ ~marked)
  PROVE  TidyInv'
<1>1. pc # "idle" /\ Settled(req)' => Settled(req) /\ api'[req] = api[req]
  BY DEF Calm
<1> QED BY <1>1 DEF TidyInv, Live


\* What a status write leaves behind.
LEMMA StatusOutcome ==
  ASSUME NEW v, NEW accepted \in BOOLEAN, NEW ok \in BOOLEAN, StatusWrite(v, accepted, ok)
  PROVE  \/ ~ok /\ UNCHANGED <<api, watch, obj>>
         \/ ~ok /\ cache[req] # NoObj /\ obj' = v /\ UNCHANGED <<api, watch>>
         \/ cache[req] # NoObj /\ Fresh(req) /\ obj' = v /\ Publish(req, v)
BY DEF StatusWrite, UpdateStatus

\* A status write on a settled resource stores what is stored already, or the
\* resource is no longer settled.
LEMMA TidyStatus ==
  ASSUME NEW K, FrameInv(K), TidyInv, NEW v, NEW accepted \in BOOLEAN,
         NEW ok \in BOOLEAN, StatusWrite(v, accepted, ok),
         UNCHANGED <<cache, queue, req, marked>>, req \in Keys, pc # "idle",
         cache[req] # NoObj =>
           /\ v \in K.objects /\ v # NoObj
           /\ v.fin = cache[req].fin /\ v.deleting = cache[req].deleting,
         cache[req] # NoObj /\ ~ok /\ pc' \notin {"fail", "requeue"} => Like(v, cache[req]),
         pc' \notin {"fail", "requeue", "idle"} => pc \notin {"fail", "requeue"},
         pc' = "done" => ~marked
  PROVE  TidyInv' /\ Calm
<1>0. /\ api \in [Keys -> K.objects \cup {NoObj}] /\ watch \in [Keys -> Seq(K.objects \cup {NoObj})]
      /\ CacheFollows
  BY FrameTypes
<1>1. CASE ~ok /\ UNCHANGED <<api, watch, obj>>
  <2>1. Calm
    BY <1>0, <1>1, CalmSteps
  <2> QED BY <1>1, <2>1 DEF TidyInv, Calm, Awaited, Live
<1>2. CASE ~ok /\ cache[req] # NoObj /\ obj' = v /\ UNCHANGED <<api, watch>>
  <2>1. Calm
    BY <1>0, <1>2, CalmSteps
  <2>2. Settled(req)' => Settled(req) /\ api'[req] = api[req] /\ cache[req] = api[req]
    BY <2>1, SettledSeen DEF Calm
  <2>3. Awaited'
    BY <1>2 DEF TidyInv, Awaited, Live
  <2>4. ASSUME pc' \notin {"idle", "fail", "requeue"}, Settled(req)'
        PROVE  Live(req)' /\ marked' = obj'.deleting /\ Like(obj', api'[req])
    <3>1. Live(req) /\ marked = obj.deleting /\ Like(obj, api[req])
      BY <2>2, <2>4 DEF TidyInv
    <3>2. Like(v, api[req]) /\ obj' = v /\ api'[req] = api[req]
      BY <1>2, <2>2, <2>4
    <3>3. v.deleting = api[req].deleting /\ obj.deleting = api[req].deleting
      BY <3>1, <3>2 DEF Like
    <3> QED BY <3>1, <3>2, <3>3 DEF Live
  <2> QED BY <2>1, <2>3, <2>4 DEF TidyInv
<1>3. CASE cache[req] # NoObj /\ Fresh(req) /\ obj' = v /\ Publish(req, v)
  <2>1. Calm
    BY <1>0, <1>3, CalmSteps
  <2>2. cache[req] = api[req] /\ api'[req] = v /\ \A j \in Keys \ {req} : api'[j] = api[j]
    BY <1>0, <1>3, FreshSeen, PublishKeeps
  <2>3. Awaited'
    BY <1>3, <2>2 DEF TidyInv, Awaited, Live
  <2>4. ASSUME pc' \notin {"idle", "fail", "requeue"}, Settled(req)'
        PROVE  Live(req)' /\ marked' = obj'.deleting /\ Like(obj', api'[req])
    <3>1. Settled(req) /\ api[req] = v
      BY <2>1, <2>2, <2>4 DEF Calm
    <3>2. marked = obj.deleting /\ Like(obj, api[req])
      BY <2>4, <3>1 DEF TidyInv
    <3> QED BY <1>3, <2>2, <3>1, <3>2 DEF Like, Live
  <2> QED BY <2>1, <2>3, <2>4 DEF TidyInv
<1> QED BY <1>1, <1>2, <1>3, StatusOutcome

\* The three writes of conditions.
LEMMA TidyConditions ==
  ASSUME NEW K, IsKind(K), FrameInv(K), TidyInv, NEW accepted \in BOOLEAN,
         MarkReconciling(accepted) \/ MarkReady(accepted) \/ MarkError(accepted),
         \A o \in K.objects : \A type \in ConditionTypes : SetCondition(o, type).spec = o.spec
  PROVE  TidyInv' /\ Calm
<1>1. /\ req \in Keys /\ UNCHANGED <<cache, queue, req, marked>> /\ pc # "idle"
      /\ \/ pc = "reconciling" /\ pc' = "client"
         \/ pc = "ready" /\ pc' = "done" /\ ~marked
         \/ pc = "fail" /\ pc' = "requeue"
  BY DEF FrameInv, WorkerInv, Creating, MarkReconciling, MarkReady, MarkError
<1>2. ASSUME NEW type \in ConditionTypes, NEW ok \in BOOLEAN,
             StatusWrite(SetCondition(Cached, type), accepted, ok)
      PROVE  TidyInv' /\ Calm
  <2> DEFINE v == SetCondition(Cached, type)
  <2>1. ASSUME cache[req] # NoObj
        PROVE  v \in K.objects /\ v # NoObj /\ v.fin = cache[req].fin /\ Like(v, cache[req])
    <3>1. Cached = cache[req] /\ cache[req] \in K.objects
      BY <1>1, <2>1, FrameTypes DEF Cached
    <3>2. v \in K.objects /\ Agrees(v, cache[req], K) /\ v.spec = cache[req].spec
      BY <3>1 DEF IsKind
    <3> QED BY <3>2 DEF Agrees, SameLife, Like, IsKind
  <2>2. StatusWrite(v, accepted, ok)
    BY <1>2
  <2> HIDE DEF v
  <2> QED BY <1>1, <2>1, <2>2, TidyStatus DEF Like
<1>3. CASE UNCHANGED <<api, watch, obj, fresh, faults>> /\ MarkReconciling(accepted)
  <2>1. Calm /\ Awaited'
    BY <1>1, <1>3, FrameTypes, CalmSteps DEF TidyInv, Awaited, Live
  <2> QED BY <1>1, <1>3, <2>1, TidyKept
<1>4. {"Reconciling", "Ready", "Error"} = ConditionTypes
  BY DEF ConditionTypes
<1> QED BY <1>2, <1>3, <1>4 DEF MarkReconciling, MarkReady, MarkError


\* A finalizer that is stored unsettles the resource.
LEMMA TidyFinalizer ==
  ASSUME NEW K, IsKind(K), FrameInv(K), TidyInv, NEW e, EnsureFinalizer(e),
         api[req] \in K.objects => e \in K.objects /\ Agrees(e, api[req], K)
  PROVE  TidyInv' /\ Calm
<1> DEFINE v == WithFinalizer(e)
<1>0. /\ api \in [Keys -> K.objects \cup {NoObj}] /\ watch \in [Keys -> Seq(K.objects \cup {NoObj})]
      /\ FreshExists
  BY FrameTypes
<1>1. /\ pc = "finalizer" /\ pc' \in {"reconciling", "requeue"} /\ req \in Keys
      /\ UNCHANGED <<queue, req, marked>>
  BY DEF EnsureFinalizer, FrameInv, WorkerInv
<1>2. \/ UNCHANGED <<api, watch, obj>>
      \/ fresh /\ Publish(req, v) /\ (pc' = "requeue" \/ v = NoObj \/ obj' = v)
  BY DEF EnsureFinalizer, AddFinalizer, UpdateObject
<1>3. CASE UNCHANGED <<api, watch, obj>>
  <2>1. Calm /\ Awaited'
    BY <1>0, <1>1, <1>3, CalmSteps DEF TidyInv, Awaited, Live
  <2> QED BY <1>1, <1>3, <2>1, TidyKept
<1>4. CASE fresh /\ Publish(req, v) /\ (pc' = "requeue" \/ v = NoObj \/ obj' = v)
  <2>1. v \in K.objects /\ v.fin /\ v # NoObj
    <3>1. e \in K.objects
      BY <1>0, <1>1, <1>4 DEF FreshExists
    <3>2. v \in K.objects /\ v.fin
      BY <3>1 DEF IsKind
    <3> QED BY <3>2 DEF IsKind
  <2> HIDE DEF v
  <2>2. api'[req] = v /\ \A j \in Keys \ {req} : api'[j] = api[j]
    BY <1>0, <1>1, <1>4, <2>1, PublishKeeps
  <2>3. Awaited'
    BY <2>1, <2>2 DEF TidyInv, Awaited, Live
  <2>4. Calm
    BY <1>0, <1>1, <1>4, CalmSteps
  <2>5. ASSUME pc' # "requeue", Settled(req)'
        PROVE  Live(req)' /\ marked' = obj'.deleting /\ Like(obj', api'[req])
    <3>1. Settled(req) /\ api[req] = v
      BY <1>1, <2>2, <2>4, <2>5 DEF Calm
    <3>2. marked = obj.deleting /\ Like(obj, v)
      BY <1>1, <3>1 DEF TidyInv
    <3> QED BY <1>1, <1>4, <2>1, <2>2, <2>5, <3>2 DEF Like, Live
  <2> QED BY <1>1, <2>3, <2>4, <2>5 DEF TidyInv
<1> QED BY <1>2, <1>3, <1>4

\* A marked resource that is settled has its finalizer, and Reconcile does not
\* end before it has tried to remove it.
LEMMA TidyClient ==
  ASSUME NEW K, FrameInv(K), TidyInv, NEW owned, InitNginxPMClient(owned)
  PROVE  TidyInv' /\ Calm
<1>1. /\ pc = "client" /\ UNCHANGED <<api, watch, queue, req, obj, marked>> /\ req \in Keys
      /\ pc' \in {"find", "fail", "done", "delete", "removeFinalizer"}
      /\ pc' = "done" => marked /\ ~obj.fin
  BY DEF InitNginxPMClient, kubeVars, FrameInv, WorkerInv
<1>2. Calm /\ Awaited'
  BY <1>1, FrameTypes, CalmSteps DEF TidyInv, Awaited, Live
<1>3. pc' = "done" => ~Settled(req)
  BY <1>1 DEF TidyInv, Awaited, Like
<1> QED BY <1>1, <1>2, <1>3, TidyKept

\* The removal of the finalizer unsettles the resource.
LEMMA TidyRemoval ==
  ASSUME NEW K, IsKind(K), FrameInv(K), TidyInv, NEW e, DropFinalizer(e),
         api[req] \in K.objects => e \in K.objects /\ Agrees(e, api[req], K)
  PROVE  TidyInv' /\ Calm
<1> DEFINE v == WithoutFinalizer(e)
<1>0. /\ api \in [Keys -> K.objects \cup {NoObj}] /\ watch \in [Keys -> Seq(K.objects \cup {NoObj})]
      /\ FreshExists
  BY FrameTypes
<1>1. /\ pc = "removeFinalizer" /\ pc' \in {"done", "requeue"} /\ req \in Keys
      /\ UNCHANGED <<queue, req, marked>> /\ marked /\ obj \in K.objects
  BY DEF DropFinalizer, FrameInv, WorkerInv
<1>2. \/ UNCHANGED <<api, watch, obj>> /\ (pc' = "requeue" \/ ~obj.fin)
      \/ fresh /\ obj.fin /\ Publish(req, v)
  BY DEF DropFinalizer, RemoveFinalizer, UpdateObject
<1>3. CASE UNCHANGED <<api, watch, obj>> /\ (pc' = "requeue" \/ ~obj.fin)
  <2>1. Calm /\ Awaited'
    BY <1>0, <1>1, <1>3, CalmSteps DEF TidyInv, Awaited, Live
  <2>2. ~obj.fin => ~Settled(req)
    BY <1>1 DEF TidyInv, Awaited, Like
  <2> QED BY <1>1, <1>3, <2>1, <2>2, TidyKept
<1>4. CASE fresh /\ obj.fin /\ Publish(req, v)
  <2>1. e \in K.objects /\ Agrees(e, api[req], K) /\ api[req] # NoObj
    BY <1>0, <1>1, <1>4 DEF FreshExists
  <2>2. e.deleting => v = NoObj
    BY DEF WithoutFinalizer
  <2>3. ~e.deleting => v = [e EXCEPT !.fin = FALSE]
    BY DEF WithoutFinalizer
  <2> HIDE DEF v
  <2>4. Calm
    BY <1>0, <1>1, <1>4, CalmSteps
  <2>5. api[req].deleting
    BY <1>1, <1>4, <2>1 DEF FrameInv, WorkerInv, Agrees, SameLife, Finalized, Deleting
  <2>6. v = NoObj
    BY <2>1, <2>2, <2>5 DEF Agrees, SameLife
  <2>7. api'[req] = NoObj /\ \A j \in Keys \ {req} : api'[j] = api[j]
    BY <1>0, <1>1, <1>4, <2>6, PublishKeeps
  <2>8. Awaited'
    BY <2>7 DEF TidyInv, Awaited, Live
  <2>9. ~Settled(req)'
    BY <1>1, <2>1, <2>4, <2>7 DEF Calm
  <2> QED BY <1>1, <2>4, <2>8, <2>9 DEF TidyInv
<1> QED BY <1>2, <1>3, <1>4

\* A request that is taken off the queue reads the stored version or one that
\* another event will follow.
LEMMA TidyDequeue ==
  ASSUME NEW K, FrameInv(K), TidyInv, NEW k \in Keys, Dequeue(k)
  PROVE  /\ TidyInv'
         /\ \A j \in Keys : Settled(j)' =>
              api'[j] = api[j] /\ (j = k \/ Settled(j))
         /\ Settled(k)' /\ Live(k)' => req' = k /\ pc' = "finalizer"
<1>1. UNCHANGED <<api, cache, watch>> /\ queue' = queue \ {k} /\ pc = "idle"
  BY DEF Dequeue
<1>2. Awaited' /\ \A j \in Keys : Settled(j)' => api'[j] = api[j] /\ (j = k \/ Settled(j))
  BY <1>1 DEF TidyInv, Awaited, Live, Settled, Fresh
<1>3. Settled(k)' => cache[k] = api[k]
  BY <1>1, FrameTypes, FreshSeen DEF Settled, Fresh
<1>4. CASE cache[k] = NoObj
  BY <1>1, <1>2, <1>3, <1>4 DEF Dequeue, TidyInv, Live
<1>5. CASE cache[k] # NoObj
  <2>1. obj' = cache[k] /\ req' = k /\ marked' = cache[k].deleting /\ pc' = "finalizer"
    BY <1>5 DEF Dequeue, GetObject
  <2> QED BY <1>1, <1>2, <1>3, <1>5, <2>1 DEF TidyInv, Like, Live
<1> QED BY <1>4, <1>5

\* The end of a request.  A crash settles nothing that exists.
LEMMA TidyEnd ==
  ASSUME NEW K, FrameInv(K), TidyInv
  PROVE  /\ Return => /\ TidyInv' /\ Calm
                      /\ pc = "requeue" => \A k \in Keys : Settled(k)' => k # req
         /\ Crash => TidyInv' /\ \A k \in Keys : Settled(k)' => ~Live(k)'
<1>1. ASSUME Return
      PROVE  TidyInv' /\ Calm /\ (pc = "requeue" => \A k \in Keys : Settled(k)' => k # req)
  <2>1. UNCHANGED <<api, watch>> /\ queue \subseteq queue' /\ pc' = "idle"
        /\ (pc = "requeue" => req \in queue')
    BY <1>1 DEF Return, Reset
  <2>2. Calm /\ Awaited'
    BY <2>1, FrameTypes, CalmSteps DEF TidyInv, Awaited, Live
  <2>3. pc = "requeue" => \A k \in Keys : Settled(k)' => k # req
    BY <1>1, <2>1 DEF Return, Settled
  <2> QED BY <2>1, <2>2, <2>3 DEF TidyInv
<1>2. ASSUME Crash
      PROVE  TidyInv' /\ \A k \in Keys : Settled(k)' => ~Live(k)'
  <2>1. UNCHANGED api /\ queue' = {k \in Keys : api[k] # NoObj} /\ pc' = "idle"
    BY <1>2 DEF Crash, Relist, Reset
  <2> QED BY <2>1 DEF TidyInv, Awaited, Live, Settled
<1> QED BY <1>1, <1>2


\* Steps of others than the worker.
LEMMA TidyOutside ==
  ASSUME NEW K, IsKind(K), FrameInv(K), TidyInv, NEW N, \A v \in N : v \in K.objects /\ ~v.deleting,
         \/ \E k \in Keys :
              \/ \E v \in N : UserCreate(k, v)
              \/ \E s \in Specs : UserEdit(k, s)
              \/ UserDelete(k) \/ WatchEvent(k)
         \/ UNCHANGED <<api, watch, req, obj, marked, pc>> /\ queue \subseteq queue'
  PROVE  TidyInv' /\ Calm
<1>0. /\ api \in [Keys -> K.objects \cup {NoObj}] /\ watch \in [Keys -> Seq(K.objects \cup {NoObj})]
      /\ req \in Keys \cup {NoKey} /\ (pc # "idle" => req \in Keys)
  BY FrameTypes DEF FrameInv, WorkerInv, Types, FrameTypeOK
<1>1. ASSUME Calm, Awaited', UNCHANGED <<req, obj, marked, pc>>
      PROVE  TidyInv' /\ Calm
  BY <1>0, <1>1, TidyKept
<1>2. ASSUME NEW k \in Keys, NEW w \in K.objects \cup {NoObj}, UserWrite(k, w),
             w # NoObj /\ w.deleting => w.fin
      PROVE  TidyInv' /\ Calm
  <2>1. Publish(k, w) /\ UNCHANGED <<queue, req, obj, marked, pc>>
    BY <1>2 DEF UserWrite, localVars
  <2>2. Calm
    BY <1>0, <2>1, CalmSteps
  <2>3. api'[k] = w /\ \A j \in Keys \ {k} : api'[j] = api[j]
    BY <1>0, <2>1, PublishKeeps
  <2>4. Awaited'
    BY <1>2, <2>3 DEF TidyInv, Awaited, Live
  <2> QED BY <1>1, <2>1, <2>2, <2>4
<1>3. ASSUME NEW k \in Keys, NEW v \in N, UserCreate(k, v)
      PROVE  TidyInv' /\ Calm
  BY <1>2, <1>3 DEF UserCreate
<1>4. ASSUME NEW k \in Keys, NEW s \in Specs, UserEdit(k, s)
      PROVE  TidyInv' /\ Calm
  <2> DEFINE w == [api[k] EXCEPT !.spec = s]
  <2>1. UserWrite(k, w) /\ api[k] \in K.objects
    BY <1>0, <1>4 DEF UserEdit, Live
  <2>2. w \in K.objects /\ Agrees(w, api[k], K)
    BY <2>1 DEF IsKind
  <2> HIDE DEF w
  <2>3. w.deleting => w.fin
    BY <2>1, <2>2 DEF Agrees, SameLife, TidyInv, Awaited, Live
  <2> QED BY <1>2, <2>1, <2>2, <2>3
<1>5. ASSUME NEW k \in Keys, UserDelete(k)
      PROVE  TidyInv' /\ Calm
  <2> DEFINE w == IF api[k].fin THEN [api[k] EXCEPT !.deleting = TRUE] ELSE NoObj
  <2>1. UserWrite(k, w) /\ api[k] \in K.objects
    BY <1>0, <1>5 DEF UserDelete, Live
  <2>2. w \in K.objects \cup {NoObj} /\ (w # NoObj => w.fin)
    BY <2>1 DEF IsKind
  <2> HIDE DEF w
  <2> QED BY <1>2, <2>1, <2>2
<1>6. ASSUME NEW k \in Keys, WatchEvent(k)
      PROVE  TidyInv' /\ Calm
  <2>1. Deliver(k) /\ UNCHANGED <<req, obj, marked, pc>>
    BY <1>6 DEF WatchEvent, helperVars, localVars
  <2>2. UNCHANGED api /\ queue \subseteq queue'
    BY <2>1 DEF Deliver
  <2>3. Calm
    BY <1>0, <2>1, <2>2, CalmSteps
  <2>4. Awaited'
    BY <2>2 DEF TidyInv, Awaited, Live
  <2> QED BY <1>1, <2>1, <2>3, <2>4
<1>7. CASE UNCHANGED <<api, watch, req, obj, marked, pc>> /\ queue \subseteq queue'
  <2>1. Calm
    BY <1>0, <1>7, CalmSteps
  <2>2. Awaited'
    BY <1>7 DEF TidyInv, Awaited, Live
  <2> QED BY <1>1, <1>7, <2>1, <2>2
<1> QED BY <1>3, <1>4, <1>5, <1>6, <1>7

\* Calls of Reconcile that neither write to the API server nor end it.
LEMMA TidyWork ==
  ASSUME NEW K, FrameInv(K), TidyInv, UNCHANGED <<api, watch, queue, req, obj, marked>>,
         pc \notin {"idle", "fail", "requeue"}, pc' # "done"
  PROVE  TidyInv' /\ Calm
<1>1. req \in Keys
  BY DEF FrameInv, WorkerInv
<1>2. Calm /\ Awaited'
  BY FrameTypes, CalmSteps DEF TidyInv, Awaited, Live
<1> QED BY <1>1, <1>2, TidyKept


\* The worker has a request for k and has not yet done what it is to do.
Busy(k) == k = req /\ pc \notin {"idle", "ready", "done"}

\* When nothing is under way every resource is settled and nobody is busy.
LEMMA QuietIsSettled ==
  ASSUME Quiet, NEW k \in Keys
  PROVE  Settled(k) /\ ~Busy(k)
BY DEF Quiet, Settled, Busy
==============================================================================
