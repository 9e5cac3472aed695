----------------------------- MODULE HelperProofs -----------------------------
(***************************************************************************)
(* Facts about KubeApi and ControllerHelpers that hold for every kind of   *)
(* object: a set S of acceptable versions stays closed under the calls.    *)
(***************************************************************************)
EXTENDS ControllerHelpers, SequenceTheorems, TLAPS

\* Storing an acceptable version keeps the server and the watch acceptable.
LEMMA PublishKeeps ==
  ASSUME NEW S, NEW k \in Keys, NEW v \in S,
         api \in [Keys -> S], watch \in [Keys -> Seq(S)],
         Publish(k, v)
  PROVE  /\ api' \in [Keys -> S]
         /\ watch' \in [Keys -> Seq(S)]
         /\ api'[k] = v
         /\ \A j \in Keys \ {k} : api'[j] = api[j] /\ watch'[j] = watch[j]
<1>1. CASE v = api[k]
  BY <1>1 DEF Publish
<1>2. CASE v # api[k]
  <2>1. api' = [api EXCEPT ![k] = v] /\ watch' = [watch EXCEPT ![k] = Append(watch[k], v)]
    BY <1>2 DEF Publish
  <2>2. Append(watch[k], v) \in Seq(S)
    OBVIOUS
  <2> QED BY <2>1, <2>2
<1> QED BY <1>1, <1>2

\* A delivered event moves the cache to a version the server had stored.
LEMMA DeliverKeeps ==
  ASSUME NEW S, NEW k \in Keys,
         cache \in [Keys -> S], watch \in [Keys -> Seq(S)], queue \subseteq Keys,
         Deliver(k)
  PROVE  /\ cache' \in [Keys -> S]
         /\ watch' \in [Keys -> Seq(S)]
         /\ queue' \subseteq Keys
         /\ UNCHANGED api
BY DEF Deliver

\* A restart only shows the cache versions the server stores.
LEMMA RelistKeeps ==
  ASSUME NEW S, api \in [Keys -> S], Relist
  PROVE  /\ cache' \in [Keys -> S]
         /\ watch' \in [Keys -> Seq(S)]
         /\ queue' \subseteq Keys
         /\ UNCHANGED api
BY DEF Relist

\* A fault keeps the count of faults a number.
LEMMA FaultKeeps ==
  ASSUME NEW kind, faults \in Nat, Fault(kind)
  PROVE  faults' \in Nat
BY DEF Fault

\* UpdateStatus writes v or nothing, and the reconciler's copy stays acceptable.
LEMMA UpdateStatusKeeps ==
  ASSUME NEW S, NoObj \in S, NEW v, NEW ok \in BOOLEAN,
         req \in Keys, obj \in S, fresh \in BOOLEAN, faults \in Nat,
         api \in [Keys -> S], watch \in [Keys -> Seq(S)],
         cache[req] # NoObj => v \in S \ {NoObj},
         obj # NoObj,
         UpdateStatus(v, ok)
  PROVE  /\ api' \in [Keys -> S]
         /\ watch' \in [Keys -> Seq(S)]
         /\ obj' \in S \ {NoObj}
         /\ fresh' \in BOOLEAN
         /\ faults' \in Nat
<1>1. CASE cache[req] = NoObj
  BY <1>1 DEF UpdateStatus
<1>2. CASE cache[req] # NoObj /\ UNCHANGED <<api, watch>>
  BY <1>2, FaultKeeps DEF UpdateStatus, Fresh
<1>3. CASE cache[req] # NoObj /\ Publish(req, v)
  <2>1. v \in S
    BY <1>3
  <2>2. api' \in [Keys -> S] /\ watch' \in [Keys -> Seq(S)]
    BY <1>3, <2>1, PublishKeeps
  <2>3. obj' = v /\ fresh' \in BOOLEAN /\ faults' \in Nat
    BY <1>3, FaultKeeps DEF UpdateStatus, Fresh
  <2> QED BY <1>3, <2>2, <2>3
<1> QED BY <1>1, <1>2, <1>3 DEF UpdateStatus

\* r.Update stores v or nothing, and the reconciler's copy stays acceptable.
LEMMA UpdateObjectKeeps ==
  ASSUME NEW S, NEW v, NEW ok \in BOOLEAN,
         req \in Keys, obj \in S \ {NoObj}, fresh \in BOOLEAN, faults \in Nat,
         api \in [Keys -> S], watch \in [Keys -> Seq(S)],
         fresh => v \in S,
         UpdateObject(v, ok)
  PROVE  /\ api' \in [Keys -> S]
         /\ watch' \in [Keys -> Seq(S)]
         /\ obj' \in S \ {NoObj}
         /\ fresh' \in BOOLEAN
         /\ faults' \in Nat
<1>1. CASE UNCHANGED <<api, watch, obj, fresh>>
  BY <1>1, FaultKeeps DEF UpdateObject
<1>2. CASE fresh /\ Publish(req, v)
  <2>1. api' \in [Keys -> S] /\ watch' \in [Keys -> Seq(S)]
    BY <1>2, PublishKeeps
  <2>2. obj' \in S \ {NoObj} /\ fresh' \in BOOLEAN /\ faults' \in Nat
    BY <1>2, FaultKeeps DEF UpdateObject
  <2> QED BY <2>1, <2>2
<1> QED BY <1>1, <1>2 DEF UpdateObject

\* The last undelivered version is the stored one; with none left the cache
\* has it.
CacheFollows ==
  \A k \in Keys : IF watch[k] = << >> THEN cache[k] = api[k]
                  ELSE watch[k][Len(watch[k])] = api[k]

\* A fresh copy is a copy of an object that exists.
FreshExists == fresh => req \in Keys /\ api[req] # NoObj

\* A stored version is what the cache will end with.
LEMMA PublishFollows ==
  ASSUME NEW S, NEW k \in Keys, NEW v \in S,
         api \in [Keys -> S], watch \in [Keys -> Seq(S)],
         Publish(k, v), UNCHANGED cache, CacheFollows
  PROVE  CacheFollows'
<1>1. CASE v = api[k]
  BY <1>1 DEF Publish, CacheFollows
<1>2. CASE v # api[k]
  <2>1. api' = [api EXCEPT ![k] = v] /\ watch' = [watch EXCEPT ![k] = Append(watch[k], v)]
    BY <1>2 DEF Publish
  <2>2. watch[k] \in Seq(S)
    OBVIOUS
  <2>3. /\ Append(watch[k], v) # << >>
        /\ Append(watch[k], v)[Len(Append(watch[k], v))] = v
    BY <2>2
  <2>4. watch'[k] = Append(watch[k], v) /\ api'[k] = v
    BY <2>1
  <2>5. \A j \in Keys \ {k} : watch'[j] = watch[j] /\ api'[j] = api[j] /\ cache'[j] = cache[j]
    BY <2>1
  <2> QED BY <2>3, <2>4, <2>5 DEF CacheFollows
<1> QED BY <1>1, <1>2

\* Removing the head of a sequence keeps its last element, or leaves nothing.
LEMMA TailLast ==
  ASSUME NEW S, NEW s \in Seq(S), s # << >>
  PROVE  IF Tail(s) = << >> THEN Head(s) = s[Len(s)]
         ELSE Tail(s)[Len(Tail(s))] = s[Len(s)]
<1>1. Len(s) \in Nat /\ Len(s) # 0
  BY EmptySeq, SMT
<1>2. Tail(s) \in Seq(S) /\ Len(Tail(s)) = Len(s) - 1
  BY HeadTailProperties, Zenon
<1>3. CASE Len(s) = 1
  <2>1. Len(Tail(s)) = 0
    BY <1>2, <1>3
  <2>2. Tail(s) = << >>
    BY <2>1, <1>2, EmptySeq, SMT
  <2> QED BY <2>2, <1>3
<1>4. CASE Len(s) # 1
  <2>1. Len(Tail(s)) \in 1 .. Len(Tail(s)) /\ Len(Tail(s)) # 0
    BY <1>1, <1>2, <1>4
  <2>2. Tail(s)[Len(Tail(s))] = s[Len(Tail(s)) + 1]
    BY <2>1, HeadTailProperties, Zenon
  <2>3. Len(Tail(s)) + 1 = Len(s)
    BY <1>1, <1>2
  <2>4. Tail(s) # << >>
    BY <2>1, EmptySeq, Zenon
  <2> QED BY <2>2, <2>3, <2>4
<1> QED BY <1>3, <1>4

\* A watch event brings the cache nearer to the server and loses no version.
LEMMA DeliverFollows ==
  ASSUME NEW S, NEW k \in Keys,
         cache \in [Keys -> S], watch \in [Keys -> Seq(S)],
         Deliver(k), CacheFollows
  PROVE  CacheFollows'
<1>1. /\ watch[k] # << >> /\ watch[k] \in Seq(S)
      /\ cache'[k] = Head(watch[k]) /\ watch'[k] = Tail(watch[k]) /\ api' = api
      /\ \A j \in Keys \ {k} : watch'[j] = watch[j] /\ cache'[j] = cache[j]
  BY DEF Deliver
<1>2. watch[k][Len(watch[k])] = api[k]
  BY <1>1 DEF CacheFollows
<1>3. IF Tail(watch[k]) = << >> THEN Head(watch[k]) = watch[k][Len(watch[k])]
      ELSE Tail(watch[k])[Len(Tail(watch[k]))] = watch[k][Len(watch[k])]
  BY <1>1, TailLast
<1>4. IF watch'[k] = << >> THEN cache'[k] = api'[k]
      ELSE watch'[k][Len(watch'[k])] = api'[k]
  BY <1>1, <1>2, <1>3, Zenon
<1> QED BY <1>1, <1>4 DEF CacheFollows

\* The retry loop of UpdateStatus keeps the cache following the server.
LEMMA UpdateStatusFollows ==
  ASSUME NEW S, NEW v, NEW ok \in BOOLEAN, req \in Keys,
         api \in [Keys -> S], watch \in [Keys -> Seq(S)],
         cache[req] # NoObj => v \in S \ {NoObj},
         UpdateStatus(v, ok), UNCHANGED <<cache, req>>, CacheFollows, FreshExists
  PROVE  CacheFollows' /\ FreshExists'
<1>1. CASE UNCHANGED <<api, watch>>
  <2>1. CacheFollows'
    BY <1>1 DEF CacheFollows
  <2>2. cache[req] # NoObj /\ Fresh(req) => api[req] # NoObj
    BY DEF CacheFollows, Fresh
  <2>3. FreshExists'
    BY <1>1, <2>2 DEF UpdateStatus, FreshExists
  <2> QED BY <2>1, <2>3
<1>2. CASE cache[req] # NoObj /\ Publish(req, v)
  <2>1. CacheFollows' /\ api'[req] = v
    BY <1>2, PublishFollows, PublishKeeps
  <2> QED BY <1>2, <2>1 DEF FreshExists
<1> QED BY <1>1, <1>2 DEF UpdateStatus

\* r.Update keeps the cache following the server.
LEMMA UpdateObjectFollows ==
  ASSUME NEW S, NEW v, NEW ok \in BOOLEAN, req \in Keys,
         api \in [Keys -> S], watch \in [Keys -> Seq(S)],
         fresh => v \in S,
         UpdateObject(v, ok), UNCHANGED <<cache, req>>, CacheFollows, FreshExists
  PROVE  CacheFollows' /\ FreshExists'
<1>1. CASE UNCHANGED <<api, watch, fresh>>
  BY <1>1 DEF CacheFollows, FreshExists
<1>2. CASE fresh /\ Publish(req, v) /\ (fresh' => v # NoObj)
  <2>1. CacheFollows' /\ api'[req] = v
    BY <1>2, PublishFollows, PublishKeeps
  <2> QED BY <1>2, <2>1 DEF FreshExists
<1> QED BY <1>1, <1>2 DEF UpdateObject

\* After a restart the cache has caught up.
LEMMA RelistFollows ==
  ASSUME Relist
  PROVE  CacheFollows'
BY DEF Relist, CacheFollows
-----------------------------------------------------------------------------
(* The order of versions.  A worker decides on a cached version, so what it *)
(* knows of the stored one is what no later version has taken back.         *)

\* The versions of k that the cache returns now or will return.
Seen(k) == {cache[k]} \cup {watch[k][i] : i \in 1 .. Len(watch[k])}

Finalized(o) == o # NoObj /\ o.fin

Deleting(o) == o # NoObj /\ o.deleting

\* Version x came before the stored version a: the finalizer is only dropped,
\* and only added again, after the cache has seen the deletion.
Before(x, a) ==
  /\ Finalized(x) /\ ~Deleting(x) => Finalized(a)
  /\ Deleting(x) /\ Finalized(a) => Deleting(a)

SeenInv == \A k \in Keys : \A x \in Seen(k) : Before(x, api[k])

\* A version that changes neither the finalizer nor the deletion mark.
SameLife(v, o) == v # NoObj /\ o # NoObj /\ v.fin = o.fin /\ v.deleting = o.deleting

\* Once the cache has caught up there is a single version left to see.
LEMMA FreshSeen ==
  ASSUME CacheFollows, NEW k \in Keys, Fresh(k)
  PROVE  cache[k] = api[k] /\ Seen(k) = {api[k]}
<1>1. watch[k] = << >> /\ cache[k] = api[k]
  BY DEF Fresh, CacheFollows
<1> QED BY <1>1 DEF Seen

\* The stored version is the last one that the cache will see.
LEMMA StoredIsSeen ==
  ASSUME NEW S, watch \in [Keys -> Seq(S)], CacheFollows, NEW k \in Keys
  PROVE  api[k] \in Seen(k)
<1>1. CASE watch[k] = << >>
  BY <1>1 DEF CacheFollows, Seen
<1>2. CASE watch[k] # << >>
  <2>1. watch[k] \in Seq(S) /\ Len(watch[k]) \in Nat \ {0}
    BY <1>2, EmptySeq, SMT
  <2>2. watch[k][Len(watch[k])] = api[k] /\ Len(watch[k]) \in 1 .. Len(watch[k])
    BY <1>2, <2>1 DEF CacheFollows
  <2> QED BY <2>2 DEF Seen
<1> QED BY <1>1, <1>2

\* A write adds one version to those the cache will see of its key.
LEMMA PublishAdds ==
  ASSUME NEW S, NEW k \in Keys, NEW v \in S,
         api \in [Keys -> S], watch \in [Keys -> Seq(S)], CacheFollows,
         Publish(k, v), UNCHANGED cache
  PROVE  /\ Seen(k)' \subseteq Seen(k) \cup {v}
         /\ \A j \in Keys \ {k} : Seen(j)' = Seen(j)
<1>1. \A j \in Keys \ {k} : api'[j] = api[j] /\ watch'[j] = watch[j]
  BY PublishKeeps
<1>2. \A j \in Keys \ {k} : Seen(j)' = Seen(j)
  BY <1>1 DEF Seen
<1>3. CASE v = api[k]
  BY <1>2, <1>3 DEF Publish, Seen
<1>4. CASE v # api[k]
  <2>1. watch'[k] = Append(watch[k], v) /\ watch[k] \in Seq(S)
    BY <1>4 DEF Publish
  <2>2. /\ Len(watch'[k]) = Len(watch[k]) + 1
        /\ \A i \in 1 .. Len(watch[k]) + 1 :
             watch'[k][i] = IF i \in 1 .. Len(watch[k]) THEN watch[k][i] ELSE v
    BY <2>1
  <2>3. Len(watch[k]) \in Nat
    BY <2>1
  <2> QED BY <1>2, <2>2, <2>3 DEF Seen
<1> QED BY <1>3, <1>4

\* A write keeps the order of versions if the new version comes after every
\* version that the cache has not seen replaced.
LEMMA PublishSeen ==
  ASSUME NEW S, NEW k \in Keys, NEW v \in S,
         api \in [Keys -> S], watch \in [Keys -> Seq(S)], CacheFollows,
         Publish(k, v), UNCHANGED cache,
         SeenInv, \A x \in Seen(k) : Before(x, v)
  PROVE  SeenInv'
<1>1. api'[k] = v /\ \A j \in Keys \ {k} : api'[j] = api[j]
  BY PublishKeeps
<1>2. Seen(k)' \subseteq Seen(k) \cup {v} /\ \A j \in Keys \ {k} : Seen(j)' = Seen(j)
  BY PublishAdds
<1>3. Before(v, v)
  BY DEF Before
<1>4. \A x \in Seen(k)' : Before(x, api'[k])
  BY <1>1, <1>2, <1>3
<1> QED BY <1>1, <1>2, <1>4 DEF SeenInv

\* A watch event shows the cache a version that was already on its way.
LEMMA DeliverSeen ==
  ASSUME NEW S, NEW k \in Keys,
         cache \in [Keys -> S], watch \in [Keys -> Seq(S)], Deliver(k)
  PROVE  /\ \A j \in Keys : Seen(j)' \subseteq Seen(j)
         /\ SeenInv => SeenInv'
<1>1. /\ watch[k] # << >> /\ watch[k] \in Seq(S)
      /\ cache'[k] = Head(watch[k]) /\ watch'[k] = Tail(watch[k]) /\ api' = api
      /\ \A j \in Keys \ {k} : watch'[j] = watch[j] /\ cache'[j] = cache[j]
  BY DEF Deliver
<1>2. Len(watch[k]) \in Nat \ {0}
  BY <1>1, EmptySeq, SMT
<1>3. /\ Head(watch[k]) = watch[k][1]
      /\ Len(Tail(watch[k])) = Len(watch[k]) - 1
      /\ \A i \in 1 .. Len(Tail(watch[k])) : Tail(watch[k])[i] = watch[k][i + 1]
  BY <1>1, HeadTailProperties
<1>4. Seen(k)' \subseteq Seen(k)
  <2>1. cache'[k] \in Seen(k)
    BY <1>1, <1>2, <1>3 DEF Seen
  <2>2. \A i \in 1 .. Len(watch'[k]) : watch'[k][i] \in Seen(k)
    BY <1>1, <1>2, <1>3 DEF Seen
  <2> QED BY <2>1, <2>2 DEF Seen
<1>5. \A j \in Keys \ {k} : Seen(j)' = Seen(j)
  BY <1>1 DEF Seen
<1>6. \A j \in Keys : Seen(j)' \subseteq Seen(j)
  BY <1>4, <1>5
<1> QED BY <1>1, <1>6 DEF SeenInv

\* After a restart the cache holds the stored versions and nothing else.
LEMMA RelistSeen ==
  ASSUME Relist
  PROVE  SeenInv' /\ \A k \in Keys : Seen(k)' = {api[k]}
<1>1. \A k \in Keys : Seen(k)' = {api[k]} /\ api' = api
  BY DEF Relist, Seen
<1> QED BY <1>1 DEF SeenInv, Before
==============================================================================
