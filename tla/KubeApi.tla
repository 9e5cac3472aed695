------------------------------- MODULE KubeApi -------------------------------
(***************************************************************************)
(* The Kubernetes API server and the informer cache of controller-runtime, *)
(* as the six reconcilers of this operator use them for the objects of one *)
(* custom resource kind.  Reads (r.Get, r.List) are served by the cache,   *)
(* writes (r.Update, r.Status().Update) go to the API server, and every    *)
(* version the server stores reaches the cache later, in order, through a  *)
(* watch whose events also put the object's key on the work queue.         *)
(***************************************************************************)
EXTENDS Naturals, Sequences

CONSTANTS Keys,     \* names of the custom resources
          NoObj,    \* "NotFound": no object under a key
          MaxLag    \* bound: versions a watch may have undelivered

ASSUME MaxLagAssumption == MaxLag \in Nat \ {0}

VARIABLES api,      \* api[k]: the version the API server stores
          cache,    \* cache[k]: the version the informer cache returns
          watch,    \* watch[k]: stored versions not yet delivered to the cache
          queue     \* keys waiting in the controller's work queue

kubeVars == <<api, cache, watch, queue>>

\* The cache has caught up with the server: an object read now carries the
\* current resourceVersion, so an update of it is not a conflict.
Fresh(k) == watch[k] = << >>

\* The server stores version v of k.  A write that changes nothing keeps the
\* resourceVersion and sends no event.
Publish(k, v) ==
  IF v = api[k]
  THEN UNCHANGED <<api, watch>>
  ELSE /\ Len(watch[k]) < MaxLag
       /\ api' = [api EXCEPT ![k] = v]
       /\ watch' = [watch EXCEPT ![k] = Append(@, v)]

\* One watch event: the cache moves to the next version, the key is queued.
Deliver(k) ==
  /\ watch[k] # << >>
  /\ cache' = [cache EXCEPT ![k] = Head(watch[k])]
  /\ watch' = [watch EXCEPT ![k] = Tail(@)]
  /\ queue' = queue \cup {k}
  /\ UNCHANGED api

\* A new process lists everything before its first reconciliation.
Relist ==
  /\ cache' = api
  /\ watch' = [k \in Keys |-> << >>]
  /\ queue' = {k \in Keys : api[k] # NoObj}
  /\ UNCHANGED api
==============================================================================
