--------------------------- MODULE ControllerHelpers ---------------------------
(***************************************************************************)
(* internal/controller/helpers.go: the calls every reconciler makes on its *)
(* custom resource.  One worker goroutine per kind holds the object of the *)
(* request it is processing; `fresh' says that the object still carries    *)
(* the server's resourceVersion.  An object has at least the fields        *)
(* deleting (DeletionTimestamp set) and fin (the operator's finalizer).    *)
(*                                                                         *)
(* Each operator takes the result its caller sees: ok = (err == nil).      *)
(***************************************************************************)
EXTENDS KubeApi

CONSTANTS NoKey,     \* the worker is processing no request
          Faults,    \* the kinds of faults an instance may suffer
          MaxFaults  \* bound: how many faults happen in a behaviour

ASSUME MaxFaultsAssumption == MaxFaults \in Nat

ASSUME KeysAssumption == NoKey \notin Keys

VARIABLES req,       \* the key being reconciled
          obj,       \* the reconciler's copy of the custom resource
          fresh,     \* obj carries the resourceVersion of api[req]
          faults     \* faults suffered so far

helperVars == <<req, obj, fresh, faults>>

\* One fault of the given kind happens now.
Fault(kind) ==
  /\ kind \in Faults
  /\ faults < MaxFaults
  /\ faults' = faults + 1

\* r.Get(ctx, req.NamespacedName, obj) of an object the cache has.
GetObject(k) ==
  /\ obj' = cache[k]
  /\ fresh' = Fresh(k)

\* What r.Update stores when the server receives object o: status is ignored,
\* and an object that is being deleted disappears with its last finalizer.
WithFinalizer(o) == [o EXCEPT !.fin = TRUE]

WithoutFinalizer(o) == IF o.deleting THEN NoObj ELSE [o EXCEPT !.fin = FALSE]

\* r.Update with v as the version to store: stored, refused because obj is
\* stale or gone, failed on the way, or stored with the answer lost.
UpdateObject(v, ok) ==
  \/ /\ ok
     /\ fresh
     /\ Publish(req, v)
     /\ obj' = IF v = NoObj THEN obj ELSE v
     /\ fresh' = (v # NoObj)
     /\ UNCHANGED faults
  \/ /\ ~ok
     /\ ~fresh
     /\ UNCHANGED <<api, watch, obj, fresh, faults>>
  \/ /\ ~ok
     /\ Fault("api")
     /\ UNCHANGED <<api, watch, obj, fresh>>
  \/ /\ ~ok
     /\ fresh
     /\ Fault("apiLost")
     /\ Publish(req, v)
     /\ fresh' = FALSE
     /\ UNCHANGED obj

\* Mutant: the finalizer is only set on the reconciler's copy.
AddFinalizerLocally(o, ok) ==
  /\ ok
  /\ obj' = WithFinalizer(obj)
  /\ UNCHANGED <<api, watch, fresh, faults>>

\* Under the optimistic lock the worker's copy equals the stored object; o is
\* that object as the server receives it, once encoded by the worker.
AddFinalizer(o, ok) ==
  IF obj.fin
  THEN ok /\ UNCHANGED <<api, watch, obj, fresh, faults>>
  ELSE UpdateObject(WithFinalizer(o), ok)

RemoveFinalizer(o, ok) ==
  IF obj.fin
  THEN UpdateObject(WithoutFinalizer(o), ok)
  ELSE ok /\ UNCHANGED <<api, watch, obj, fresh, faults>>

\* UpdateStatus: read the object from the cache, mutate its status into v,
\* write it, and start again on a conflict, at most five times.  The loop
\* ends when the cache has caught up (first disjunct), when the object is
\* gone from the cache, when the cache is still behind after the last
\* attempt ("lag"), or on an error that is not a conflict.  In every case
\* but the second the reconciler's copy is now the mutated cache version.
UpdateStatus(v, ok) ==
  \/ /\ ok
     /\ cache[req] # NoObj
     /\ Fresh(req)
     /\ Publish(req, v)
     /\ obj' = v
     /\ fresh' = TRUE
     /\ UNCHANGED faults
  \/ /\ ~ok
     /\ cache[req] = NoObj
     /\ UNCHANGED <<api, watch, obj, fresh, faults>>
  \/ /\ ~ok
     /\ cache[req] # NoObj
     /\ ~Fresh(req)
     /\ Fault("lag")
     /\ obj' = v
     /\ fresh' = FALSE
     /\ UNCHANGED <<api, watch>>
  \/ /\ ~ok
     /\ cache[req] # NoObj
     /\ Fault("api")
     /\ obj' = v
     /\ fresh' = Fresh(req)
     /\ UNCHANGED <<api, watch>>
  \/ /\ ~ok
     /\ cache[req] # NoObj
     /\ Fresh(req)
     /\ Fault("apiLost")
     /\ Publish(req, v)
     /\ obj' = v
     /\ fresh' = (v = api[req])
==============================================================================
