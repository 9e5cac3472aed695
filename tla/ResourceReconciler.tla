-------------------------- MODULE ResourceReconciler --------------------------
(***************************************************************************)
(* The frame that the AccessList, Stream, CustomCertificate and            *)
(* LetsEncryptCertificate reconcilers have in common: one worker goroutine *)
(* takes a key, adds the finalizer, marks the resource, builds an NPM      *)
(* client and then either finalizes the resource or creates, finds or      *)
(* updates its object in NPM.  Each call to the API server or to NPM is an *)
(* action.  The reconcilers' own modules extend this one with the calls in *)
(* which they differ; what an action of this frame takes from a kind is    *)
(* its parameter.                                                          *)
(***************************************************************************)
EXTENDS ControllerHelpers, FiniteSets

CONSTANTS Specs,          \* the specs users may write
          NoId,           \* status.id is nil
          NoRemote,       \* no object in NPM under an id
          NoInput,        \* the worker has read nothing for a request body
          MaxRemote,      \* bound: objects ever created in NPM
          MaxOps,         \* bound: user and administrator operations
          UserOps         \* the kinds of operations of an instance

ASSUME FrameAssumption ==
  /\ MaxRemote \in Nat \ {0}
  /\ MaxOps \in Nat
  /\ NoId \notin Nat

Ids == 1 .. MaxRemote

ConditionTypes == {"Reconciling", "Error", "Ready"}

VARIABLES pc,        \* where Reconcile is
          marked,    \* isMarkedToBeDeleted
          rid,       \* id of the object found in or created by NPM, or NoId
          input,     \* what the worker has read for the request body
          remote,    \* remote[i]: the object with id i in NPM, or NoRemote
          nextId,    \* NPM never reuses an id
          maker,     \* history: the resource object i was created for
          abandoned, \* history: the objects whose deletion failed, or was left
                     \* out because the worker had no client
          ops        \* user and administrator operations so far

localVars  == <<pc, marked, rid, input>>
remoteVars == <<remote, nextId, maker, abandoned>>
vars == <<kubeVars, helperVars, localVars, remoteVars, ops>>

Alive(i) == remote[i] # NoRemote

Live(k) == api[k] # NoObj

SetCondition(o, type) == [o EXCEPT !.conds = @ \cup {type}]
-----------------------------------------------------------------------------
(* NPM's REST interface: done, refused, failed, or done with the answer     *)
(* lost.                                                                    *)

Post(k, v) ==
  /\ nextId \in Ids
  /\ remote' = [remote EXCEPT ![nextId] = v]
  /\ nextId' = nextId + 1
  /\ maker' = [maker EXCEPT ![nextId] = k]
  /\ UNCHANGED abandoned

CreateRemote(v, refused, ok) ==
  \/ ok /\ ~refused /\ Post(req, v) /\ UNCHANGED faults
  \/ ~ok /\ refused /\ UNCHANGED <<remoteVars, faults>>
  \/ ~ok /\ Fault("npm") /\ UNCHANGED remoteVars
  \/ ~ok /\ ~refused /\ Post(req, v) /\ Fault("lost")

Put(i, v) ==
  remote' = [remote EXCEPT ![i] = v] /\ UNCHANGED <<nextId, maker, abandoned>>

UpdateRemote(i, v, ok) ==
  \/ ok /\ Alive(i) /\ Put(i, v) /\ UNCHANGED faults
  \/ ~ok /\ ~Alive(i) /\ UNCHANGED <<remoteVars, faults>>
  \/ ~ok /\ Fault("npm") /\ UNCHANGED remoteVars
  \/ ~ok /\ Alive(i) /\ Put(i, v) /\ Fault("lost")
-----------------------------------------------------------------------------
(* UpdateStatus, and the server that refuses a status without a field that  *)
(* the CRD requires: not a conflict, so the loop ends at once.              *)
(* accepted: the status of v has the fields that the CRD of its kind        *)
(* requires.                                                                *)
StatusWrite(v, accepted, ok) ==
  \/ accepted /\ UpdateStatus(v, ok)
  \/ /\ ~accepted
     /\ ~ok
     /\ IF cache[req] = NoObj
        THEN UNCHANGED <<obj, fresh>>
        ELSE obj' = v /\ fresh' = Fresh(req)
     /\ UNCHANGED <<api, watch, faults>>

\* What a status write makes of the cached version; nothing is cached once the
\* object is gone, and then the write fails before v is looked at.
Cached == IF cache[req] = NoObj THEN obj ELSE cache[req]
-----------------------------------------------------------------------------
(* Reconcile                                                                *)

\* r.Get: a key whose object is not in the cache is dropped.
Dequeue(k) ==
  /\ pc = "idle"
  /\ k \in queue
  /\ queue' = queue \ {k}
  /\ IF cache[k] = NoObj
     THEN UNCHANGED <<req, obj, fresh, marked, pc>>
     ELSE /\ GetObject(k)
          /\ req' = k
          /\ marked' = cache[k].deleting
          /\ pc' = "finalizer"
  /\ UNCHANGED <<api, cache, watch, faults, rid, input, remoteVars, ops>>

\* Mutant: a finalizer that could not be stored does not stop Reconcile.
EnsureFinalizerIgnoresError(e) ==
  /\ pc = "finalizer"
  /\ \/ marked /\ UNCHANGED <<api, watch, obj, fresh, faults>>
     \/ ~marked /\ \E ok \in BOOLEAN : AddFinalizer(e, ok)
  /\ pc' = "reconciling"
  /\ UNCHANGED <<cache, queue, req, marked, rid, input, remoteVars, ops>>

\* e: the stored object as the server receives it from the worker.
EnsureFinalizer(e) ==
  /\ pc = "finalizer"
  /\ \/ marked /\ pc' = "reconciling" /\ UNCHANGED <<api, watch, obj, fresh, faults>>
     \/ /\ ~marked
        /\ \E ok \in BOOLEAN :
             /\ AddFinalizer(e, ok)
             /\ pc' = IF ok THEN "reconciling" ELSE "requeue"
  /\ UNCHANGED <<cache, queue, req, marked, rid, input, remoteVars, ops>>

\* accepted, here and below: conditions may be added to the cached status.
MarkReconciling(accepted) ==
  /\ pc = "reconciling"
  /\ pc' = "client"
  /\ IF obj.conds = {}
     THEN \E ok \in BOOLEAN : StatusWrite(SetCondition(Cached, "Reconciling"), accepted, ok)
     ELSE UNCHANGED <<api, watch, obj, fresh, faults>>
  /\ UNCHANGED <<cache, queue, req, marked, rid, input, remoteVars, ops>>

\* Without a client a marked resource goes straight to the finalizer removal.
\* owned: the status records an object that finalization deletes.
InitNginxPMClient(owned) ==
  /\ pc = "client"
  /\ \/ ~marked /\ pc' = "find" /\ UNCHANGED <<abandoned, faults>>
     \/ ~marked /\ Fault("token") /\ pc' = "fail" /\ UNCHANGED abandoned
     \/ /\ marked
        /\ pc' = IF ~obj.fin THEN "done" ELSE IF owned THEN "delete" ELSE "removeFinalizer"
        /\ UNCHANGED <<abandoned, faults>>
     \/ /\ marked
        /\ Fault("token")
        /\ pc' = "removeFinalizer"
        /\ abandoned' = IF owned THEN abandoned \cup {obj.id} ELSE abandoned
  /\ UNCHANGED <<kubeVars, req, obj, fresh, marked, rid, input, remote, nextId, maker, ops>>

\* Mutant: nothing is deleted in NPM.
DeleteRemoteForgotten ==
  /\ pc = "delete"
  /\ pc' = "removeFinalizer"
  /\ UNCHANGED <<kubeVars, helperVars, marked, rid, input, remoteVars, ops>>

\* An object that is gone or a failed request is only logged.
DeleteRemote ==
  /\ pc = "delete"
  /\ pc' = "removeFinalizer"
  /\ \/ /\ remote' = [remote EXCEPT ![obj.id] = NoRemote]
        /\ UNCHANGED <<abandoned, faults>>
     \/ /\ Fault("delete")
        /\ abandoned' = abandoned \cup {obj.id}
        /\ UNCHANGED remote
  /\ UNCHANGED <<kubeVars, req, obj, fresh, marked, rid, input, nextId, maker, ops>>

\* Mutant: the finalizer is taken off whatever the server stores by now.
DropFinalizerUnlocked(e) ==
  /\ pc = "removeFinalizer"
  /\ IF obj.fin /\ api[req] # NoObj
     THEN Publish(req, WithoutFinalizer(e))
     ELSE UNCHANGED <<api, watch>>
  /\ pc' = "done"
  /\ UNCHANGED <<cache, queue, helperVars, marked, rid, input, remoteVars, ops>>

\* Unlike the ProxyHost reconciler, no version is read again: the object that
\* was finalized is the one whose finalizer is removed.
DropFinalizer(e) ==
  /\ pc = "removeFinalizer"
  /\ \E ok \in BOOLEAN :
       /\ RemoveFinalizer(e, ok)
       /\ pc' = IF ok THEN "done" ELSE "requeue"
  /\ UNCHANGED <<cache, queue, req, marked, rid, input, remoteVars, ops>>

\* The last status write of a reconciliation; its result is ignored.
MarkReady(accepted) ==
  /\ pc = "ready"
  /\ \E ok \in BOOLEAN : StatusWrite(SetCondition(Cached, "Ready"), accepted, ok)
  /\ pc' = "done"
  /\ UNCHANGED <<cache, queue, req, marked, rid, input, remoteVars, ops>>

MarkError(accepted) ==
  /\ pc = "fail"
  /\ \E ok \in BOOLEAN : StatusWrite(SetCondition(Cached, "Error"), accepted, ok)
  /\ pc' = "requeue"
  /\ UNCHANGED <<cache, queue, req, marked, rid, input, remoteVars, ops>>

Reset ==
  /\ pc' = "idle"
  /\ req' = NoKey
  /\ obj' = NoObj
  /\ fresh' = FALSE
  /\ marked' = FALSE
  /\ rid' = NoId
  /\ input' = NoInput

\* Mutant: an error is not returned to controller-runtime.
ReturnWithoutRequeue ==
  /\ pc \in {"done", "requeue"}
  /\ Reset
  /\ UNCHANGED <<api, cache, watch, queue, faults, remoteVars, ops>>

\* Reconcile returns; an error queues the key again.
Return ==
  /\ pc \in {"done", "requeue"}
  /\ queue' = IF pc = "requeue" THEN queue \cup {req} ELSE queue
  /\ Reset
  /\ UNCHANGED <<api, cache, watch, faults, remoteVars, ops>>
-----------------------------------------------------------------------------
(* The environment                                                          *)

Op(kind) ==
  /\ kind \in UserOps
  /\ ops < MaxOps
  /\ ops' = ops + 1

\* A user's write makes the copy the worker holds of that key stale.
UserWrite(k, v) ==
  /\ v # api[k]
  /\ Publish(k, v)
  /\ fresh' = (fresh /\ req # k)
  /\ UNCHANGED <<cache, queue, req, obj, faults, localVars, remoteVars>>

UserCreate(k, v) == Op("create") /\ ~Live(k) /\ UserWrite(k, v)

UserEdit(k, s) == Op("edit") /\ Live(k) /\ UserWrite(k, [api[k] EXCEPT !.spec = s])

UserDelete(k) ==
  /\ Op("delete")
  /\ Live(k)
  /\ ~api[k].deleting
  /\ UserWrite(k, IF api[k].fin THEN [api[k] EXCEPT !.deleting = TRUE] ELSE NoObj)

\* An event of a watched Token, Service, Secret or certificate, or the
\* periodic resynchronisation of the cache: the key is queued again.
Trigger(k) ==
  /\ "trigger" \in UserOps
  /\ cache[k] # NoObj
  /\ k \notin queue
  /\ queue' = queue \cup {k}
  /\ UNCHANGED <<api, cache, watch, helperVars, localVars, remoteVars, ops>>

AdminRemove(i) ==
  /\ Op("adminRemove")
  /\ Alive(i)
  /\ remote' = [remote EXCEPT ![i] = NoRemote]
  /\ UNCHANGED <<kubeVars, helperVars, localVars, nextId, maker, abandoned>>

\* The operator's process ends and another one starts.
Crash ==
  /\ Fault("crash")
  /\ Relist
  /\ Reset
  /\ UNCHANGED <<remoteVars, ops>>

WatchEvent(k) ==
  /\ Deliver(k)
  /\ UNCHANGED <<helperVars, localVars, remoteVars, ops>>

FrameInit ==
  /\ api = [k \in Keys |-> NoObj]
  /\ cache = [k \in Keys |-> NoObj]
  /\ watch = [k \in Keys |-> << >>]
  /\ queue = {}
  /\ pc = "idle" /\ req = NoKey /\ obj = NoObj /\ fresh = FALSE
  /\ marked = FALSE /\ rid = NoId /\ input = NoInput
  /\ remote = [i \in Ids |-> NoRemote]
  /\ nextId = 1
  /\ maker = [i \in Ids |-> NoKey]
  /\ abandoned = {}
  /\ faults = 0 /\ ops = 0

\* Nothing is under way: no request, no queued key, no undelivered version.
Quiet ==
  /\ pc = "idle"
  /\ queue = {}
  /\ \A k \in Keys : Fresh(k)

\* A resource that is being deleted disappears in the end, whatever fails: the
\* finalizer is removed, though its status may be refused, its client missing
\* or its object gone.
DeletionCompletes == \A k \in Keys : (Live(k) /\ api[k].deleting) ~> ~Live(k)

\* Type correctness of the frame, for resources and remote objects in the
\* given sets.
FrameTypeOK(Object, Remote, Inputs, PCs) ==
  /\ api \in [Keys -> Object \cup {NoObj}]
  /\ cache \in [Keys -> Object \cup {NoObj}]
  /\ watch \in [Keys -> Seq(Object \cup {NoObj})]
  /\ queue \subseteq Keys
  /\ req \in Keys \cup {NoKey}
  /\ obj \in Object \cup {NoObj}
  /\ fresh \in BOOLEAN
  /\ faults \in Nat
  /\ pc \in PCs
  /\ marked \in BOOLEAN
  /\ rid \in Ids \cup {NoId}
  /\ input \in Inputs \cup {NoInput}
  /\ remote \in [Ids -> Remote \cup {NoRemote}]
  /\ nextId \in 1 .. MaxRemote + 1
  /\ maker \in [Ids -> Keys \cup {NoKey}]
  /\ abandoned \subseteq Ids
  /\ ops \in Nat
===============================================================================
