------------------------- MODULE AccessListController -------------------------
(***************************************************************************)
(* internal/controller/accesslist and pkg/nginxpm/access_list.go: every    *)
(* AccessList resource has an access list of its own in NPM, found again   *)
(* by the id in its status and rewritten by every reconciliation.  The     *)
(* content of a list (users, clients, satisfyAny, passAuth) is always sent *)
(* as a whole and is one value here.                                       *)
(***************************************************************************)
EXTENDS ResourceReconciler

AccessList ==
  [spec: Specs, deleting: BOOLEAN, fin: BOOLEAN, id: Ids \cup {NoId},
   conds: SUBSET ConditionTypes]

ASSUME NullsAssumption == NoObj \notin AccessList /\ NoRemote \notin Specs

NewAccessList(s) ==
  [spec |-> s, deleting |-> FALSE, fin |-> FALSE, id |-> NoId, conds |-> {}]

PCs == {"idle", "finalizer", "reconciling", "client", "delete", "removeFinalizer", "find",
        "write", "save", "ready", "fail", "done", "requeue"}
-----------------------------------------------------------------------------
\* FindAccessListByID, when the status has an id: a list that is gone is nil
\* without an error.
FindAccessListByID ==
  /\ pc = "find"
  /\ \/ /\ rid' = IF obj.id # NoId /\ Alive(obj.id) THEN obj.id ELSE NoId
        /\ pc' = "write"
        /\ UNCHANGED faults
     \/ obj.id # NoId /\ Fault("npm") /\ pc' = "fail" /\ UNCHANGED rid
  /\ UNCHANGED <<kubeVars, req, obj, fresh, marked, input, remoteVars, ops>>

CreateAccessList ==
  /\ pc = "write"
  /\ rid = NoId
  /\ \E ok \in BOOLEAN :
       /\ CreateRemote(obj.spec, FALSE, ok)
       /\ pc' = IF ok THEN "save" ELSE "fail"
       /\ rid' = IF ok THEN nextId ELSE NoId
  /\ UNCHANGED <<kubeVars, req, obj, fresh, marked, input, ops>>

UpdateAccessList ==
  /\ pc = "write"
  /\ rid # NoId
  /\ \E ok \in BOOLEAN :
       /\ UpdateRemote(rid, obj.spec, ok)
       /\ pc' = IF ok THEN "save" ELSE "fail"
  /\ UNCHANGED <<kubeVars, req, obj, fresh, marked, rid, input, ops>>

\* Mutant: the id is written only once.
SaveFirstIdOnly ==
  /\ pc = "save"
  /\ \E ok \in BOOLEAN :
       /\ StatusWrite([Cached EXCEPT !.id = IF @ = NoId THEN rid ELSE @], TRUE, ok)
       /\ pc' = IF ok THEN "ready" ELSE "fail"
  /\ UNCHANGED <<cache, queue, req, marked, rid, input, remoteVars, ops>>

\* The status write at the end of createOrUpdateAccessList.
SaveStatus ==
  /\ pc = "save"
  /\ \E ok \in BOOLEAN :
       /\ StatusWrite([Cached EXCEPT !.id = rid], TRUE, ok)
       /\ pc' = IF ok THEN "ready" ELSE "fail"
  /\ UNCHANGED <<cache, queue, req, marked, rid, input, remoteVars, ops>>

createOrUpdateAccessList ==
  FindAccessListByID \/ CreateAccessList \/ UpdateAccessList \/ SaveStatus

Reconcile ==
  \/ EnsureFinalizer(api[req])
  \/ MarkReconciling(TRUE)
  \/ InitNginxPMClient(obj.id # NoId)
  \/ DeleteRemote
  \/ DropFinalizer(api[req])
  \/ createOrUpdateAccessList
  \/ MarkReady(TRUE)
  \/ MarkError(TRUE)
  \/ Return

Users ==
  \/ \E k \in Keys :
       \/ \E s \in Specs : UserCreate(k, NewAccessList(s)) \/ UserEdit(k, s)
       \/ UserDelete(k)
       \/ Trigger(k)
  \/ \E i \in Ids : AdminRemove(i)

Next ==
  \/ \E k \in Keys : Dequeue(k) \/ WatchEvent(k)
  \/ Reconcile
  \/ Users
  \/ Crash

Spec == FrameInit /\ [][Next]_vars
-----------------------------------------------------------------------------
\* What the reconciler promises about access lists in NPM, whatever is lost,
\* late, repeated or interrupted: see RemoteLedger.
Ledger ==
  INSTANCE RemoteLedger WITH
    Nobody <- NoKey,
    MayDisown <- FALSE,
    present <- {k \in Keys : Live(k)},
    leaving <- {k \in Keys : Live(k) /\ api[k].deleting},
    held <- [k \in Keys |-> IF Live(k) THEN api[k].id ELSE NoId],
    alive <- {i \in Ids : Alive(i)},
    owner <- maker,
    turns <- ops

ImplementsLedger == Ledger!Spec

\* When nothing is left to do, every resource is served: its list, unless an
\* administrator removed it, has the content of the spec, and no deletion is
\* pending.  Every failed or interrupted reconciliation is therefore repeated.
QuietMeansServed ==
  Quiet => \A k \in Keys : Live(k) =>
    /\ ~api[k].deleting
    /\ api[k].id # NoId
    /\ Alive(api[k].id) => remote[api[k].id] = api[k].spec

\* A resource that stays has, in the end and for good, a list with its content
\* in NPM, even when administrators remove lists: every later reconciliation
\* (Trigger) creates it again.
Served(k) == Live(k) /\ api[k].id # NoId /\ Alive(api[k].id) /\ remote[api[k].id] = api[k].spec

StaysServed ==
  \A k \in Keys : (<>[](Live(k) /\ ~api[k].deleting)) /\ ([]<>(k \in queue)) => <>[]Served(k)
===============================================================================
