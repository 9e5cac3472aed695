----------------------------- MODULE AccessListUse -----------------------------
(***************************************************************************)
(* An AccessList and a ProxyHost that refers to it by name: two            *)
(* controllers, each with its own worker, that share the informer cache of *)
(* access lists and NPM.  Of the ProxyHost reconciler only what concerns   *)
(* the list is modelled: getAccessListByReference, the access_list_id of   *)
(* the request that updates the host, and the watch on access lists.       *)
(***************************************************************************)
EXTENDS AccessListController

CONSTANT Reference   \* the access list that the proxy host names

ASSUME ReferenceAssumption == Reference \in Keys

VARIABLES hostQueued,  \* the proxy host is on its controller's work queue
          hostPc,      \* where its reconciliation is
          hostList,    \* the id read from the AccessList, then found in NPM
          access       \* access_list_id of the host in NPM; NoId stands for 0

hostVars == <<hostQueued, hostPc, hostList, access>>
useVars == <<vars, hostVars>>

ListVars == <<kubeVars, req, obj, fresh, localVars, remoteVars, ops>>
-----------------------------------------------------------------------------
(* The proxy host                                                           *)

HostDequeue ==
  /\ hostPc = "idle"
  /\ hostQueued
  /\ hostQueued' = FALSE
  /\ hostPc' = "reference"
  /\ UNCHANGED <<vars, hostList, access>>

\* r.Get of the AccessList: one that is missing or has no id yet is an error.
GetReference ==
  /\ hostPc = "reference"
  /\ IF cache[Reference] # NoObj /\ cache[Reference].id # NoId
     THEN hostList' = cache[Reference].id /\ hostPc' = "find"
     ELSE hostPc' = "fail" /\ UNCHANGED hostList
  /\ UNCHANGED <<vars, hostQueued, access>>

\* A list that NPM does not have is no list, without an error.
FindReferenced ==
  /\ hostPc = "find"
  /\ \/ /\ hostList' = IF Alive(hostList) THEN hostList ELSE NoId
        /\ hostPc' = "update"
        /\ UNCHANGED faults
     \/ Fault("npm") /\ hostPc' = "fail" /\ UNCHANGED hostList
  /\ UNCHANGED <<ListVars, hostQueued, access>>

getAccessListByReference == GetReference \/ FindReferenced

\* NPM does not look whether the list still exists.
UpdateHost ==
  /\ hostPc = "update"
  /\ \/ access' = hostList /\ hostPc' = "done" /\ UNCHANGED faults
     \/ Fault("npm") /\ hostPc' = "fail" /\ UNCHANGED access
  /\ UNCHANGED <<ListVars, hostQueued, hostList>>

HostReturn ==
  /\ hostPc \in {"done", "fail"}
  /\ hostQueued' = (hostQueued \/ hostPc = "fail")
  /\ hostPc' = "idle"
  /\ hostList' = NoId
  /\ UNCHANGED <<vars, access>>

HostReconcile == HostDequeue \/ getAccessListByReference \/ UpdateHost \/ HostReturn
-----------------------------------------------------------------------------
(* The access list                                                          *)

\* Mutant: only the creation of a list queues the proxy hosts that name it.
ListCreatedOnly == cache[Reference] = NoObj /\ cache'[Reference] # NoObj

\* findObjectsForMap(PH_ACCESS_LIST_FIELD): every event of the list that the
\* proxy host names.
ListEvent == cache'[Reference] # cache[Reference]

\* NPM removes a list from the hosts that use it.
Detach == access' = IF access # NoId /\ remote'[access] = NoRemote THEN NoId ELSE access

ListStep(A) ==
  /\ A
  /\ hostQueued' = (hostQueued \/ ListEvent)
  /\ Detach
  /\ UNCHANGED <<hostPc, hostList>>

\* Both controllers live in one process.
CrashBoth ==
  /\ Crash
  /\ hostQueued' = TRUE
  /\ hostPc' = "idle"
  /\ hostList' = NoId
  /\ UNCHANGED access

UseInit ==
  /\ FrameInit
  /\ hostQueued = TRUE
  /\ hostPc = "idle"
  /\ hostList = NoId
  /\ access = NoId

UseNext ==
  \/ HostReconcile
  \/ \E k \in Keys : ListStep(Dequeue(k)) \/ ListStep(WatchEvent(k))
  \/ ListStep(Reconcile)
  \/ ListStep(Users)
  \/ CrashBoth

UseSpec == UseInit /\ [][UseNext]_useVars

(* Each worker's goroutine runs, watch events arrive and the work queues    *)
(* are first in, first out.  Faults, users and administrators stop by their *)
(* bounds and are not forced to act.                                        *)
FairSpec ==
  /\ UseSpec
  /\ WF_useVars(HostReconcile)
  /\ WF_useVars(ListStep(Reconcile))
  /\ \A k \in Keys :
       WF_useVars(ListStep(WatchEvent(k))) /\ SF_useVars(ListStep(Dequeue(k)))
-----------------------------------------------------------------------------
\* When both controllers are idle, the host has the list that the AccessList
\* records, also after the list was removed in NPM and created again under a
\* new id, or after the resource was deleted and created again.
QuietMeansGuarded ==
  Quiet /\ hostPc = "idle" /\ ~hostQueued =>
    (Live(Reference) /\ api[Reference].id # NoId /\ Alive(api[Reference].id)
       => access = api[Reference].id)
===============================================================================
