--------------------------- MODULE ServiceForwarding ---------------------------
(***************************************************************************)
(* How one ProxyHost or Stream follows the services it forwards to:        *)
(* makeForward of proxyhost/proxy_forward.go and stream/proxy_forward.go,  *)
(* GetPodsHostIPS, and the watches on services and pods that queue the     *)
(* resource again.  Ref[1] is the service of spec.forward, Ref[2], ... are *)
(* those of the custom locations (a Stream has none); Nil stands for a     *)
(* forward to explicit hosts.  Ports are the matter of ServicePorts.       *)
(* A status write of the resource that changes nothing sends no event, so  *)
(* events of the resource itself are left out: they only add requests.     *)
(***************************************************************************)
EXTENDS Naturals, Sequences, FiniteSets, Functions

CONSTANTS Services, Pods, Nodes,
          Labels,      \* labels of pods and in selectors
          Addresses,   \* addresses of nodes
          NoAddress,   \* "": a node without an InternalIP
          ClusterIP,   \* the address of every service
          Nil,         \* no object, no service
          Ref,         \* services of the forward and of the custom locations
          Foreign,     \* services in another namespace than the resource
          Unscoped,    \* NPM accepts upstream blocks
          Changes,     \* the kinds of changes of an instance
          MaxChanges,  \* bound: changes of the cluster
          MaxLag,      \* bound: undelivered versions of an object
          MaxFaults    \* bound: failed requests to NPM

ASSUME ForwardingAssumption ==
  /\ Ref \in Seq(Services \cup {Nil})
  /\ Ref # << >>
  /\ Foreign \subseteq Services
  /\ Unscoped \in BOOLEAN
  /\ MaxChanges \in Nat /\ MaxLag \in Nat \ {0} /\ MaxFaults \in Nat

\* An object has one kind.
ASSUME KindsAssumption ==
  Services \cap Pods = {} /\ Services \cap Nodes = {} /\ Pods \cap Nodes = {}

Slots == 1 .. Len(Ref)

Objects == Services \cup Pods \cup Nodes

VARIABLES world,    \* the objects the API server stores
          cache,    \* the objects the informer caches return
          watch,    \* watch[o]: versions of o not yet delivered
          queued,   \* the resource is on the work queue
          pc,       \* where makeForward is
          slot,     \* the forward being resolved
          svc,      \* the Service object that was read
          hosts,    \* nodes of the pods that were listed
          dest,     \* dest[i]: the destination resolved for slot i
          remote,   \* remote[i]: the destination of slot i in NPM
          missed,   \* history: a version arrived since the last request of
                    \* which no watch tells the resource
          changes, faults

envVars    == <<world, cache, watch, changes>>
workerVars == <<pc, slot, svc, hosts, dest>>
vars == <<envVars, queued, missed, workerVars, remote, faults>>

Service == [type: {"NodePort", "Other"}, selector: SUBSET Labels]

NewPod(n, l) == [phase |-> "Pending", node |-> n, labels |-> l, deleting |-> FALSE]
-----------------------------------------------------------------------------
(* Resolution, on a view of the cluster: the cache or the world             *)

Selects(s, p) == s.selector \subseteq p.labels

\* Pods that run are taken even while they are being deleted.
Running(view, s) ==
  {p \in Pods : view[p] # Nil /\ view[p].phase = "Running" /\ Selects(s, view[p])}

\* GetPodsHostIPS: a node that is not found is skipped, one without an
\* InternalIP contributes "".
GetPodsHostIPS(view, ns) == {view[n] : n \in {m \in ns : view[m] # Nil}}

\* With upstream blocks all nodes are the destination, without one of them,
\* whichever the cache lists first; a NodePort service without running pods
\* falls back on its cluster address.
NodePortDestinations(ips) ==
  IF ips = {} THEN {{ClusterIP}}
  ELSE IF Unscoped THEN {ips}
  ELSE {{ip} : ip \in ips}

Destinations(view, s) ==
  IF view[s].type = "NodePort"
  THEN NodePortDestinations(GetPodsHostIPS(view, {view[p].node : p \in Running(view, view[s])}))
  ELSE {{ClusterIP}}
-----------------------------------------------------------------------------
(* The worker                                                               *)

Dequeue ==
  /\ pc = "idle"
  /\ queued
  /\ queued' = FALSE
  /\ missed' = FALSE
  /\ pc' = "service"
  /\ slot' = 1
  /\ UNCHANGED <<envVars, svc, hosts, dest, remote, faults>>

Resolved(d) ==
  /\ dest' = [dest EXCEPT ![slot] = d]
  /\ IF slot = Len(Ref) THEN pc' = "put" /\ slot' = 0 ELSE pc' = "service" /\ slot' = slot + 1
  /\ svc' = Nil
  /\ hosts' = {}

GetService ==
  /\ pc = "service"
  /\ \/ Ref[slot] = Nil /\ Resolved({})
     \/ /\ Ref[slot] # Nil
        /\ cache[Ref[slot]] = Nil
        /\ pc' = "fail"
        /\ UNCHANGED <<slot, svc, hosts, dest>>
     \/ /\ Ref[slot] # Nil
        /\ cache[Ref[slot]] # Nil
        /\ IF cache[Ref[slot]].type = "NodePort"
           THEN svc' = cache[Ref[slot]] /\ pc' = "pods" /\ UNCHANGED <<slot, hosts, dest>>
           ELSE Resolved({ClusterIP})
  /\ UNCHANGED <<envVars, queued, missed, remote, faults>>

ListPods ==
  /\ pc = "pods"
  /\ hosts' = {cache[p].node : p \in Running(cache, svc)}
  /\ pc' = "nodes"
  /\ UNCHANGED <<envVars, queued, missed, slot, svc, dest, remote, faults>>

\* An empty address is an error unless it is hidden in an upstream block.
forwardWhenNodePortType ==
  /\ pc = "nodes"
  /\ \E d \in NodePortDestinations(GetPodsHostIPS(cache, hosts)) :
       IF d = {NoAddress} /\ ~Unscoped
       THEN pc' = "fail" /\ UNCHANGED <<slot, svc, hosts, dest>>
       ELSE Resolved(d)
  /\ UNCHANGED <<envVars, queued, missed, remote, faults>>

makeForward == GetService \/ ListPods \/ forwardWhenNodePortType

UpdateRemote ==
  /\ pc = "put"
  /\ \/ remote' = dest /\ pc' = "done" /\ UNCHANGED faults
     \/ faults < MaxFaults /\ faults' = faults + 1 /\ pc' = "fail" /\ UNCHANGED remote
  /\ UNCHANGED <<envVars, queued, missed, slot, svc, hosts, dest>>

Reset ==
  /\ pc' = "idle"
  /\ slot' = 0
  /\ svc' = Nil
  /\ hosts' = {}
  /\ dest' = [i \in Slots |-> {}]

\* Mutant: an error ends the reconciliation for good.
ReturnWithoutRequeue ==
  /\ pc \in {"done", "fail"}
  /\ Reset
  /\ UNCHANGED <<envVars, queued, missed, remote, faults>>

Return ==
  /\ pc \in {"done", "fail"}
  /\ queued' = (queued \/ pc = "fail")
  /\ Reset
  /\ UNCHANGED <<envVars, missed, remote, faults>>

Reconcile == makeForward \/ UpdateRemote \/ Return
-----------------------------------------------------------------------------
(* Watches                                                                  *)

\* PodMatchesServiceSelector on the cached service s, looked up in the
\* namespace of the resource whatever the reference says.
PodMatches(p, s) ==
  /\ s \notin Foreign
  /\ cache[s] # Nil
  /\ ~p.deleting
  /\ Selects(cache[s], p)

\* findProxyHostsForPod and findStreamsForPod: the custom locations are only
\* looked at when spec.forward names a service that is found.
findProxyHostsForPod(p) ==
  /\ Ref[1] # Nil
  /\ Ref[1] \notin Foreign
  /\ cache[Ref[1]] # Nil
  /\ \E i \in Slots : Ref[i] # Nil /\ PodMatches(p, Ref[i])

\* Mutant: only the new version of a pod is looked at.
PodEventNewOnly(old, new) == new # Nil /\ findProxyHostsForPod(new)

\* An update is mapped in its old and its new version, a deletion in the last.
PodEvent(old, new) ==
  \/ old # Nil /\ findProxyHostsForPod(old)
  \/ new # Nil /\ findProxyHostsForPod(new)

\* findServicesForProxyHost goes by name, through two indexes.
ServiceEvent(s) == \E i \in Slots : Ref[i] = s

\* Nodes are read but not watched, and a pod that is being deleted belongs to
\* no service any more: neither its end nor its removal is reported.
Unreported(o) == o \in Nodes \/ (o \in Pods /\ cache[o] # Nil /\ cache[o].deleting)

Deliver(o) ==
  /\ watch[o] # << >>
  /\ cache' = [cache EXCEPT ![o] = Head(watch[o])]
  /\ watch' = [watch EXCEPT ![o] = Tail(@)]
  /\ queued' = (\/ queued
                \/ o \in Services /\ ServiceEvent(o)
                \/ o \in Pods /\ PodEvent(cache[o], Head(watch[o])))
  /\ missed' = (missed \/ Unreported(o))
  /\ UNCHANGED <<world, changes, workerVars, remote, faults>>
-----------------------------------------------------------------------------
(* The cluster                                                              *)

Change(kind, o, v) ==
  /\ kind \in Changes
  /\ changes < MaxChanges
  /\ changes' = changes + 1
  /\ v # world[o]
  /\ Len(watch[o]) < MaxLag
  /\ world' = [world EXCEPT ![o] = v]
  /\ watch' = [watch EXCEPT ![o] = Append(@, v)]
  /\ UNCHANGED <<cache, queued, missed, workerVars, remote, faults>>

ServiceChange(s) == \E v \in Service \cup {Nil} : Change("service", s, v)

PodStart(p) ==
  /\ world[p] = Nil
  /\ \E n \in Nodes, l \in SUBSET Labels : Change("start", p, NewPod(n, l))

PodPhase(p) ==
  /\ world[p] # Nil
  /\ \E phase \in {"Running", "Failed"} :
       world[p].phase # "Failed" /\ Change("phase", p, [world[p] EXCEPT !.phase = phase])

PodRelabel(p) ==
  /\ world[p] # Nil
  /\ \E l \in SUBSET Labels : Change("relabel", p, [world[p] EXCEPT !.labels = l])

\* A deletion first marks the pod, which may run on for its grace period.
PodTerminate(p) ==
  world[p] # Nil /\ Change("terminate", p, [world[p] EXCEPT !.deleting = TRUE])

PodRemove(p) == world[p] # Nil /\ world[p].deleting /\ Change("remove", p, Nil)

NodeChange(n) == \E a \in Addresses \cup {NoAddress, Nil} : Change("node", n, a)

Cluster ==
  \/ \E s \in Services : ServiceChange(s)
  \/ \E p \in Pods :
       PodStart(p) \/ PodPhase(p) \/ PodRelabel(p) \/ PodTerminate(p) \/ PodRemove(p)
  \/ \E n \in Nodes : NodeChange(n)

RunningPod == {[NewPod(n, l) EXCEPT !.phase = "Running"] : n \in Nodes, l \in SUBSET Labels}

\* The operator starts: everything is listed and the resource is queued.
Init ==
  /\ \E services \in [Services -> Service], pods \in [Pods -> RunningPod \cup {Nil}],
        nodes \in [Nodes -> Addresses] :
       /\ IsInjective(nodes)
       /\ world = [o \in Objects |-> IF o \in Services THEN services[o]
                                    ELSE IF o \in Pods THEN pods[o] ELSE nodes[o]]
  /\ cache = world
  /\ watch = [o \in Objects |-> << >>]
  /\ queued = TRUE /\ missed = FALSE
  /\ pc = "idle" /\ slot = 0 /\ svc = Nil /\ hosts = {}
  /\ dest = [i \in Slots |-> {}]
  /\ remote = [i \in Slots |-> {}]
  /\ changes = 0 /\ faults = 0

Next == Dequeue \/ Reconcile \/ (\E o \in Objects : Deliver(o)) \/ Cluster

Spec == Init /\ [][Next]_vars

\* The worker runs and watches deliver; the cluster need not change.
FairSpec ==
  /\ Spec
  /\ WF_vars(Dequeue \/ Reconcile)
  /\ \A o \in Objects : WF_vars(Deliver(o))
-----------------------------------------------------------------------------
Quiet == pc = "idle" /\ ~queued /\ \A o \in Objects : watch[o] = << >>

Current ==
  \A i \in Slots : Ref[i] # Nil =>
    world[Ref[i]] # Nil /\ remote[i] \in Destinations(world, Ref[i])

\* When nothing is under way, NPM forwards to where the services are now: no
\* change of a service or of a pod, in whatever order the two watches deliver
\* and whenever the worker reads, goes unnoticed, but for those that no watch
\* reports.  This is what the mapping functions of the watches are for.
QuietMeansCurrent == Quiet /\ ~missed => Current

\* While the services exist, every change is reported and, where upstream blocks
\* cannot hide it, no node is without an address, the destination in NPM is in
\* the end correct, even when requests to NPM fail.
BecomesCurrent ==
  <>[](/\ ~missed
       /\ \A i \in Slots : Ref[i] # Nil => world[Ref[i]] # Nil
       /\ Unscoped \/ \A n \in Nodes : world[n] # NoAddress)
    => <>[]Current
===============================================================================
