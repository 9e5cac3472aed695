---------------------------- MODULE ProxyHostProofs ----------------------------
(***************************************************************************)
(* Theorems about ProxyHostController for every value of its constants:    *)
(* its type invariant; that the operator never deletes a host that an      *)
(* administrator created; that a resource which records a host carries the *)
(* finalizer; that two resources never record the same host; that a        *)
(* resource goes only after the host that it created; that no host which   *)
(* the operator creates is lost; that Bound says who created a host; that  *)
(* what is stored of a bound host is what it was; and that this is given   *)
(* back.                                                                   *)
(***************************************************************************)
EXTENDS ProxyHostController, HelperProofs

\* A version of a resource may record a host only if that host was created,
\* and must say Bound if an administrator created it.
Truthful(o) ==
  o.id # NoId => creator[o.id] # "none" /\ (creator[o.id] = "admin" => o.bound)

Versions == {o \in ProxyHost : Truthful(o)} \cup {NoObj}

ClusterInv ==
  /\ api \in [Keys -> Versions]
  /\ cache \in [Keys -> Versions]
  /\ watch \in [Keys -> Seq(Versions)]
  /\ queue \subseteq Keys
  /\ CacheFollows

NpmInv ==
  /\ npm \in [Ids -> Host \cup {NoHost}]
  /\ nextId \in 1 .. MaxHosts + 1
  /\ creator \in [Ids -> Creators]
  /\ orig \in [Ids -> Host \cup {NoHost}]
  /\ \A i \in Ids : i >= nextId => creator[i] = "none"
  /\ \A i \in Ids : Alive(i) => creator[i] # "none"

\* The object the worker holds.
RequestInv ==
  /\ req \in Keys \cup {NoKey}
  /\ obj \in Versions
  /\ fresh \in BOOLEAN
  /\ FreshExists
  /\ pc # "idle" => req \in Keys /\ obj # NoObj

\* The local variables of Reconcile and createOrUpdateProxyHost.
LocalInv ==
  /\ pc \in PCs
  /\ marked \in BOOLEAN
  /\ host \in Ids \cup {NoId}
  /\ bound \in BOOLEAN
  /\ captured \in InitialConfiguration \cup {NoInit}
  /\ host # NoId => creator[host] # "none" /\ (creator[host] = "admin" => bound)

\* What the program counter says about them.
PcInv ==
  /\ pc = "restore" => obj.id # NoId /\ obj.init # NoInit
  /\ pc = "delete" => obj.id # NoId /\ ~obj.bound
  /\ pc \in {"idle", "finalizer", "reconciling", "client", "unique", "find"} => host = NoId
  /\ pc = "update" => host # NoId

BudgetInv == faults \in Nat /\ ops \in Nat

IInv == ClusterInv /\ NpmInv /\ RequestInv /\ LocalInv /\ PcInv /\ BudgetInv
-----------------------------------------------------------------------------
(* What the set of acceptable versions depends on.                          *)

\* An absent object satisfies the invariant of the stored versions.
LEMMA NoObjIsVersion == NoObj \in Versions
BY DEF Versions

\* Histories that agree on the recorded hosts admit the same versions.
LEMMA VersionsSame ==
  ASSUME creator' = creator
  PROVE  Versions' = Versions
BY DEF Versions, Truthful

\* Creating a host makes no version unacceptable.
LEMMA VersionsGrow ==
  ASSUME creator \in [Ids -> Creators],
         \A i \in Ids : creator[i] # "none" => creator'[i] = creator[i]
  PROVE  Versions \subseteq Versions'
<1> SUFFICES ASSUME NEW o \in ProxyHost, Truthful(o)
             PROVE  Truthful(o)'
  BY DEF Versions
<1> QED BY DEF Truthful, ProxyHost

\* An object that is neither absent nor made up is a ProxyHost.
LEMMA VersionIsProxyHost ==
  ASSUME NEW o \in Versions, o # NoObj
  PROVE  o \in ProxyHost /\ Truthful(o)
BY DEF Versions

\* Setting a condition changes nothing the invariant is about.
LEMMA ConditionKeeps ==
  ASSUME NEW o \in Versions, o # NoObj, NEW type \in ConditionTypes
  PROVE  SetCondition(o, type) \in Versions \ {NoObj}
<1>1. o \in ProxyHost /\ Truthful(o)
  BY VersionIsProxyHost
<1>2. SetCondition(o, type) \in ProxyHost
  BY <1>1 DEF SetCondition, ProxyHost
<1>3. Truthful(SetCondition(o, type))
  BY <1>1 DEF SetCondition, Truthful, ProxyHost
<1> QED BY <1>2, <1>3, NullsAssumption DEF Versions

\* The status written by createOrUpdateProxyHost records a bound host as bound.
LEMMA RecordedKeeps ==
  ASSUME NEW o \in Versions, o # NoObj, LocalInv
  PROVE  Recorded(o) \in Versions \ {NoObj}
<1>1. o \in ProxyHost /\ Truthful(o)
  BY VersionIsProxyHost
<1>2. Recorded(o) \in ProxyHost
  BY <1>1 DEF Recorded, ProxyHost, LocalInv
<1>3. Recorded(o).id = host /\ Recorded(o).bound = bound
  BY <1>1 DEF Recorded, ProxyHost
<1>4. Truthful(Recorded(o))
  BY <1>3 DEF Truthful, LocalInv
<1> QED BY <1>2, <1>4, NullsAssumption DEF Versions

\* Adding or removing the finalizer, defaults included, changes nothing the
\* invariant is about.
LEMMA FinalizerKeeps ==
  ASSUME NEW o \in Versions, o # NoObj
  PROVE  /\ WithFinalizer(Encoded(o)) \in Versions
         /\ WithoutFinalizer(Encoded(o)) \in Versions
<1> DEFINE e == Encoded(o)
<1>1. o \in ProxyHost /\ Truthful(o)
  BY VersionIsProxyHost
<1>2. [o.spec EXCEPT !.bindExisting = TRUE, !.cfg = DefaultCfg[@]] \in ProxyHostSpec
  BY <1>1, ConstantsAssumption DEF ProxyHost, ProxyHostSpec
<1>3. e = [o EXCEPT !.spec = [o.spec EXCEPT !.bindExisting = TRUE, !.cfg = DefaultCfg[@]]]
  BY <1>1 DEF Encoded, ProxyHost, ProxyHostSpec
<1>4. e \in ProxyHost /\ e.id = o.id /\ e.bound = o.bound
  BY <1>1, <1>2, <1>3 DEF ProxyHost
<1> HIDE DEF e
<1>5. [e EXCEPT !.fin = TRUE] \in ProxyHost /\ [e EXCEPT !.fin = FALSE] \in ProxyHost
  BY <1>4 DEF ProxyHost
<1>6. Truthful([e EXCEPT !.fin = TRUE]) /\ Truthful([e EXCEPT !.fin = FALSE])
  BY <1>1, <1>4 DEF Truthful, ProxyHost
<1> QED BY <1>5, <1>6 DEF Versions, WithFinalizer, WithoutFinalizer, e
-----------------------------------------------------------------------------
(* NPM's interface keeps its invariant, and never changes who created what. *)

Bodies == [doms: SUBSET Domains, cfg: Cfgs, unscoped: Upstreams]

\* No host disappears in this step.
HostsStay == \A j \in Ids : Alive(j) => npm'[j] # NoHost

\* A PUT changes the settings of one host and creates or removes none.
LEMMA PutKeeps ==
  ASSUME NpmInv, NEW i, NEW body \in Bodies, Alive(i), Put(i, body)
  PROVE  NpmInv' /\ creator' = creator /\ HostsStay
<1>1. i \in Ids => npm[i] \in Host
  BY DEF NpmInv, Alive
<1>2. i \in Ids => [npm[i] EXCEPT !.doms = body.doms, !.cfg = body.cfg,
                                  !.unscoped = body.unscoped] \in Host
  BY <1>1 DEF Host, Bodies
<1>3. npm' \in [Ids -> Host \cup {NoHost}] /\ HostsStay
  BY <1>2, NullsAssumption DEF NpmInv, Put, HostsStay, Alive
<1>4. orig' \in [Ids -> Host \cup {NoHost}]
  BY DEF NpmInv, Put, Touch
<1>5. \A j \in Ids : Alive(j)' => Alive(j)
  BY DEF NpmInv, Put, Alive
<1> QED BY <1>3, <1>4, <1>5 DEF NpmInv, Put

\* UpdateProxyHost keeps the NPM part of the invariant, whatever its result.
LEMMA UpdateProxyHostKeeps ==
  ASSUME NpmInv, faults \in Nat, NEW i, NEW body \in Bodies, NEW ok \in BOOLEAN,
         UpdateProxyHost(i, body, ok)
  PROVE  NpmInv' /\ creator' = creator /\ HostsStay /\ faults' \in Nat
<1>1. CASE UNCHANGED npmVars
  <2>1. NpmInv' /\ creator' = creator /\ HostsStay
    BY <1>1 DEF npmVars, NpmInv, Alive, HostsStay
  <2> QED BY <2>1, FaultKeeps DEF UpdateProxyHost
<1>2. CASE Alive(i) /\ Put(i, body)
  BY <1>2, PutKeeps, FaultKeeps DEF UpdateProxyHost
<1> QED BY <1>1, <1>2 DEF UpdateProxyHost

\* Switching a host on or off keeps the NPM part of the invariant.
LEMMA SetEnabledKeeps ==
  ASSUME NpmInv, NEW i, NEW b \in BOOLEAN, Alive(i), SetEnabled(i, b)
  PROVE  NpmInv' /\ creator' = creator /\ HostsStay
<1>1. CASE UNCHANGED npmVars
  BY <1>1 DEF npmVars, NpmInv, Alive, HostsStay
<1>2. CASE ~UNCHANGED npmVars
  <2>1. i \in Ids => [npm[i] EXCEPT !.enabled = b] \in Host
    BY DEF NpmInv, Alive, Host
  <2>2. /\ npm' = [npm EXCEPT ![i].enabled = b] /\ Touch(i)
        /\ UNCHANGED <<nextId, creator>>
    BY <1>2 DEF SetEnabled
  <2>3. npm' \in [Ids -> Host \cup {NoHost}] /\ HostsStay
    BY <2>1, <2>2, NullsAssumption DEF NpmInv, HostsStay, Alive
  <2>4. orig' \in [Ids -> Host \cup {NoHost}]
    BY <2>2 DEF NpmInv, Touch
  <2>5. \A j \in Ids : Alive(j)' => Alive(j)
    BY <2>2 DEF NpmInv, Alive
  <2> QED BY <2>2, <2>3, <2>4, <2>5 DEF NpmInv
<1> QED BY <1>1, <1>2

\* EnableProxyHost and DisableProxyHost keep it too, whether they panic or not.
LEMMA EnableKeeps ==
  ASSUME NpmInv, faults \in Nat, NEW i, NEW panics \in BOOLEAN,
         EnableProxyHost(i, panics) \/ DisableProxyHost(i, panics)
  PROVE  NpmInv' /\ creator' = creator /\ HostsStay /\ faults' \in Nat
<1>1. CASE UNCHANGED npmVars
  <2>1. NpmInv' /\ creator' = creator /\ HostsStay
    BY <1>1 DEF npmVars, NpmInv, Alive, HostsStay
  <2> QED BY <2>1, FaultKeeps DEF EnableProxyHost, DisableProxyHost
<1>2. CASE Alive(i) /\ UNCHANGED faults /\ \E b \in BOOLEAN : SetEnabled(i, b)
  BY <1>2, SetEnabledKeeps
<1> QED BY <1>1, <1>2 DEF EnableProxyHost, DisableProxyHost

\* DeleteProxyHost keeps the NPM part of the invariant.
LEMMA DeleteKeeps ==
  ASSUME NpmInv, faults \in Nat, NEW i, DeleteProxyHost(i)
  PROVE  NpmInv' /\ creator' = creator /\ faults' \in Nat
<1>1. CASE UNCHANGED npmVars
  <2>1. NpmInv' /\ creator' = creator
    BY <1>1 DEF npmVars, NpmInv, Alive
  <2> QED BY <2>1, FaultKeeps DEF DeleteProxyHost, npmVars
<1>2. CASE npm' = [npm EXCEPT ![i] = NoHost] /\ UNCHANGED <<nextId, creator, orig, faults>>
  BY <1>2 DEF NpmInv, Alive
<1> QED BY <1>1, <1>2 DEF DeleteProxyHost
-----------------------------------------------------------------------------
(* Frames: what a step of each kind leaves to prove.                        *)

\* The cluster part of the invariant is kept by steps that leave its variables alone.
LEMMA ClusterFrame ==
  ASSUME ClusterInv, UNCHANGED <<api, cache, watch>>, queue' \subseteq Keys,
         creator \in [Ids -> Creators],
         \A i \in Ids : creator[i] # "none" => creator'[i] = creator[i]
  PROVE  ClusterInv'
<1>1. Versions \subseteq Versions'
  BY VersionsGrow
<1>2. CacheFollows'
  BY DEF ClusterInv, CacheFollows
<1>3. api' \in [Keys -> Versions'] /\ cache' \in [Keys -> Versions']
  BY <1>1 DEF ClusterInv
<1>4. watch' \in [Keys -> Seq(Versions')]
  <2>1. Seq(Versions) \subseteq Seq(Versions')
    BY <1>1, SeqMonotonic, Zenon
  <2> QED BY <2>1 DEF ClusterInv
<1> QED BY <1>2, <1>3, <1>4 DEF ClusterInv

\* The NPM part of the invariant is kept by steps that leave its variables alone.
LEMMA NpmFrame ==
  ASSUME NpmInv, UNCHANGED npmVars
  PROVE  NpmInv'
BY DEF NpmInv, npmVars, Alive

\* A step that only calls NPM about a host that exists, without creating one.
LEMMA NpmStep ==
  ASSUME IInv, NpmInv', creator' = creator, faults' \in Nat,
         UNCHANGED <<kubeVars, req, obj, fresh, marked, host, bound, captured, ops>>,
         pc # "idle",
         pc' \in {"refetch", "reenable", "requeue", "prepare", "save", "fail"}
  PROVE  IInv'
<1>1. ClusterInv'
  BY ClusterFrame DEF IInv, ClusterInv, NpmInv, kubeVars
<1>2. RequestInv'
  BY VersionsSame DEF IInv, RequestInv, FreshExists, kubeVars
<1>3. LocalInv' /\ PcInv' /\ BudgetInv'
  BY DEF IInv, LocalInv, PcInv, BudgetInv, PCs
<1> QED BY <1>1, <1>2, <1>3 DEF IInv

\* A call of UpdateStatus.
LEMMA StatusStep ==
  ASSUME IInv, NEW v, NEW ok \in BOOLEAN, UpdateStatus(v, ok),
         cache[req] # NoObj => v \in Versions \ {NoObj},
         UNCHANGED <<cache, queue, req, marked, host, bound, captured, npmVars, ops>>,
         pc # "idle",
         \/ pc' \in {"ready", "fail", "done", "requeue"}
         \/ pc' = "client" /\ pc = "reconciling"
  PROVE  IInv'
<1>1. req \in Keys /\ obj \in Versions /\ obj # NoObj /\ fresh \in BOOLEAN /\ faults \in Nat
      /\ api \in [Keys -> Versions] /\ watch \in [Keys -> Seq(Versions)]
  BY DEF IInv, RequestInv, ClusterInv, BudgetInv
<1>2. /\ api' \in [Keys -> Versions] /\ watch' \in [Keys -> Seq(Versions)]
      /\ obj' \in Versions \ {NoObj} /\ fresh' \in BOOLEAN /\ faults' \in Nat
  BY <1>1, NoObjIsVersion, UpdateStatusKeeps
<1>3. CacheFollows' /\ FreshExists'
  BY <1>1, UpdateStatusFollows DEF IInv, ClusterInv, RequestInv
<1>4. Versions' = Versions
  BY VersionsSame DEF npmVars
<1>5. ClusterInv'
  BY <1>2, <1>3, <1>4 DEF IInv, ClusterInv
<1>6. RequestInv'
  BY <1>1, <1>2, <1>3, <1>4 DEF RequestInv
<1>7. LocalInv' /\ PcInv'
  BY DEF IInv, LocalInv, PcInv, PCs, npmVars
<1> QED BY <1>2, <1>5, <1>6, <1>7, NpmFrame DEF IInv, BudgetInv

\* A call of r.Update.
LEMMA ObjectStep ==
  ASSUME IInv, NEW v, NEW ok \in BOOLEAN, UpdateObject(v, ok),
         fresh => v \in Versions,
         UNCHANGED <<cache, queue, req, marked, host, bound, captured, npm, nextId, creator, ops>>,
         orig' \in [Ids -> Host \cup {NoHost}],
         pc # "idle",
         \/ pc' \in {"done", "requeue"}
         \/ pc' = "reconciling" /\ pc = "finalizer"
  PROVE  IInv'
<1>1. req \in Keys /\ obj \in Versions \ {NoObj} /\ fresh \in BOOLEAN /\ faults \in Nat
      /\ api \in [Keys -> Versions] /\ watch \in [Keys -> Seq(Versions)]
  BY DEF IInv, RequestInv, ClusterInv, BudgetInv
<1>2. /\ api' \in [Keys -> Versions] /\ watch' \in [Keys -> Seq(Versions)]
      /\ obj' \in Versions \ {NoObj} /\ fresh' \in BOOLEAN /\ faults' \in Nat
  BY <1>1, UpdateObjectKeeps
<1>3. CacheFollows' /\ FreshExists'
  BY <1>1, UpdateObjectFollows DEF IInv, ClusterInv, RequestInv
<1>4. Versions' = Versions
  BY VersionsSame
<1>5. ClusterInv'
  BY <1>2, <1>3, <1>4 DEF IInv, ClusterInv
<1>6. RequestInv'
  BY <1>1, <1>2, <1>3, <1>4 DEF RequestInv
<1>7. LocalInv' /\ PcInv'
  BY DEF IInv, LocalInv, PcInv, PCs
<1>8. NpmInv'
  BY DEF IInv, NpmInv, Alive
<1> QED BY <1>2, <1>5, <1>6, <1>7, <1>8 DEF IInv, BudgetInv

\* A step of the worker that writes nothing outside its own variables.
LEMMA LocalStep ==
  ASSUME IInv, UNCHANGED <<api, cache, watch, npmVars, ops>>, queue' \subseteq Keys,
         RequestInv', LocalInv', PcInv', faults' \in Nat
  PROVE  IInv'
<1>1. ClusterInv'
  BY ClusterFrame DEF IInv, NpmInv, npmVars
<1> QED BY <1>1, NpmFrame DEF IInv, BudgetInv
-----------------------------------------------------------------------------
(* The inductive invariant holds initially and is kept by every action.     *)

\* The invariant holds initially, with or without a legacy resource.
LEMMA InitIInv == Init => IInv
<1> SUFFICES ASSUME Init PROVE IInv
  OBVIOUS
<1>1. 1 \in Ids /\ Ids \subseteq Nat
  BY MaxHostsAssumption DEF Ids
<1>2. NoId \notin Ids
  BY <1>1, NullsAssumption
<1>3. RequestInv /\ LocalInv /\ PcInv /\ BudgetInv
  BY NoObjIsVersion DEF Init, RequestInv, FreshExists, LocalInv, PcInv, BudgetInv, PCs
<1>4. CASE LegacyKey = NoKey
  <2>1. InitCluster([k \in Keys |-> NoObj], [i \in Ids |-> NoHost],
                    [i \in Ids |-> NoHost], [i \in Ids |-> "none"], 1)
    BY <1>4 DEF Init
  <2>2. ClusterInv
    BY <2>1, NoObjIsVersion DEF InitCluster, ClusterInv, CacheFollows
  <2>3. NpmInv
    BY <2>1, MaxHostsAssumption DEF InitCluster, NpmInv, Creators, Alive
  <2> QED BY <1>3, <2>2, <2>3 DEF IInv
<1>5. CASE LegacyKey # NoKey
  <2>1. PICK s \in Specs, h \in ForeignHosts :
             InitCluster(
               [k \in Keys |-> IF k = LegacyKey THEN LegacyObject(s) ELSE NoObj],
               [i \in Ids |-> IF i = 1 THEN [h EXCEPT !.doms = s.doms, !.cfg = s.cfg]
                                       ELSE NoHost],
               [i \in Ids |-> IF i = 1 THEN h ELSE NoHost],
               [i \in Ids |-> IF i = 1 THEN "admin" ELSE "none"], 2)
    BY <1>5 DEF Init
  <2>2. s \in ProxyHostSpec /\ h \in Host
    BY ConstantsAssumption
  <2>3. [h EXCEPT !.doms = s.doms, !.cfg = s.cfg] \in Host
    BY <2>2 DEF Host, ProxyHostSpec
  <2>4. creator = [i \in Ids |-> IF i = 1 THEN "admin" ELSE "none"]
    BY <2>1 DEF InitCluster
  <2>5. LegacyObject(s) \in Versions
    <3>1. LegacyObject(s) \in ProxyHost
      BY <1>1, <2>2 DEF LegacyObject, ProxyHost, ConditionTypes
    <3>2. Truthful(LegacyObject(s))
      BY <1>1, <2>4 DEF LegacyObject, Truthful
    <3> QED BY <3>1, <3>2 DEF Versions
  <2>6. ClusterInv
    <3> DEFINE a == [k \in Keys |-> IF k = LegacyKey THEN LegacyObject(s) ELSE NoObj]
    <3>1. /\ api = a /\ cache = a /\ watch = [k \in Keys |-> << >>]
          /\ queue = {k \in Keys : a[k] # NoObj}
      BY <2>1 DEF InitCluster
    <3>2. a \in [Keys -> Versions]
      BY <2>5, NoObjIsVersion
    <3> HIDE DEF a
    <3> QED BY <3>1, <3>2 DEF ClusterInv, CacheFollows
  <2>7. NpmInv
    <3>1. /\ npm = [i \in Ids |-> IF i = 1 THEN [h EXCEPT !.doms = s.doms, !.cfg = s.cfg]
                                           ELSE NoHost]
          /\ orig = [i \in Ids |-> IF i = 1 THEN h ELSE NoHost]
          /\ nextId = 2
      BY <2>1 DEF InitCluster
    <3>2. npm \in [Ids -> Host \cup {NoHost}] /\ \A i \in Ids : npm[i] # NoHost => i = 1
      BY <2>3, <3>1
    <3>3. orig \in [Ids -> Host \cup {NoHost}]
      BY <2>2, <3>1
    <3>4. creator \in [Ids -> Creators]
      BY <2>4 DEF Creators
    <3>5. nextId \in 1 .. MaxHosts + 1
      BY <3>1, MaxHostsAssumption
    <3>6. \A i \in Ids : i >= nextId => creator[i] = "none"
      BY <1>1, <2>4, <3>1
    <3>7. \A i \in Ids : Alive(i) => creator[i] # "none"
      BY <2>4, <3>2 DEF Alive
    <3> QED BY <3>2, <3>3, <3>4, <3>5, <3>6, <3>7 DEF NpmInv
  <2> QED BY <1>3, <2>6, <2>7 DEF IInv
<1> QED BY <1>4, <1>5

\* Steps of Reconcile that only read the cache or NPM.
LEMMA LocalActions ==
  ASSUME IInv,
         \/ \E k \in Keys : Dequeue(k)
         \/ InitNginxPMClient \/ RefetchLatest \/ CheckDomains
         \/ FindHostByID \/ BindExisting \/ NothingToBind \/ PrepareInput \/ Return
  PROVE  IInv'
<1>0. NoId \notin Ids
  BY MaxHostsAssumption, NullsAssumption DEF Ids
<1>1. ASSUME NEW k \in Keys, Dequeue(k) PROVE IInv'
  <2>1. CASE cache[k] = NoObj
    <3>1. RequestInv' /\ LocalInv' /\ PcInv' /\ faults' \in Nat /\ queue' \subseteq Keys
      BY <1>1, <2>1, VersionsSame
      DEF Dequeue, IInv, RequestInv, LocalInv, PcInv, BudgetInv, ClusterInv, FreshExists, npmVars
    <3> QED BY <1>1, <3>1, LocalStep DEF Dequeue
  <2>2. CASE cache[k] # NoObj
    <3>1. cache[k] \in Versions /\ (Fresh(k) => api[k] # NoObj)
      BY <2>2 DEF IInv, ClusterInv, CacheFollows, Fresh
    <3>2. RequestInv'
      BY <1>1, <2>2, <3>1, VersionsSame
      DEF Dequeue, GetObject, RequestInv, FreshExists, npmVars, Fresh
    <3>3. cache[k].deleting \in BOOLEAN
      BY <3>1, <2>2, VersionIsProxyHost DEF ProxyHost
    <3>4. LocalInv' /\ PcInv' /\ faults' \in Nat /\ queue' \subseteq Keys
      BY <1>1, <2>2, <3>3
      DEF Dequeue, IInv, LocalInv, PcInv, BudgetInv, ClusterInv, npmVars, PCs
    <3> QED BY <1>1, <3>2, <3>4, LocalStep DEF Dequeue
  <2> QED BY <2>1, <2>2
<1>2. ASSUME InitNginxPMClient PROVE IInv'
  <2>1. RequestInv' /\ queue' \subseteq Keys
    BY <1>2, VersionsSame
    DEF InitNginxPMClient, IInv, RequestInv, ClusterInv, FreshExists, kubeVars, npmVars
  <2>2. obj \in ProxyHost
    BY <1>2, VersionIsProxyHost DEF InitNginxPMClient, IInv, RequestInv
  <2>3. LocalInv' /\ PcInv'
    BY <1>2, <2>2
    DEF InitNginxPMClient, FinalizerOperation, ShouldRestoreInitialConfig, ProxyHost,
        IInv, LocalInv, PcInv, PCs, npmVars
  <2>4. faults' \in Nat
    BY <1>2, FaultKeeps DEF InitNginxPMClient, IInv, BudgetInv
  <2> QED BY <1>2, <2>1, <2>3, <2>4, LocalStep DEF InitNginxPMClient, kubeVars
<1>3. ASSUME RefetchLatest PROVE IInv'
  <2>1. req \in Keys /\ cache[req] \in Versions
    BY <1>3 DEF RefetchLatest, IInv, RequestInv, ClusterInv
  <2>2. cache[req] # NoObj /\ Fresh(req) => api[req] # NoObj
    BY <2>1 DEF IInv, ClusterInv, CacheFollows, Fresh
  <2>3. RequestInv' /\ queue' \subseteq Keys
    BY <1>3, <2>1, <2>2, VersionsSame
    DEF RefetchLatest, GetObject, IInv, RequestInv, ClusterInv, FreshExists, kubeVars, npmVars, Fresh
  <2>4. LocalInv' /\ PcInv' /\ faults' \in Nat
    BY <1>3 DEF RefetchLatest, IInv, LocalInv, PcInv, PCs, BudgetInv, npmVars
  <2> QED BY <1>3, <2>3, <2>4, LocalStep DEF RefetchLatest, kubeVars
<1>4. ASSUME CheckDomains PROVE IInv'
  <2>1. RequestInv' /\ queue' \subseteq Keys
    BY <1>4, VersionsSame
    DEF CheckDomains, IInv, RequestInv, ClusterInv, FreshExists, kubeVars, npmVars
  <2>2. LocalInv' /\ PcInv' /\ faults' \in Nat
    BY <1>4 DEF CheckDomains, IInv, LocalInv, PcInv, PCs, BudgetInv, npmVars
  <2> QED BY <1>4, <2>1, <2>2, LocalStep DEF CheckDomains, kubeVars
<1>5. ASSUME FindHostByID PROVE IInv'
  <2>1. obj \in ProxyHost /\ Truthful(obj)
    BY <1>5, VersionIsProxyHost DEF FindHostByID, IInv, RequestInv
  <2>2. host = NoId
    BY <1>5 DEF FindHostByID, IInv, PcInv
  <2>3. RequestInv' /\ queue' \subseteq Keys /\ faults' \in Nat
    BY <1>5, VersionsSame, FaultKeeps
    DEF FindHostByID, AfterFind, IInv, RequestInv, ClusterInv, FreshExists, BudgetInv,
        kubeVars, npmVars
  <2>4. LocalInv' /\ PcInv'
    BY <1>0, <1>5, <2>1, <2>2
    DEF FindHostByID, AfterFind, Truthful, ProxyHost, IInv, LocalInv, PcInv, PCs, npmVars
  <2> QED BY <1>5, <2>3, <2>4, LocalStep DEF FindHostByID, kubeVars
<1>6. ASSUME BindExisting PROVE IInv'
  <2>1. PICK i \in MatchingHosts(obj.spec.doms) :
          /\ host' = i
          /\ bound' = TRUE
          /\ captured' = IF ShouldCaptureInitialConfig(obj)
                         THEN CaptureInitialConfiguration(npm[i]) ELSE NoInit
          /\ pc' = AfterFind(i)
    BY <1>6 DEF BindExisting
  <2>2. i \in Ids /\ npm[i] \in Host /\ creator[i] # "none"
    BY <2>1 DEF MatchingHosts, IInv, NpmInv, Alive
  <2>3. captured' \in InitialConfiguration \cup {NoInit}
    BY <2>1, <2>2 DEF CaptureInitialConfiguration, Host, InitialConfiguration
  <2>4. RequestInv' /\ queue' \subseteq Keys /\ faults' \in Nat
    BY <1>6, <2>1, VersionsSame
    DEF BindExisting, AfterFind, IInv, RequestInv, ClusterInv, FreshExists, BudgetInv,
        kubeVars, npmVars
  <2>5. LocalInv' /\ PcInv'
    BY <1>6, <2>1, <2>2, <2>3
    DEF BindExisting, AfterFind, IInv, LocalInv, PcInv, PCs, npmVars
  <2> QED BY <1>6, <2>4, <2>5, LocalStep DEF BindExisting, kubeVars
<1>7. ASSUME NothingToBind PROVE IInv'
  <2>1. obj \in ProxyHost
    BY <1>7, VersionIsProxyHost DEF NothingToBind, IInv, RequestInv
  <2>2. RequestInv' /\ queue' \subseteq Keys /\ faults' \in Nat
    BY <1>7, VersionsSame, FaultKeeps
    DEF NothingToBind, IInv, RequestInv, ClusterInv, FreshExists, BudgetInv, kubeVars, npmVars
  <2>3. LocalInv' /\ PcInv'
    BY <1>7, <2>1 DEF NothingToBind, ProxyHost, IInv, LocalInv, PcInv, PCs, npmVars
  <2> QED BY <1>7, <2>2, <2>3, LocalStep DEF NothingToBind, kubeVars
<1>8. ASSUME PrepareInput PROVE IInv'
  <2>1. RequestInv' /\ queue' \subseteq Keys /\ faults' \in Nat
    BY <1>8, VersionsSame, FaultKeeps
    DEF PrepareInput, IInv, RequestInv, ClusterInv, FreshExists, BudgetInv, kubeVars, npmVars
  <2>2. LocalInv' /\ PcInv'
    BY <1>8 DEF PrepareInput, IInv, LocalInv, PcInv, PCs, npmVars
  <2> QED BY <1>8, <2>1, <2>2, LocalStep DEF PrepareInput, kubeVars
<1>9. ASSUME Return PROVE IInv'
  <2>1. queue' \subseteq Keys
    BY <1>9 DEF Return, IInv, RequestInv, ClusterInv
  <2>2. RequestInv'
    BY <1>9, NoObjIsVersion, VersionsSame DEF Return, Reset, RequestInv, FreshExists, npmVars
  <2>3. LocalInv' /\ PcInv' /\ faults' \in Nat
    BY <1>9 DEF Return, Reset, IInv, LocalInv, PcInv, PCs, BudgetInv
  <2> QED BY <1>9, <2>1, <2>2, <2>3, LocalStep DEF Return
<1> QED BY <1>1, <1>2, <1>3, <1>4, <1>5, <1>6, <1>7, <1>8, <1>9

\* Steps of Reconcile that write the resource.
LEMMA ResourceActions ==
  ASSUME IInv,
         \/ EnsureFinalizer \/ MarkReconciling \/ DropFinalizer
         \/ SaveStatus \/ MarkReady \/ MarkError
  PROVE  IInv'
<1>0. /\ pc # "idle" => req \in Keys /\ obj # NoObj /\ cache[req] \in Versions
      /\ fresh => api[req] \in Versions /\ api[req] # NoObj
  BY DEF IInv, RequestInv, ClusterInv, FreshExists
<1>1. ASSUME EnsureFinalizer PROVE IInv'
  <2>1. CASE UNCHANGED <<api, watch, obj, fresh, faults>>
    <3>1. RequestInv' /\ queue' \subseteq Keys /\ faults' \in Nat
      BY <1>1, <2>1, VersionsSame
      DEF EnsureFinalizer, IInv, RequestInv, ClusterInv, FreshExists, BudgetInv, npmVars
    <3>2. LocalInv' /\ PcInv'
      BY <1>1, <2>1 DEF EnsureFinalizer, IInv, LocalInv, PcInv, PCs, npmVars
    <3> QED BY <1>1, <2>1, <3>1, <3>2, LocalStep DEF EnsureFinalizer
  <2>2. CASE \E ok \in BOOLEAN : /\ UpdateObject(WithFinalizer(Encoded(api[req])), ok)
                                 /\ pc' = IF ok THEN "reconciling" ELSE "requeue"
    <3>1. fresh => WithFinalizer(Encoded(api[req])) \in Versions
      BY <1>0, FinalizerKeeps
    <3>2. orig' \in [Ids -> Host \cup {NoHost}]
      BY <1>1 DEF EnsureFinalizer, npmVars, IInv, NpmInv
    <3> QED BY <1>1, <2>2, <3>1, <3>2, ObjectStep DEF EnsureFinalizer, npmVars
  <2> QED BY <1>1, <2>1, <2>2 DEF EnsureFinalizer, AddFinalizer
<1>2. ASSUME MarkReconciling PROVE IInv'
  <2>1. CASE UNCHANGED <<api, watch, obj, fresh, faults>>
    <3>1. RequestInv' /\ queue' \subseteq Keys /\ faults' \in Nat
      BY <1>2, <2>1, VersionsSame
      DEF MarkReconciling, IInv, RequestInv, ClusterInv, FreshExists, BudgetInv, npmVars
    <3>2. LocalInv' /\ PcInv'
      BY <1>2, <2>1 DEF MarkReconciling, IInv, LocalInv, PcInv, PCs, npmVars
    <3> QED BY <1>2, <2>1, <3>1, <3>2, LocalStep DEF MarkReconciling
  <2>2. CASE \E ok \in BOOLEAN : UpdateStatus(SetCondition(cache[req], "Reconciling"), ok)
    <3>1. cache[req] # NoObj => SetCondition(cache[req], "Reconciling") \in Versions \ {NoObj}
      BY <1>0, <1>2, ConditionKeeps DEF MarkReconciling, ConditionTypes
    <3> QED BY <1>2, <2>2, <3>1, StatusStep DEF MarkReconciling
  <2> QED BY <1>2, <2>1, <2>2 DEF MarkReconciling
<1>3. ASSUME DropFinalizer PROVE IInv'
  <2>1. orig' \in [Ids -> Host \cup {NoHost}]
    BY <1>3 DEF DropFinalizer, IInv, NpmInv
  <2>2. CASE UNCHANGED <<api, watch, obj, fresh, faults>>
    <3>1. RequestInv' /\ faults' \in Nat
      BY <1>3, <2>2, VersionsSame
      DEF DropFinalizer, IInv, RequestInv, FreshExists, BudgetInv
    <3>2. ClusterInv'
      BY <1>3, <2>2, ClusterFrame DEF DropFinalizer, IInv, ClusterInv, NpmInv
    <3>3. LocalInv' /\ PcInv' /\ BudgetInv'
      BY <1>3, <3>1 DEF DropFinalizer, IInv, LocalInv, PcInv, PCs, BudgetInv
    <3>4. NpmInv'
      BY <1>3, <2>1 DEF DropFinalizer, IInv, NpmInv, Alive
    <3> QED BY <3>1, <3>2, <3>3, <3>4 DEF IInv
  <2>3. CASE \E ok \in BOOLEAN : /\ UpdateObject(WithoutFinalizer(Encoded(api[req])), ok)
                                 /\ pc' = IF ok THEN "done" ELSE "requeue"
    <3>1. fresh => WithoutFinalizer(Encoded(api[req])) \in Versions
      BY <1>0, FinalizerKeeps
    <3> QED BY <1>3, <2>1, <2>3, <3>1, ObjectStep DEF DropFinalizer
  <2> QED BY <1>3, <2>2, <2>3 DEF DropFinalizer, RemoveFinalizer
<1>4. ASSUME SaveStatus PROVE IInv'
  <2>1. cache[req] # NoObj => Recorded(cache[req]) \in Versions \ {NoObj}
    BY <1>0, <1>4, RecordedKeeps DEF SaveStatus, IInv
  <2> QED BY <1>4, <2>1, StatusStep DEF SaveStatus
<1>5. ASSUME MarkReady PROVE IInv'
  <2>1. cache[req] # NoObj => SetCondition(cache[req], "Ready") \in Versions \ {NoObj}
    BY <1>0, <1>5, ConditionKeeps DEF MarkReady, ConditionTypes
  <2> QED BY <1>5, <2>1, StatusStep DEF MarkReady
<1>6. ASSUME MarkError PROVE IInv'
  <2>1. cache[req] # NoObj => SetCondition(cache[req], "Error") \in Versions \ {NoObj}
    BY <1>0, <1>6, ConditionKeeps DEF MarkError, ConditionTypes
  <2> QED BY <1>6, <2>1, StatusStep DEF MarkError
<1> QED BY <1>1, <1>2, <1>3, <1>4, <1>5, <1>6

\* Steps of Reconcile that call NPM.
LEMMA HostActions ==
  ASSUME IInv,
         \/ RestoreHost \/ ReenableHost \/ DisableHost
         \/ EnableHost \/ UpdateHost \/ FollowUp
  PROVE  IInv' /\ HostsStay
<1>0. /\ NpmInv /\ faults \in Nat /\ (pc # "idle" => obj \in ProxyHost)
      /\ \A i \in Ids : Alive(i) => npm[i].unscoped \in Upstreams
  BY VersionIsProxyHost DEF IInv, BudgetInv, RequestInv, NpmInv, Alive, Host
<1>1. ASSUME RestoreHost PROVE IInv' /\ HostsStay
  <2>1. obj.init \in InitialConfiguration /\ obj.id \in Ids
    BY <1>0, <1>1 DEF RestoreHost, IInv, PcInv, ProxyHost
  <2>2. BuildRestorationInput(obj.init, obj.id) \in Bodies
    BY <1>0, <2>1, ConstantsAssumption DEF BuildRestorationInput, Body, Bodies, InitialConfiguration
  <2>3. NpmInv' /\ creator' = creator /\ HostsStay /\ faults' \in Nat
    BY <1>0, <1>1, <2>2, UpdateProxyHostKeeps DEF RestoreHost
  <2> QED BY <1>1, <2>3, NpmStep DEF RestoreHost
<1>2. ASSUME ReenableHost PROVE IInv' /\ HostsStay
  <2>1. NpmInv' /\ creator' = creator /\ HostsStay /\ faults' \in Nat
    BY <1>0, <1>2, EnableKeeps DEF ReenableHost
  <2> QED BY <1>2, <2>1, NpmStep DEF ReenableHost
<1>3. ASSUME DisableHost PROVE IInv' /\ HostsStay
  <2>1. NpmInv' /\ creator' = creator /\ HostsStay /\ faults' \in Nat
    BY <1>0, <1>3, EnableKeeps DEF DisableHost
  <2> QED BY <1>3, <2>1, NpmStep DEF DisableHost
<1>4. ASSUME EnableHost PROVE IInv' /\ HostsStay
  <2>1. NpmInv' /\ creator' = creator /\ HostsStay /\ faults' \in Nat
    BY <1>0, <1>4, EnableKeeps DEF EnableHost
  <2> QED BY <1>4, <2>1, NpmStep DEF EnableHost
<1>5. ASSUME UpdateHost PROVE IInv' /\ HostsStay
  <2>1. host \in Ids /\ obj.spec \in ProxyHostSpec
    BY <1>0, <1>5 DEF UpdateHost, IInv, LocalInv, PcInv, ProxyHost
  <2>2. UpdateInput(obj, host) \in Bodies
    BY <1>0, <2>1, ConstantsAssumption DEF UpdateInput, Body, Bodies, ProxyHostSpec
  <2>3. NpmInv' /\ creator' = creator /\ HostsStay /\ faults' \in Nat
    BY <1>0, <1>5, <2>2, UpdateProxyHostKeeps DEF UpdateHost
  <2> QED BY <1>5, <2>3, NpmStep DEF UpdateHost
<1>6. ASSUME FollowUp PROVE IInv' /\ HostsStay
  <2>1. obj.spec \in ProxyHostSpec
    BY <1>0, <1>6 DEF FollowUp, ProxyHost
  <2>2. CreateInput(obj) \in Bodies
    BY <2>1, ConstantsAssumption DEF CreateInput, Body, Bodies, ProxyHostSpec
  <2>3. NpmInv' /\ creator' = creator /\ HostsStay /\ faults' \in Nat
    BY <1>0, <1>6, <2>2, UpdateProxyHostKeeps DEF FollowUp
  <2> QED BY <1>6, <2>3, NpmStep DEF FollowUp
<1> QED BY <1>1, <1>2, <1>3, <1>4, <1>5, <1>6

\* The deletion of the recorded host keeps the invariant.
LEMMA DeleteHostKeeps ==
  ASSUME IInv, DeleteHost
  PROVE  IInv'
<1>1. NpmInv' /\ creator' = creator /\ faults' \in Nat
  BY DeleteKeeps DEF DeleteHost, IInv, BudgetInv
<1> QED BY <1>1, NpmStep DEF DeleteHost

\* The new host is the operator's, and no version recorded its id before.
LEMMA CreateHostKeeps ==
  ASSUME IInv, CreateHost
  PROVE  IInv'
<1>0. NoId \notin Ids /\ Ids \subseteq Nat
  BY MaxHostsAssumption, NullsAssumption DEF Ids
<1>1. /\ req \in Keys /\ obj \in Versions /\ obj # NoObj /\ obj.spec \in ProxyHostSpec
      /\ creator \in [Ids -> Creators]
  BY VersionIsProxyHost DEF CreateHost, IInv, RequestInv, NpmInv, ProxyHost
<1>2. PICK ok \in BOOLEAN :
        /\ CreateProxyHost(CreateInput(obj), ok)
        /\ pc' = IF ok THEN "followUp" ELSE "fail"
        /\ host' = IF ok THEN nextId ELSE NoId
  BY DEF CreateHost
<1>3. faults' \in Nat
  BY <1>2, FaultKeeps DEF CreateProxyHost, IInv, BudgetInv
<1>4. CASE UNCHANGED npmVars /\ ~ok
  <2>1. ClusterInv'
    BY <1>1, <1>4, ClusterFrame DEF CreateHost, IInv, ClusterInv, kubeVars, npmVars
  <2>2. RequestInv'
    BY <1>1, <1>2, <1>4, VersionsSame
    DEF CreateHost, IInv, RequestInv, FreshExists, kubeVars, npmVars
  <2>3. LocalInv' /\ PcInv' /\ BudgetInv'
    BY <1>2, <1>3, <1>4
    DEF CreateHost, IInv, LocalInv, PcInv, PCs, BudgetInv, npmVars
  <2> QED BY <1>4, <2>1, <2>2, <2>3, NpmFrame DEF IInv
<1>5. CASE Post(CreateInput(obj))
  <2>1. /\ nextId \in Ids /\ nextId' = nextId + 1 /\ orig' = orig
        /\ creator' = [creator EXCEPT ![nextId] = "operator"]
        /\ npm' = [npm EXCEPT ![nextId] = [doms |-> obj.spec.doms, cfg |-> obj.spec.cfg,
                                           unscoped |-> "none", enabled |-> TRUE]]
    BY <1>5 DEF Post, CreateInput, Body
  <2>2. creator[nextId] = "none"
    BY <1>0, <2>1 DEF IInv, NpmInv
  <2>3. \A i \in Ids : creator[i] # "none" => creator'[i] = creator[i]
    BY <1>1, <2>1, <2>2
  <2>4. ClusterInv'
    BY <1>1, <2>3, ClusterFrame DEF CreateHost, IInv, ClusterInv, kubeVars
  <2>5. RequestInv'
    <3>1. obj' \in Versions'
      BY <1>1, <2>3, VersionsGrow DEF CreateHost
    <3> QED BY <1>1, <1>2, <3>1 DEF CreateHost, IInv, RequestInv, FreshExists, kubeVars
  <2>6. NpmInv'
    <3>1. [doms |-> obj.spec.doms, cfg |-> obj.spec.cfg,
           unscoped |-> "none", enabled |-> TRUE] \in Host
      BY <1>1, ConstantsAssumption DEF Host, ProxyHostSpec
    <3>2. npm' \in [Ids -> Host \cup {NoHost}] /\ orig' \in [Ids -> Host \cup {NoHost}]
      BY <2>1, <3>1 DEF IInv, NpmInv
    <3>3. creator' \in [Ids -> Creators]
      BY <1>1, <2>1 DEF Creators
    <3>4. nextId' \in 1 .. MaxHosts + 1
      BY <2>1, MaxHostsAssumption DEF Ids
    <3>5. \A i \in Ids : i >= nextId' => creator'[i] = "none"
      BY <1>0, <1>1, <2>1 DEF IInv, NpmInv
    <3>6. \A i \in Ids : Alive(i)' => creator'[i] # "none"
      BY <1>1, <2>1, <2>3 DEF IInv, NpmInv, Alive
    <3> QED BY <3>2, <3>3, <3>4, <3>5, <3>6 DEF NpmInv
  <2>7. LocalInv'
    BY <1>0, <1>1, <1>2, <2>1
    DEF CreateHost, IInv, LocalInv, PCs
  <2>8. PcInv' /\ BudgetInv'
    BY <1>2, <1>3 DEF CreateHost, IInv, PcInv, BudgetInv
  <2> QED BY <2>4, <2>5, <2>6, <2>7, <2>8 DEF IInv
<1> QED BY <1>2, <1>4, <1>5 DEF CreateProxyHost

\* A user's write stores an acceptable version.
LEMMA UserWriteKeeps ==
  ASSUME IInv, NEW k \in Keys, NEW v \in Versions, UserWrite(k, v), ops' \in Nat
  PROVE  IInv'
<1>1. /\ Publish(k, v)
      /\ fresh' = (fresh /\ req # k)
      /\ UNCHANGED <<cache, queue, req, obj, faults, localVars, npmVars>>
  BY DEF UserWrite
<1>2. api \in [Keys -> Versions] /\ watch \in [Keys -> Seq(Versions)] /\ CacheFollows
  BY DEF IInv, ClusterInv
<1>3. /\ api' \in [Keys -> Versions]
      /\ watch' \in [Keys -> Seq(Versions)]
      /\ \A j \in Keys \ {k} : api'[j] = api[j]
  BY <1>1, <1>2, PublishKeeps
<1>4. CacheFollows'
  BY <1>1, <1>2, PublishFollows
<1>5. Versions' = Versions
  BY <1>1, VersionsSame DEF npmVars
<1>6. ClusterInv'
  BY <1>1, <1>3, <1>4, <1>5 DEF IInv, ClusterInv
<1>7. RequestInv'
  BY <1>1, <1>3, <1>5 DEF IInv, RequestInv, FreshExists, localVars
<1>8. LocalInv' /\ PcInv' /\ BudgetInv'
  BY <1>1 DEF IInv, LocalInv, PcInv, BudgetInv, localVars, npmVars
<1> QED BY <1>1, <1>6, <1>7, <1>8, NpmFrame DEF IInv

\* The actions of users, and the triggers, keep the invariant.
LEMMA UserActions ==
  ASSUME IInv, NEW k \in Keys,
         UserCreate(k) \/ UserEdit(k) \/ UserDelete(k) \/ Trigger(k)
  PROVE  IInv'
<1>0. ops \in Nat
  BY DEF IInv, BudgetInv
<1>1. ASSUME UserCreate(k) PROVE IInv'
  <2>1. PICK s \in Specs : UserWrite(k, NewObject(s))
    BY <1>1 DEF UserCreate
  <2>2. NewObject(s) \in Versions
    <3>1. NewObject(s) \in ProxyHost
      BY ConstantsAssumption DEF NewObject, ProxyHost
    <3>2. Truthful(NewObject(s))
      BY DEF NewObject, Truthful
    <3> QED BY <3>1, <3>2 DEF Versions
  <2>3. ops' \in Nat
    BY <1>0, <1>1 DEF UserCreate, Op
  <2> QED BY <2>1, <2>2, <2>3, UserWriteKeeps
<1>2. ASSUME UserEdit(k) PROVE IInv'
  <2>1. PICK s \in Specs : UserWrite(k, [api[k] EXCEPT !.spec = s])
    BY <1>2 DEF UserEdit
  <2>2. api[k] \in ProxyHost /\ Truthful(api[k])
    BY <1>2, VersionIsProxyHost DEF UserEdit, IInv, ClusterInv
  <2>3. [api[k] EXCEPT !.spec = s] \in Versions
    <3>1. [api[k] EXCEPT !.spec = s] \in ProxyHost
      BY <2>2, ConstantsAssumption DEF ProxyHost
    <3>2. Truthful([api[k] EXCEPT !.spec = s])
      BY <2>2 DEF Truthful, ProxyHost
    <3> QED BY <3>1, <3>2 DEF Versions
  <2>4. ops' \in Nat
    BY <1>0, <1>2 DEF UserEdit, Op
  <2> QED BY <2>1, <2>3, <2>4, UserWriteKeeps
<1>3. ASSUME UserDelete(k) PROVE IInv'
  <2> DEFINE v == IF api[k].fin THEN [api[k] EXCEPT !.deleting = TRUE] ELSE NoObj
  <2>1. UserWrite(k, v)
    BY <1>3 DEF UserDelete
  <2>2. api[k] \in ProxyHost /\ Truthful(api[k])
    BY <1>3, VersionIsProxyHost DEF UserDelete, IInv, ClusterInv
  <2>3. [api[k] EXCEPT !.deleting = TRUE] \in Versions
    <3>1. [api[k] EXCEPT !.deleting = TRUE] \in ProxyHost
      BY <2>2 DEF ProxyHost
    <3>2. Truthful([api[k] EXCEPT !.deleting = TRUE])
      BY <2>2 DEF Truthful, ProxyHost
    <3> QED BY <3>1, <3>2 DEF Versions
  <2>4. v \in Versions
    BY <2>3, NoObjIsVersion
  <2>5. ops' \in Nat
    BY <1>0, <1>3 DEF UserDelete, Op
  <2> HIDE DEF v
  <2> QED BY <2>1, <2>4, <2>5, UserWriteKeeps
<1>4. ASSUME Trigger(k) PROVE IInv'
  <2>1. queue' \subseteq Keys
    BY <1>4 DEF Trigger, IInv, ClusterInv
  <2>2. RequestInv'
    BY <1>4, VersionsSame
    DEF Trigger, IInv, RequestInv, FreshExists, helperVars, localVars, npmVars
  <2>3. LocalInv' /\ PcInv' /\ faults' \in Nat
    BY <1>4 DEF Trigger, IInv, LocalInv, PcInv, BudgetInv, helperVars, localVars, npmVars
  <2> QED BY <1>4, <2>1, <2>2, <2>3, LocalStep DEF Trigger
<1> QED BY <1>1, <1>2, <1>3, <1>4

\* Administrators change NPM only; a host they create was nobody's before.
LEMMA AdminActions ==
  ASSUME IInv, AdminCreate \/ \E i \in Ids : AdminRemove(i) \/ AdminDisable(i)
  PROVE  IInv'
<1>0. Ids \subseteq Nat /\ creator \in [Ids -> Creators] /\ ops \in Nat
  BY DEF Ids, IInv, NpmInv, BudgetInv
<1>1. /\ UNCHANGED <<kubeVars, helperVars, localVars>>
      /\ ops' \in Nat
      /\ NpmInv'
      /\ \A i \in Ids : creator[i] # "none" => creator'[i] = creator[i]
  <2>1. CASE AdminCreate
    <3>1. PICK h \in ForeignHosts : npm' = [npm EXCEPT ![nextId] = h]
      BY <2>1 DEF AdminCreate
    <3>2. /\ nextId \in Ids /\ nextId' = nextId + 1 /\ orig' = orig
          /\ creator' = [creator EXCEPT ![nextId] = "admin"]
          /\ creator[nextId] = "none" /\ h \in Host
      BY <1>0, <2>1, ConstantsAssumption DEF AdminCreate, IInv, NpmInv
    <3>3. npm' \in [Ids -> Host \cup {NoHost}] /\ creator' \in [Ids -> Creators]
      BY <1>0, <3>1, <3>2 DEF IInv, NpmInv, Creators
    <3>4. nextId' \in 1 .. MaxHosts + 1
      BY <3>2, MaxHostsAssumption DEF Ids
    <3>5. \A i \in Ids : i >= nextId' => creator'[i] = "none"
      BY <1>0, <3>2 DEF IInv, NpmInv
    <3>6. \A i \in Ids : creator[i] # "none" => creator'[i] = creator[i]
      BY <1>0, <3>2
    <3>7. \A i \in Ids : Alive(i)' => creator'[i] # "none"
      BY <1>0, <3>1, <3>2 DEF IInv, NpmInv, Alive
    <3>8. NpmInv'
      BY <3>2, <3>3, <3>4, <3>5, <3>7 DEF IInv, NpmInv
    <3> QED BY <1>0, <2>1, <3>6, <3>8 DEF AdminCreate, Op
  <2>2. ASSUME NEW i \in Ids, AdminRemove(i) \/ AdminDisable(i)
        PROVE  /\ NpmInv' /\ creator' = creator
               /\ UNCHANGED <<kubeVars, helperVars, localVars>> /\ ops' \in Nat
    <3>0. npm[i] \in Host
      BY <2>2 DEF AdminRemove, AdminDisable, IInv, NpmInv, Alive
    <3>1. [npm[i] EXCEPT !.enabled = FALSE] \in Host
      BY <3>0 DEF Host
    <3>2. npm' \in [Ids -> Host \cup {NoHost}] /\ \A j \in Ids : Alive(j)' => Alive(j)
      BY <2>2, <3>1 DEF AdminRemove, AdminDisable, IInv, NpmInv, Alive
    <3> QED BY <1>0, <2>2, <3>2 DEF AdminRemove, AdminDisable, Op, IInv, NpmInv
  <2> QED BY <2>1, <2>2
<1>2. ClusterInv'
  BY <1>0, <1>1, ClusterFrame DEF IInv, ClusterInv, kubeVars
<1>3. Versions \subseteq Versions'
  BY <1>0, <1>1, VersionsGrow
<1>4. RequestInv'
  BY <1>1, <1>3 DEF IInv, RequestInv, FreshExists, kubeVars, helperVars, localVars
<1>5. LocalInv' /\ PcInv' /\ BudgetInv'
  BY <1>1 DEF IInv, LocalInv, PcInv, BudgetInv, helperVars, localVars
<1> QED BY <1>1, <1>2, <1>4, <1>5 DEF IInv

\* A crash with its restart, and every watch event, keep the invariant.
LEMMA ProcessActions ==
  ASSUME IInv, Crash \/ \E k \in Keys : WatchEvent(k)
  PROVE  IInv'
<1>0. /\ api \in [Keys -> Versions] /\ cache \in [Keys -> Versions] /\ queue \subseteq Keys
      /\ watch \in [Keys -> Seq(Versions)] /\ CacheFollows
  BY DEF IInv, ClusterInv
<1>1. ASSUME Crash PROVE IInv'
  <2>1. Versions' = Versions
    BY <1>1, VersionsSame DEF Crash, npmVars
  <2>2. ClusterInv'
    BY <1>0, <1>1, <2>1, RelistKeeps, RelistFollows DEF Crash, ClusterInv
  <2>3. RequestInv' /\ LocalInv' /\ PcInv'
    BY <1>1, <2>1, NoObjIsVersion
    DEF Crash, Reset, RequestInv, FreshExists, LocalInv, PcInv, PCs
  <2>4. BudgetInv'
    BY <1>1, FaultKeeps DEF Crash, IInv, BudgetInv
  <2> QED BY <1>1, <2>2, <2>3, <2>4, NpmFrame DEF Crash, IInv
<1>2. ASSUME NEW k \in Keys, WatchEvent(k) PROVE IInv'
  <2>1. Versions' = Versions
    BY <1>2, VersionsSame DEF WatchEvent, npmVars
  <2>2. /\ cache' \in [Keys -> Versions] /\ watch' \in [Keys -> Seq(Versions)]
        /\ queue' \subseteq Keys /\ api' = api /\ CacheFollows'
    BY <1>0, <1>2, DeliverKeeps, DeliverFollows DEF WatchEvent
  <2>3. ClusterInv'
    BY <1>0, <2>1, <2>2 DEF ClusterInv
  <2>4. RequestInv'
    BY <1>2, <2>1, <2>2 DEF WatchEvent, IInv, RequestInv, FreshExists, helperVars, localVars
  <2>5. LocalInv' /\ PcInv' /\ BudgetInv'
    BY <1>2 DEF WatchEvent, IInv, LocalInv, PcInv, BudgetInv, helperVars, localVars, npmVars
  <2> QED BY <1>2, <2>3, <2>4, <2>5, NpmFrame DEF WatchEvent, IInv
<1> QED BY <1>1, <1>2

\* Every step keeps the invariant.
LEMMA NextIInv == IInv /\ [Next]_vars => IInv'
<1> SUFFICES ASSUME IInv, [Next]_vars PROVE IInv'
  OBVIOUS
<1>1. CASE UNCHANGED vars
  <2>1. queue' \subseteq Keys /\ RequestInv' /\ LocalInv' /\ PcInv' /\ faults' \in Nat
    BY <1>1, VersionsSame
    DEF vars, kubeVars, helperVars, localVars, npmVars, IInv, ClusterInv, RequestInv,
        FreshExists, LocalInv, PcInv, BudgetInv
  <2> QED BY <1>1, <2>1, LocalStep DEF vars, kubeVars, npmVars
<1>2. CASE Reconcile \/ \E k \in Keys : Dequeue(k)
  BY <1>2, LocalActions, ResourceActions, HostActions, DeleteHostKeeps, CreateHostKeeps
  DEF Reconcile
<1>3. CASE Environment \/ \E k \in Keys : WatchEvent(k)
  BY <1>3, UserActions, AdminActions, ProcessActions DEF Environment
<1> QED BY <1>1, <1>2, <1>3 DEF Next
-----------------------------------------------------------------------------
(* The theorems                                                             *)

\* Every reachable state satisfies the inductive invariant: in particular no
\* version of a resource, on the server, in the cache, in the watch or in the
\* worker's hands, records an administrator's host without saying Bound.
THEOREM Invariance == Spec => []IInv
BY InitIInv, NextIInv, PTL DEF Spec

\* Reconcile, the helpers and the API server keep every variable in its type.
THEOREM TypeCorrect == Spec => []TypeOK
<1>1. Versions \subseteq ProxyHost \cup {NoObj}
  BY DEF Versions
<1>2. IInv => TypeOK
  <2> SUFFICES ASSUME IInv PROVE TypeOK
    OBVIOUS
  <2>1. watch \in [Keys -> Seq(ProxyHost \cup {NoObj})]
    <3>1. Seq(Versions) \subseteq Seq(ProxyHost \cup {NoObj})
      BY <1>1, SeqMonotonic, Zenon
    <3> QED BY <3>1 DEF IInv, ClusterInv
  <2> QED BY <1>1, <2>1
          DEF IInv, ClusterInv, NpmInv, RequestInv, LocalInv, BudgetInv, TypeOK
<1> QED BY <1>2, Invariance, PTL

\* A host goes from NPM by the finalizer's deletion or by an administrator's.
LEMMA WhoRemoves ==
  ASSUME IInv, Next, NEW i \in Ids, Alive(i), npm'[i] = NoHost
  PROVE  (DeleteHost /\ obj.id = i) \/ AdminRemove(i)
<1>0. npm \in [Ids -> Host \cup {NoHost}] /\ npm[i] \in Host
  BY DEF IInv, NpmInv, Alive
<1>1. CASE DeleteHost
  <2>1. npm' = [npm EXCEPT ![obj.id] = NoHost] \/ UNCHANGED npm
    BY <1>1 DEF DeleteHost, DeleteProxyHost, npmVars
  <2> QED BY <1>0, <1>1, <2>1, NullsAssumption
<1>2. CASE CreateHost \/ AdminCreate
  <2>1. \/ UNCHANGED npmVars
        \/ nextId \in Ids /\ \E h : npm' = [npm EXCEPT ![nextId] = h]
    BY <1>2 DEF CreateHost, CreateProxyHost, Post, AdminCreate
  <2>2. nextId \in Ids => creator[nextId] = "none" /\ creator[i] # "none"
    BY DEF IInv, NpmInv, Ids
  <2> QED BY <1>0, <2>1, <2>2 DEF npmVars, Alive
<1>3. CASE \E j \in Ids : AdminRemove(j) \/ AdminDisable(j)
  <2>1. PICK j \in Ids : AdminRemove(j) \/ AdminDisable(j)
    BY <1>3
  <2>2. CASE j = i /\ AdminDisable(j)
    <3>1. npm'[i] = [npm[i] EXCEPT !.enabled = FALSE]
      BY <1>0, <2>2 DEF AdminDisable
    <3>2. npm'[i] \in Host
      BY <1>0, <3>1 DEF Host
    <3> QED BY <3>2, NullsAssumption
  <2>3. CASE j # i
    BY <1>0, <2>1, <2>3 DEF AdminRemove, AdminDisable, Alive
  <2> QED BY <2>1, <2>2, <2>3
<1>4. CASE \/ RestoreHost \/ ReenableHost \/ DisableHost
           \/ EnableHost \/ UpdateHost \/ FollowUp
  BY <1>4, HostActions DEF HostsStay
<1>5. CASE UNCHANGED npm
  BY <1>5 DEF Alive
<1>6. \/ DeleteHost \/ CreateHost \/ AdminCreate
      \/ \E j \in Ids : AdminRemove(j) \/ AdminDisable(j)
      \/ RestoreHost \/ ReenableHost \/ DisableHost \/ EnableHost \/ UpdateHost \/ FollowUp
      \/ UNCHANGED npm
  <2>1. CASE \E k \in Keys : Dequeue(k) \/ WatchEvent(k)
    BY <2>1 DEF Dequeue, WatchEvent, npmVars
  <2>2. CASE Reconcile
    BY <2>2 DEF Reconcile, EnsureFinalizer, MarkReconciling, InitNginxPMClient, RefetchLatest,
                DropFinalizer, CheckDomains, FindHostByID, BindExisting, NothingToBind,
                PrepareInput, SaveStatus, MarkReady, MarkError, Return, npmVars
  <2>3. CASE Environment
    BY <2>3 DEF Environment, UserCreate, UserEdit, UserDelete, UserWrite, Trigger, Crash, npmVars
  <2> QED BY <2>1, <2>2, <2>3 DEF Next
<1> QED BY <1>1, <1>2, <1>3, <1>4, <1>5, <1>6

\* Whatever faults happen, the only step that removes a host an administrator
\* created is the administrator's: DeleteProxyHost is reached with an unbound
\* record, and an unbound record is of a host the operator created.
THEOREM ForeignHostsAreSafe == Spec => ForeignHostsSurvive
<1> DEFINE A == \A i \in Ids : creator[i] = "admin" /\ Alive(i) /\ npm'[i] = NoHost
                                 => AdminRemove(i)
<1>1. IInv /\ [Next]_vars => [A]_vars
  <2> SUFFICES ASSUME IInv, Next, NEW i \in Ids,
                      creator[i] = "admin", Alive(i), npm'[i] = NoHost
               PROVE  AdminRemove(i)
    OBVIOUS
  <2>1. ASSUME DeleteHost, obj.id = i
        PROVE  FALSE
    BY <2>1, VersionIsProxyHost DEF DeleteHost, IInv, PcInv, RequestInv, Truthful
  <2> QED BY <2>1, WhoRemoves
<1> QED BY <1>1, Invariance, PTL DEF Spec, ForeignHostsSurvive
-----------------------------------------------------------------------------
(* The finalizer.  A resource that records a host carries the finalizer.   *)
(* The worker decides on cached versions, so the invariant relates every   *)
(* version that the cache holds or will hold to the stored one (Before).   *)

MarkedPCs == {"restore", "reenable", "disable", "delete", "refetch", "removeFinalizer"}

CreatePCs == {"unique", "find", "enable", "prepare", "update", "create", "followUp", "save",
              "ready", "fail"}

\* What Reconcile knows of the stored object, besides what it reads.
WorkerInv ==
  /\ pc \in MarkedPCs => marked
  /\ pc \in CreatePCs => ~marked
  /\ pc = "finalizer" => marked = obj.deleting
  /\ pc = "finalizer" /\ obj.fin /\ ~obj.deleting => Finalized(api[req])
  /\ pc \in {"finalizer", "removeFinalizer"} /\ fresh => obj = api[req] /\ Fresh(req)
  /\ pc \in CreatePCs \cup {"reconciling", "client"} /\ ~marked => Finalized(api[req])
  /\ pc # "idle" /\ marked /\ Finalized(api[req]) => Deleting(api[req])

FInv == IInv /\ SeenInv /\ WorkerInv /\ RecordedHostHasFinalizer
-----------------------------------------------------------------------------
(* What the cache holds and will hold.                                      *)

\* The facts about the cluster that the lemmas below need.
LEMMA ClusterTypes ==
  ASSUME IInv
  PROVE  /\ api \in [Keys -> Versions]
         /\ cache \in [Keys -> Versions]
         /\ watch \in [Keys -> Seq(Versions)]
         /\ CacheFollows
BY DEF IInv, ClusterInv
-----------------------------------------------------------------------------
(* Steps                                                                    *)

\* A step that leaves the cluster alone leaves every version in its place.
LEMMA QuietSeen ==
  ASSUME SeenInv, RecordedHostHasFinalizer, UNCHANGED <<api, cache, watch>>
  PROVE  SeenInv' /\ RecordedHostHasFinalizer'
<1>1. \A k \in Keys : Seen(k)' = Seen(k)
  BY DEF Seen
<1> QED BY <1>1 DEF SeenInv, RecordedHostHasFinalizer, Live

\* What a status write is allowed to be, given what is stored.
StatusOf(v, o) ==
  v \in Versions /\ SameLife(v, o) /\ (v.id = o.id \/ Finalized(o))

\* SetCondition writes a status that leaves the record as it is.
LEMMA ConditionIsStatus ==
  ASSUME NEW o \in Versions, o # NoObj, NEW type \in ConditionTypes
  PROVE  StatusOf(SetCondition(o, type), o)
<1>1. o \in ProxyHost
  BY VersionIsProxyHost
<1>2. SetCondition(o, type) \in Versions \ {NoObj}
  BY ConditionKeeps
<1> QED BY <1>1, <1>2 DEF StatusOf, SameLife, SetCondition, ProxyHost

\* UpdateStatus writes over the version it read: neither the finalizer nor the
\* deletion mark of the stored object changes.
LEMMA UpdateStatusLife ==
  ASSUME IInv, SeenInv, RecordedHostHasFinalizer, req \in Keys, NEW v, NEW ok,
         cache[req] # NoObj /\ Fresh(req) => StatusOf(v, cache[req]),
         UpdateStatus(v, ok), UNCHANGED cache
  PROVE  /\ SeenInv' /\ RecordedHostHasFinalizer'
         /\ Finalized(api'[req]) = Finalized(api[req])
         /\ Deleting(api'[req]) = Deleting(api[req])
<1>1. CASE UNCHANGED <<api, watch>>
  BY <1>1, QuietSeen
<1>2. CASE cache[req] # NoObj /\ Fresh(req) /\ Publish(req, v)
  <2>1. api[req] = cache[req] /\ Seen(req) = {api[req]}
    BY <1>2, ClusterTypes, FreshSeen
  <2>2. v \in Versions /\ SameLife(v, api[req]) /\ (v.id = api[req].id \/ Finalized(api[req]))
    BY <1>2, <2>1 DEF StatusOf
  <2>3. api'[req] = v /\ \A j \in Keys \ {req} : api'[j] = api[j]
    BY <1>2, <2>2, ClusterTypes, PublishKeeps
  <2>4. Finalized(v) = Finalized(api[req]) /\ Deleting(v) = Deleting(api[req])
    BY <2>2 DEF SameLife, Finalized, Deleting
  <2>5. Before(api[req], v)
    BY <2>4 DEF Before
  <2>6. SeenInv'
    BY <1>2, <2>1, <2>2, <2>5, ClusterTypes, PublishSeen
  <2>7. api'[req].id # NoId => api'[req].fin
    BY <2>2, <2>3 DEF SameLife, Finalized, RecordedHostHasFinalizer, Live
  <2>8. RecordedHostHasFinalizer'
    BY <2>3, <2>7 DEF RecordedHostHasFinalizer, Live
  <2> QED BY <2>3, <2>4, <2>6, <2>8
<1> QED BY <1>1, <1>2 DEF UpdateStatus

\* The status writes of Reconcile keep the finalizer of a recorded host: the
\* one that records it comes after AddFinalizer.
LEMMA StatusSteps ==
  ASSUME FInv, MarkReconciling \/ SaveStatus \/ MarkReady \/ MarkError
  PROVE  SeenInv' /\ WorkerInv' /\ RecordedHostHasFinalizer'
<1>0. IInv /\ SeenInv /\ WorkerInv /\ RecordedHostHasFinalizer
  BY DEF FInv
<1>1. /\ req \in Keys /\ UNCHANGED <<cache, req, marked>> /\ pc # "idle"
      /\ cache[req] \in Versions
  BY <1>0, ClusterTypes
  DEF IInv, RequestInv, MarkReconciling, SaveStatus, MarkReady, MarkError
<1>2. \A type \in ConditionTypes :
        cache[req] # NoObj => StatusOf(SetCondition(cache[req], type), cache[req])
  BY <1>1, ConditionIsStatus
<1>3. {"Reconciling", "Ready", "Error"} \subseteq ConditionTypes
  BY DEF ConditionTypes
<1>4. /\ SeenInv' /\ RecordedHostHasFinalizer'
      /\ Finalized(api'[req]) = Finalized(api[req])
      /\ Deleting(api'[req]) = Deleting(api[req])
  <2>1. CASE UNCHANGED <<api, watch>>
    BY <1>0, <1>1, <2>1, QuietSeen
  <2>2. CASE \E type \in ConditionTypes, ok \in BOOLEAN :
               UpdateStatus(SetCondition(cache[req], type), ok)
    <3>1. PICK type \in ConditionTypes, ok \in BOOLEAN :
            UpdateStatus(SetCondition(cache[req], type), ok)
      BY <2>2
    <3> QED BY <1>0, <1>1, <1>2, <3>1, UpdateStatusLife
  <2>3. CASE SaveStatus
    <3>1. PICK ok \in BOOLEAN : UpdateStatus(Recorded(cache[req]), ok)
      BY <2>3 DEF SaveStatus
    <3>2. Finalized(api[req])
      BY <1>0, <2>3 DEF SaveStatus, WorkerInv, CreatePCs
    <3>3. ASSUME cache[req] # NoObj, Fresh(req)
          PROVE  StatusOf(Recorded(cache[req]), cache[req])
      <4>1. cache[req] = api[req] /\ cache[req] \in ProxyHost
        BY <1>0, <1>1, <3>3, ClusterTypes, FreshSeen, VersionIsProxyHost
      <4>2. Recorded(cache[req]) \in Versions \ {NoObj}
        BY <1>0, <1>1, <3>3, RecordedKeeps DEF IInv
      <4> QED BY <3>2, <3>3, <4>1, <4>2 DEF StatusOf, SameLife, Recorded, ProxyHost
    <3> QED BY <1>0, <1>1, <3>1, <3>3, UpdateStatusLife
  <2> QED BY <1>3, <2>1, <2>2, <2>3 DEF MarkReconciling, MarkReady, MarkError
<1>5. WorkerInv'
  <2>1. \/ pc = "reconciling" /\ pc' = "client"
        \/ pc \in {"save", "ready", "fail"} /\ pc' \in {"ready", "fail", "done", "requeue"}
    BY DEF MarkReconciling, SaveStatus, MarkReady, MarkError
  <2> QED BY <1>0, <1>1, <1>4, <2>1 DEF WorkerInv, CreatePCs, MarkedPCs
<1> QED BY <1>4, <1>5

\* The server stores a finalized copy with the deletion mark it had, and drops
\* an object that is being deleted once its finalizer is removed.
LEMMA EncodedLife ==
  ASSUME NEW o \in Versions, o # NoObj
  PROVE  /\ WithFinalizer(Encoded(o)) \in Versions
         /\ Finalized(WithFinalizer(Encoded(o)))
         /\ Deleting(WithFinalizer(Encoded(o))) = Deleting(o)
         /\ Deleting(o) => WithoutFinalizer(Encoded(o)) = NoObj
<1> DEFINE e == Encoded(o)
<1>1. o \in ProxyHost
  BY VersionIsProxyHost
<1>2. [o.spec EXCEPT !.bindExisting = TRUE, !.cfg = DefaultCfg[@]] \in ProxyHostSpec
  BY <1>1, ConstantsAssumption DEF ProxyHost, ProxyHostSpec
<1>3. e = [o EXCEPT !.spec = [o.spec EXCEPT !.bindExisting = TRUE, !.cfg = DefaultCfg[@]]]
  BY <1>1 DEF Encoded, ProxyHost, ProxyHostSpec
<1>4. e \in ProxyHost /\ e.deleting = o.deleting
  BY <1>1, <1>2, <1>3 DEF ProxyHost
<1> HIDE DEF e
<1>5. /\ WithFinalizer(e) \in ProxyHost /\ WithFinalizer(e).fin = TRUE
      /\ WithFinalizer(e).deleting = o.deleting
  BY <1>4 DEF ProxyHost, WithFinalizer
<1>6. WithFinalizer(e) # NoObj
  BY <1>5, NullsAssumption
<1>7. o.deleting => WithoutFinalizer(e) = NoObj
  BY <1>4 DEF WithoutFinalizer
<1>8. WithFinalizer(e) \in Versions
  BY FinalizerKeeps DEF e
<1> QED BY <1>5, <1>6, <1>7, <1>8 DEF Finalized, Deleting, e

\* AddFinalizer: it stores the finalizer on the version it read, which nobody
\* has marked for deletion.
LEMMA EnsureFinalizerStep ==
  ASSUME FInv, EnsureFinalizer
  PROVE  SeenInv' /\ WorkerInv' /\ RecordedHostHasFinalizer'
<1>0. IInv /\ SeenInv /\ WorkerInv /\ RecordedHostHasFinalizer
  BY DEF FInv
<1>1. /\ req \in Keys /\ UNCHANGED <<cache, req, marked>> /\ pc = "finalizer"
      /\ pc' \in {"reconciling", "requeue"} /\ marked \in BOOLEAN
      /\ obj \in Versions /\ obj # NoObj
  BY <1>0 DEF IInv, RequestInv, LocalInv, EnsureFinalizer
<1>2. CASE UNCHANGED <<api, watch>> /\ (marked \/ obj.fin \/ pc' = "requeue")
  <2>1. SeenInv' /\ RecordedHostHasFinalizer'
    BY <1>0, <1>1, <1>2, QuietSeen
  <2>2. WorkerInv'
    BY <1>0, <1>1, <1>2 DEF WorkerInv, CreatePCs, MarkedPCs
  <2> QED BY <2>1, <2>2
<1>3. CASE ~marked /\ fresh /\ Publish(req, WithFinalizer(Encoded(api[req])))
  <2> DEFINE v == WithFinalizer(Encoded(api[req]))
  <2>1. obj = api[req] /\ Fresh(req) /\ ~obj.deleting
    BY <1>0, <1>1, <1>3 DEF WorkerInv
  <2>2. v \in Versions /\ Finalized(v) /\ ~Deleting(api[req])
    BY <1>1, <2>1, EncodedLife DEF Deleting
  <2>3. Seen(req) = {api[req]}
    BY <1>0, <1>1, <2>1, ClusterTypes, FreshSeen
  <2> HIDE DEF v
  <2>4. Publish(req, v)
    BY <1>3 DEF v
  <2>5. api'[req] = v /\ \A j \in Keys \ {req} : api'[j] = api[j]
    BY <1>0, <1>1, <2>2, <2>4, ClusterTypes, PublishKeeps
  <2>6. SeenInv'
    BY <1>0, <1>1, <2>2, <2>3, <2>4, ClusterTypes, PublishSeen DEF Before
  <2>7. RecordedHostHasFinalizer'
    BY <1>0, <2>2, <2>5 DEF RecordedHostHasFinalizer, Live, Finalized
  <2>8. WorkerInv'
    BY <1>0, <1>1, <1>3, <2>2, <2>5 DEF WorkerInv, CreatePCs, MarkedPCs
  <2> QED BY <2>6, <2>7, <2>8
<1> QED BY <1>2, <1>3 DEF EnsureFinalizer, AddFinalizer, UpdateObject

\* RemoveFinalizer: what is stored is still what the worker read and decided
\* on, so the object is being deleted and goes.
LEMMA DropFinalizerStep ==
  ASSUME FInv, DropFinalizer
  PROVE  SeenInv' /\ WorkerInv' /\ RecordedHostHasFinalizer'
<1>0. IInv /\ SeenInv /\ WorkerInv /\ RecordedHostHasFinalizer
  BY DEF FInv
<1>1. /\ req \in Keys /\ UNCHANGED <<cache, req, marked>> /\ pc = "removeFinalizer"
      /\ pc' \in {"done", "requeue"} /\ marked
      /\ obj \in Versions /\ obj # NoObj
  BY <1>0 DEF IInv, RequestInv, DropFinalizer, WorkerInv, MarkedPCs
<1>2. CASE UNCHANGED <<api, watch>>
  <2>1. SeenInv' /\ RecordedHostHasFinalizer'
    BY <1>0, <1>1, <1>2, QuietSeen
  <2>2. WorkerInv'
    BY <1>0, <1>1, <1>2 DEF WorkerInv, CreatePCs, MarkedPCs
  <2> QED BY <2>1, <2>2
<1>3. CASE obj.fin /\ fresh /\ Publish(req, WithoutFinalizer(Encoded(api[req])))
  <2>1. obj = api[req] /\ Fresh(req)
    BY <1>0, <1>1, <1>3 DEF WorkerInv
  <2>2. Finalized(api[req]) /\ Deleting(api[req])
    BY <1>0, <1>1, <1>3, <2>1 DEF WorkerInv, Finalized
  <2>3. Publish(req, NoObj)
    BY <1>1, <1>3, <2>1, <2>2, EncodedLife
  <2>4. Seen(req) = {api[req]}
    BY <1>0, <1>1, <2>1, ClusterTypes, FreshSeen
  <2>5. api'[req] = NoObj /\ \A j \in Keys \ {req} : api'[j] = api[j]
    BY <1>0, <1>1, <2>3, ClusterTypes, PublishKeeps, NoObjIsVersion
  <2>6. ~Finalized(NoObj)
    BY DEF Finalized
  <2>7. SeenInv'
    BY <1>0, <1>1, <2>2, <2>3, <2>4, <2>6, ClusterTypes, PublishSeen, NoObjIsVersion DEF Before
  <2>8. RecordedHostHasFinalizer'
    BY <1>0, <2>5 DEF RecordedHostHasFinalizer, Live
  <2>9. WorkerInv'
    BY <1>0, <1>1, <2>5, <2>6 DEF WorkerInv, CreatePCs, MarkedPCs
  <2> QED BY <2>7, <2>8, <2>9
<1> QED BY <1>2, <1>3 DEF DropFinalizer, RemoveFinalizer, UpdateObject

\* A user's write: an edit keeps the finalizer and the mark, a deletion marks
\* an object with the finalizer and removes one without, and a new object has
\* neither.
LEMMA UserSteps ==
  ASSUME FInv, NEW k \in Keys, UserCreate(k) \/ UserEdit(k) \/ UserDelete(k)
  PROVE  SeenInv' /\ WorkerInv' /\ RecordedHostHasFinalizer'
<1>0. IInv /\ SeenInv /\ WorkerInv /\ RecordedHostHasFinalizer
  BY DEF FInv
<1>1. PICK v \in Versions :
        /\ UserWrite(k, v)
        /\ v # NoObj /\ v.id # NoId => v.fin
        /\ Finalized(api[k]) => Finalized(v)
        /\ Finalized(v) /\ Deleting(api[k]) => Deleting(v)
        /\ Finalized(v) => Finalized(api[k])
  <2>1. CASE UserCreate(k)
    <3>1. PICK s \in Specs : UserWrite(k, NewObject(s))
      BY <2>1 DEF UserCreate
    <3>2. NewObject(s) \in Versions /\ NewObject(s).id = NoId /\ NewObject(s).fin = FALSE
      BY ConstantsAssumption DEF NewObject, ProxyHost, Versions, Truthful
    <3>3. ~Finalized(NewObject(s)) /\ ~Finalized(api[k])
      BY <2>1, <3>2 DEF UserCreate, Finalized
    <3> QED BY <3>1, <3>2, <3>3
  <2>2. CASE UserEdit(k)
    <3>1. PICK s \in Specs : UserWrite(k, [api[k] EXCEPT !.spec = s])
      BY <2>2 DEF UserEdit
    <3> DEFINE v == [api[k] EXCEPT !.spec = s]
    <3>2. api[k] \in Versions /\ api[k] # NoObj /\ api[k] \in ProxyHost /\ Truthful(api[k])
      BY <1>0, <2>2, ClusterTypes, VersionIsProxyHost DEF UserEdit
    <3>3. /\ v \in ProxyHost /\ v.fin = api[k].fin /\ v.deleting = api[k].deleting
          /\ v.id = api[k].id /\ v.bound = api[k].bound
      BY <3>2, ConstantsAssumption DEF ProxyHost
    <3> HIDE DEF v
    <3>4. v \in Versions /\ v # NoObj
      BY <3>2, <3>3, NullsAssumption DEF Versions, Truthful
    <3>5. Finalized(v) = Finalized(api[k]) /\ Deleting(v) = Deleting(api[k])
      BY <3>2, <3>3, <3>4 DEF Finalized, Deleting
    <3>6. v.id # NoId => v.fin
      BY <1>0, <3>2, <3>3 DEF RecordedHostHasFinalizer, Live
    <3>7. UserWrite(k, v)
      BY <3>1 DEF v
    <3> QED BY <3>4, <3>5, <3>6, <3>7
  <2>3. CASE UserDelete(k)
    <3>1. api[k] \in Versions /\ api[k] # NoObj /\ api[k] \in ProxyHost /\ Truthful(api[k])
      BY <1>0, <2>3, ClusterTypes, VersionIsProxyHost DEF UserDelete
    <3>2. CASE api[k].fin
      <4> DEFINE v == [api[k] EXCEPT !.deleting = TRUE]
      <4>1. /\ v \in ProxyHost /\ v.fin = api[k].fin /\ v.deleting = TRUE
            /\ v.id = api[k].id /\ v.bound = api[k].bound
        BY <3>1 DEF ProxyHost
      <4>2. UserWrite(k, v)
        BY <2>3, <3>2 DEF UserDelete
      <4> HIDE DEF v
      <4>3. v \in Versions /\ v # NoObj
        BY <3>1, <4>1, NullsAssumption DEF Versions, Truthful
      <4>4. Finalized(v) /\ Deleting(v) /\ Finalized(api[k])
        BY <3>1, <3>2, <4>1, <4>3 DEF Finalized, Deleting
      <4> QED BY <3>2, <4>1, <4>2, <4>3, <4>4
    <3>3. CASE ~api[k].fin
      <4>1. UserWrite(k, NoObj)
        BY <2>3, <3>3 DEF UserDelete
      <4>2. ~Finalized(NoObj) /\ ~Finalized(api[k])
        BY <3>3 DEF Finalized
      <4> QED BY <4>1, <4>2, NoObjIsVersion
    <3> QED BY <3>2, <3>3
  <2> QED BY <2>1, <2>2, <2>3
<1>2. /\ Publish(k, v) /\ UNCHANGED <<cache, req, obj, pc, marked>>
      /\ fresh' = (fresh /\ req # k) /\ fresh \in BOOLEAN
  BY <1>0, <1>1 DEF UserWrite, localVars, IInv, RequestInv
<1>3. /\ api'[k] = v
      /\ \A j \in Keys \ {k} : api'[j] = api[j] /\ watch'[j] = watch[j]
  BY <1>0, <1>2, ClusterTypes, PublishKeeps
<1>4. SeenInv'
  <2>1. \A x \in Seen(k) : Before(x, api[k])
    BY <1>0 DEF SeenInv
  <2>2. \A x \in Seen(k) : Before(x, v)
    BY <1>1, <2>1 DEF Before
  <2> QED BY <1>0, <1>2, <2>2, ClusterTypes, PublishSeen
<1>5. RecordedHostHasFinalizer'
  BY <1>0, <1>1, <1>3 DEF RecordedHostHasFinalizer, Live
<1>6. WorkerInv'
  <2>1. pc # "idle" => req \in Keys
    BY <1>0 DEF IInv, RequestInv
  <2>2. /\ pc # "idle" /\ Finalized(api[req]) => Finalized(api'[req])
        /\ pc # "idle" /\ Finalized(api'[req]) => Finalized(api[req])
        /\ pc # "idle" /\ Finalized(api'[req]) /\ Deleting(api[req]) => Deleting(api'[req])
    BY <1>1, <1>3, <2>1
  <2>3. pc # "idle" /\ fresh' => fresh /\ api'[req] = api[req] /\ watch'[req] = watch[req]
    BY <1>2, <1>3, <2>1
  <2> QED BY <1>0, <1>2, <2>2, <2>3 DEF WorkerInv, CreatePCs, MarkedPCs, Fresh
<1> QED BY <1>4, <1>5, <1>6

\* A request starts from a cached version: what it says about the finalizer
\* and the deletion still holds of the stored one.
LEMMA DequeueStep ==
  ASSUME FInv, NEW k \in Keys, Dequeue(k)
  PROVE  SeenInv' /\ WorkerInv' /\ RecordedHostHasFinalizer'
<1>0. IInv /\ SeenInv /\ WorkerInv /\ RecordedHostHasFinalizer
  BY DEF FInv
<1>1. UNCHANGED <<api, cache, watch>>
  BY DEF Dequeue
<1>2. SeenInv' /\ RecordedHostHasFinalizer'
  BY <1>0, <1>1, QuietSeen
<1>3. CASE cache[k] = NoObj
  BY <1>0, <1>2, <1>3 DEF Dequeue, WorkerInv, CreatePCs, MarkedPCs
<1>4. CASE cache[k] # NoObj
  <2>1. /\ pc' = "finalizer" /\ req' = k /\ obj' = cache[k] /\ fresh' = Fresh(k)
        /\ marked' = cache[k].deleting
    BY <1>4 DEF Dequeue, GetObject
  <2>2. Before(cache[k], api[k])
    BY <1>0 DEF SeenInv, Seen
  <2>3. Fresh(k) => cache[k] = api[k]
    BY <1>0, ClusterTypes, FreshSeen
  <2>4. WorkerInv'
    BY <1>1, <1>4, <2>1, <2>2, <2>3
    DEF WorkerInv, CreatePCs, MarkedPCs, Before, Finalized, Deleting, Fresh
  <2> QED BY <1>2, <2>4
<1> QED BY <1>3, <1>4

\* A step of the worker that does not write to the API server.
LEMMA QuietSteps ==
  ASSUME FInv,
         \/ InitNginxPMClient \/ RestoreHost \/ ReenableHost \/ DisableHost \/ DeleteHost
         \/ RefetchLatest \/ CheckDomains \/ FindHostByID \/ BindExisting \/ NothingToBind
         \/ EnableHost \/ PrepareInput \/ UpdateHost \/ CreateHost \/ FollowUp \/ Return
  PROVE  SeenInv' /\ WorkerInv' /\ RecordedHostHasFinalizer'
<1>0. IInv /\ SeenInv /\ WorkerInv /\ RecordedHostHasFinalizer
  BY DEF FInv
<1>1. CASE InitNginxPMClient
  <2>1. /\ UNCHANGED <<kubeVars, req, obj, fresh, marked>> /\ pc = "client"
        /\ \/ marked /\ pc' \in {"refetch", "restore", "disable", "delete", "done"}
           \/ ~marked /\ pc' \in {"unique", "fail"}
    <3>1. FinalizerOperation(obj) \in {"refetch", "restore", "disable", "delete"}
      BY <1>0 DEF FinalizerOperation, ShouldRestoreInitialConfig
    <3> QED BY <1>1, <3>1 DEF InitNginxPMClient
  <2>2. WorkerInv'
    BY <1>0, <2>1 DEF WorkerInv, CreatePCs, MarkedPCs, kubeVars
  <2> QED BY <1>0, <2>1, <2>2, QuietSeen DEF kubeVars
<1>2. CASE RestoreHost \/ ReenableHost \/ DisableHost \/ DeleteHost
  <2>1. /\ UNCHANGED <<kubeVars, req, obj, fresh, marked>> /\ pc \in MarkedPCs
        /\ pc' \in {"reenable", "refetch", "requeue"}
    BY <1>2 DEF RestoreHost, ReenableHost, DisableHost, DeleteHost, MarkedPCs
  <2>2. WorkerInv'
    BY <1>0, <2>1 DEF WorkerInv, CreatePCs, MarkedPCs, kubeVars
  <2> QED BY <1>0, <2>1, <2>2, QuietSeen DEF kubeVars
<1>3. CASE RefetchLatest
  <2>1. /\ UNCHANGED <<kubeVars, req, marked>> /\ pc = "refetch" /\ req \in Keys
        /\ \/ pc' = "done"
           \/ pc' = "removeFinalizer" /\ obj' = cache[req] /\ fresh' = Fresh(req)
    BY <1>0, <1>3 DEF RefetchLatest, GetObject, IInv, RequestInv
  <2>2. Fresh(req) => cache[req] = api[req]
    BY <1>0, <2>1, ClusterTypes, FreshSeen
  <2>3. WorkerInv'
    BY <1>0, <2>1, <2>2 DEF WorkerInv, CreatePCs, MarkedPCs, kubeVars, Fresh
  <2> QED BY <1>0, <2>1, <2>3, QuietSeen DEF kubeVars
<1>4. CASE \/ CheckDomains \/ FindHostByID \/ BindExisting \/ NothingToBind \/ EnableHost
           \/ PrepareInput \/ UpdateHost \/ CreateHost \/ FollowUp
  <2>1. /\ UNCHANGED <<kubeVars, req, obj, fresh, marked>> /\ pc \in CreatePCs
        /\ pc' \in CreatePCs \cup {"requeue"}
    BY <1>4 DEF CheckDomains, FindHostByID, BindExisting, NothingToBind, EnableHost,
                PrepareInput, UpdateHost, CreateHost, FollowUp, AfterFind, CreatePCs
  <2>2. WorkerInv'
    BY <1>0, <2>1 DEF WorkerInv, CreatePCs, MarkedPCs, kubeVars
  <2> QED BY <1>0, <2>1, <2>2, QuietSeen DEF kubeVars
<1>5. CASE Return
  <2>1. UNCHANGED <<api, cache, watch>> /\ pc' = "idle"
    BY <1>5 DEF Return, Reset
  <2>2. WorkerInv'
    BY <2>1 DEF WorkerInv, CreatePCs, MarkedPCs
  <2> QED BY <1>0, <2>1, <2>2, QuietSeen
<1> QED BY <1>1, <1>2, <1>3, <1>4, <1>5

\* Triggers and administrators touch neither the cluster nor the worker; a
\* watch event and a crash only change what the cache shows.
LEMMA OtherSteps ==
  ASSUME FInv,
         \/ AdminCreate \/ (\E i \in Ids : AdminRemove(i) \/ AdminDisable(i))
         \/ (\E k \in Keys : Trigger(k) \/ WatchEvent(k)) \/ Crash \/ UNCHANGED vars
  PROVE  SeenInv' /\ WorkerInv' /\ RecordedHostHasFinalizer'
<1>0. IInv /\ SeenInv /\ WorkerInv /\ RecordedHostHasFinalizer
  BY DEF FInv
<1>1. CASE UNCHANGED <<api, cache, watch, req, obj, fresh, marked, pc>>
  <2>1. WorkerInv'
    BY <1>0, <1>1 DEF WorkerInv, Fresh
  <2> QED BY <1>0, <1>1, <2>1, QuietSeen
<1>2. ASSUME NEW k \in Keys, WatchEvent(k)
      PROVE  SeenInv' /\ WorkerInv' /\ RecordedHostHasFinalizer'
  <2>1. /\ Deliver(k) /\ api' = api /\ UNCHANGED <<req, obj, fresh, marked, pc>>
        /\ watch[k] # << >> /\ \A j \in Keys \ {k} : watch'[j] = watch[j]
    BY <1>0, <1>2, ClusterTypes DEF WatchEvent, Deliver, helperVars, localVars
  <2>2. SeenInv'
    BY <1>0, <2>1, ClusterTypes, DeliverSeen
  <2>3. RecordedHostHasFinalizer'
    BY <1>0, <2>1 DEF RecordedHostHasFinalizer, Live
  <2>4. pc # "idle" => req \in Keys
    BY <1>0 DEF IInv, RequestInv
  <2>5. pc # "idle" /\ Fresh(req) => watch'[req] = << >>
    BY <2>1, <2>4 DEF Fresh
  <2>6. WorkerInv'
    BY <1>0, <2>1, <2>5 DEF WorkerInv, CreatePCs, MarkedPCs, Fresh
  <2> QED BY <2>2, <2>3, <2>6
<1>3. CASE Crash
  <2>1. Relist /\ api' = api /\ pc' = "idle"
    BY <1>3 DEF Crash, Relist, Reset
  <2>2. WorkerInv'
    BY <2>1 DEF WorkerInv, CreatePCs, MarkedPCs
  <2> QED BY <1>0, <2>1, <2>2, RelistSeen DEF RecordedHostHasFinalizer, Live
<1> QED BY <1>1, <1>2, <1>3
        DEF AdminCreate, AdminRemove, AdminDisable, Trigger, vars, kubeVars, helperVars, localVars
-----------------------------------------------------------------------------
(* The theorem about the finalizer                                          *)

\* The cluster starts with the cache up to date and the worker idle.
LEMMA InitFInv == Init => FInv
<1> SUFFICES ASSUME Init PROVE FInv
  OBVIOUS
<1>1. IInv
  BY InitIInv
<1>2. pc = "idle" /\ cache = api /\ watch = [k \in Keys |-> << >>]
  BY DEF Init, InitCluster
<1>3. SeenInv
  <2>1. \A k \in Keys : Seen(k) = {api[k]}
    BY <1>1, <1>2, ClusterTypes, FreshSeen DEF Fresh
  <2> QED BY <2>1 DEF SeenInv, Before
<1>4. WorkerInv
  BY <1>2 DEF WorkerInv, CreatePCs, MarkedPCs
<1>5. RecordedHostHasFinalizer
  <2>1. \A k \in Keys : api[k] = NoObj \/ \E s \in Specs : api[k] = LegacyObject(s)
    <3>1. CASE LegacyKey = NoKey
      BY <3>1 DEF Init, InitCluster
    <3>2. CASE LegacyKey # NoKey
      <4>1. PICK s \in Specs :
              api = [k \in Keys |-> IF k = LegacyKey THEN LegacyObject(s) ELSE NoObj]
        BY <3>2 DEF Init, InitCluster
      <4> QED BY <4>1
    <3> QED BY <3>1, <3>2
  <2>2. \A s \in Specs : LegacyObject(s).fin
    BY DEF LegacyObject
  <2> QED BY <2>1, <2>2 DEF RecordedHostHasFinalizer, Live
<1> QED BY <1>1, <1>3, <1>4, <1>5 DEF FInv

\* Every step keeps the invariant.
LEMMA NextFInv == FInv /\ [Next]_vars => FInv'
<1> SUFFICES ASSUME FInv, [Next]_vars PROVE FInv'
  OBVIOUS
<1>1. IInv'
  BY NextIInv DEF FInv
<1>2. SeenInv' /\ WorkerInv' /\ RecordedHostHasFinalizer'
  <2>1. CASE Reconcile
    BY <2>1, StatusSteps, EnsureFinalizerStep, DropFinalizerStep, QuietSteps DEF Reconcile
  <2>2. CASE \E k \in Keys : Dequeue(k)
    BY <2>2, DequeueStep
  <2>3. CASE Environment \/ (\E k \in Keys : WatchEvent(k)) \/ UNCHANGED vars
    BY <2>3, UserSteps, OtherSteps DEF Environment
  <2> QED BY <2>1, <2>2, <2>3 DEF Next
<1> QED BY <1>1, <1>2 DEF FInv

\* A resource that records a host carries the finalizer, whatever the cache
\* lags behind, whoever deletes or edits it meanwhile and wherever the
\* operator crashes: EnsureFinalizer precedes the status write, and
\* RemoveFinalizer only succeeds on the version the worker has just read.
THEOREM FinalizerFirst == Spec => []RecordedHostHasFinalizer
<1>1. FInv => RecordedHostHasFinalizer
  BY DEF FInv
<1> QED BY <1>1, InitFInv, NextFInv, PTL DEF Spec
-----------------------------------------------------------------------------
(* One host, one resource.                                                  *)

\* The versions of k that the watch still has to deliver.
Coming(k) == {watch[k][n] : n \in 1 .. Len(watch[k])}

Records(x) == x # NoObj /\ x.id # NoId

SameDoms(x, y) == y # NoObj /\ y.spec.doms = x.spec.doms

SameRecord(x, y) == x.id = y.id /\ x.bound = y.bound /\ x.init = y.init

\* A version that is wanted, finalizer included.
Kept(x) == Finalized(x) /\ ~Deleting(x)

\* A resource does not change its domains between the creation and the end of
\* its life.  What records a host, or carries the finalizer unmarked, is of the
\* life that every version around it is of.
LifeInv ==
  \A k \in Keys :
    /\ \A x \in Coming(k) : Records(x) => Finalized(api[k]) /\ \A y \in Seen(k) : SameDoms(x, y)
    /\ \A x \in Seen(k) : Kept(x) => \A y \in Seen(k) : SameDoms(x, y)

\* The worker records its host.
Saves(k, v) ==
  k = req /\ pc = "save" /\ v = Recorded(api[k]) /\ pc' \in {"ready", "fail"} /\ UNCHANGED req

\* The worker adds the finalizer to what is stored.
Finalizes(k) ==
  k = req /\ pc = "finalizer" /\ ~marked /\ Fresh(k) /\ ~Deleting(api[k])

\* Version v of k goes on with the life of the stored one, with other domains
\* only if a user edits it...
Continues(k, v) ==
  /\ Live(k) /\ v # NoObj
  /\ "edit" \in UserOps \/ SameDoms(api[k], v)
  /\ Finalized(api[k]) => Finalized(v)
  /\ Finalized(v) => Finalized(api[k]) \/ Finalizes(k)
  /\ Deleting(api[k]) => Deleting(v)
  /\ v.id # NoId => Finalized(v)
  /\ SameRecord(v, api[k]) \/ Saves(k, v)
  /\ Fresh(k) \/ ((Deleting(v) \/ "edit" \in UserOps) /\ SameRecord(v, api[k]))

\* ...or ends it, or begins another.
Replaces(k, v) ==
  /\ v # NoObj => v.spec \in Specs /\ v.id = NoId /\ v.init = NoInit /\ ~v.bound /\ ~v.fin
  /\ \/ ~Finalized(api[k])
     \/ v = NoObj /\ k = req /\ pc = "removeFinalizer" /\ Fresh(k) /\ Deleting(api[k]) /\ obj = api[k]

\* What a step does to the cluster.
Writes(k, v) == Publish(k, v) /\ UNCHANGED cache /\ (Continues(k, v) \/ Replaces(k, v))

ClusterStep ==
  \/ UNCHANGED <<api, cache, watch>>
  \/ \E k \in Keys : Deliver(k)
  \/ Relist
  \/ \E k \in Keys, v \in Versions : Writes(k, v)

\* A write adds one version to those that are to come.
LEMMA PublishComes ==
  ASSUME NEW S, NEW k \in Keys, NEW v \in S,
         api \in [Keys -> S], watch \in [Keys -> Seq(S)], Publish(k, v)
  PROVE  /\ Coming(k)' \subseteq Coming(k) \cup {v}
         /\ \A j \in Keys \ {k} : Coming(j)' = Coming(j)
<1>1. \A j \in Keys \ {k} : watch'[j] = watch[j]
  BY PublishKeeps
<1>2. CASE v = api[k]
  BY <1>2 DEF Publish, Coming
<1>3. CASE v # api[k]
  <2>1. watch'[k] = Append(watch[k], v) /\ watch[k] \in Seq(S)
    BY <1>3 DEF Publish
  <2>2. /\ Len(watch'[k]) = Len(watch[k]) + 1
        /\ \A i \in 1 .. Len(watch[k]) + 1 :
             watch'[k][i] = IF i \in 1 .. Len(watch[k]) THEN watch[k][i] ELSE v
    BY <2>1
  <2>3. Len(watch[k]) \in Nat
    BY <2>1
  <2> QED BY <1>1, <2>2, <2>3 DEF Coming
<1> QED BY <1>2, <1>3

\* A watch event takes one of them away.
LEMMA DeliverComes ==
  ASSUME NEW S, NEW k \in Keys, watch \in [Keys -> Seq(S)], Deliver(k)
  PROVE  \A j \in Keys : Coming(j)' \subseteq Coming(j)
<1>1. /\ watch[k] # << >> /\ watch[k] \in Seq(S) /\ watch'[k] = Tail(watch[k])
      /\ \A j \in Keys \ {k} : watch'[j] = watch[j]
  BY DEF Deliver
<1>2. Len(watch[k]) \in Nat \ {0}
  BY <1>1, EmptySeq, SMT
<1>3. /\ Len(Tail(watch[k])) = Len(watch[k]) - 1
      /\ \A i \in 1 .. Len(Tail(watch[k])) : Tail(watch[k])[i] = watch[k][i + 1]
  BY <1>1, HeadTailProperties
<1>4. Coming(k)' \subseteq Coming(k)
  BY <1>1, <1>2, <1>3 DEF Coming
<1> QED BY <1>1, <1>4 DEF Coming

\* What is stored but not in the cache is still to come.
LEMMA StoredComes ==
  ASSUME NEW S, watch \in [Keys -> Seq(S)], CacheFollows, NEW k \in Keys, ~Fresh(k)
  PROVE  api[k] \in Coming(k)
<1>1. watch[k] \in Seq(S) /\ Len(watch[k]) \in Nat \ {0}
  BY EmptySeq, SMT DEF Fresh
<1>2. watch[k][Len(watch[k])] = api[k] /\ Len(watch[k]) \in 1 .. Len(watch[k])
  BY <1>1 DEF CacheFollows, Fresh
<1> QED BY <1>2 DEF Coming

\* Every version is a proxy host's.
LEMMA SeenTypes ==
  ASSUME IInv, NEW k \in Keys
  PROVE  /\ api[k] \in Seen(k) /\ cache[k] \in Seen(k) /\ Coming(k) \subseteq Seen(k)
         /\ Seen(k) \subseteq Versions
         /\ Fresh(k) => cache[k] = api[k] /\ Seen(k) = {api[k]} /\ Coming(k) = {}
         /\ \A x \in Seen(k) : x = cache[k] \/ x \in Coming(k)
<1>1. cache[k] \in Versions /\ watch[k] \in Seq(Versions)
  BY ClusterTypes
<1>2. Len(watch[k]) \in Nat /\ \A n \in 1 .. Len(watch[k]) : watch[k][n] \in Versions
  BY <1>1
<1>3. Fresh(k) => Coming(k) = {}
  BY DEF Fresh, Coming
<1> QED BY <1>1, <1>2, <1>3, ClusterTypes, StoredIsSeen, FreshSeen DEF Seen, Coming

\* Steps of the cluster keep the lives apart.
LEMMA LifeKept ==
  ASSUME "edit" \notin UserOps, FInv, LifeInv, ClusterStep, IInv', RecordedHostHasFinalizer', SeenInv'
  PROVE  LifeInv'
<1>0. IInv /\ SeenInv /\ RecordedHostHasFinalizer
  BY DEF FInv
<1>1. CASE UNCHANGED <<api, cache, watch>>
  BY <1>1 DEF LifeInv, Seen, Coming
<1>2. ASSUME NEW k \in Keys, Deliver(k)
      PROVE  LifeInv'
  <2>1. \A j \in Keys : Seen(j)' \subseteq Seen(j) /\ Coming(j)' \subseteq Coming(j)
    BY <1>0, <1>2, ClusterTypes, DeliverSeen, DeliverComes
  <2>2. api' = api
    BY <1>2 DEF Deliver
  <2> QED BY <2>1, <2>2 DEF LifeInv
<1>3. CASE Relist
  <2>1. \A k \in Keys : Seen(k)' = {api[k]}
    BY <1>3, RelistSeen
  <2>2. \A k \in Keys : Coming(k)' = {}
    BY <1>3 DEF Relist, Coming
  <2> QED BY <2>1, <2>2 DEF LifeInv, SameDoms, Kept, Finalized
<1>4. ASSUME NEW k \in Keys, NEW v \in Versions, Writes(k, v)
      PROVE  LifeInv'
  <2>1. /\ Seen(k)' \subseteq Seen(k) \cup {v} /\ Coming(k)' \subseteq Coming(k) \cup {v}
        /\ \A j \in Keys \ {k} : Seen(j)' = Seen(j) /\ Coming(j)' = Coming(j) /\ api'[j] = api[j]
        /\ api'[k] = v
    BY <1>0, <1>4, ClusterTypes, PublishAdds, PublishComes, PublishKeeps DEF Writes
  <2>2. /\ api[k] \in Seen(k) /\ Coming(k) \subseteq Seen(k)
        /\ Fresh(k) => Seen(k) = {api[k]} /\ Coming(k) = {}
        /\ ~Fresh(k) => api[k] \in Coming(k)
    BY <1>0, SeenTypes, ClusterTypes, StoredComes
  <2>3. CASE Continues(k, v)
    <3>1. ASSUME NEW x \in Seen(k), \A y \in Seen(k) : SameDoms(x, y)
          PROVE  \A y \in Seen(k)' : SameDoms(x, y)
      BY <2>1, <2>2, <2>3, <3>1 DEF Continues, SameDoms
    <3>2. ASSUME Fresh(k) \/ Records(api[k])
          PROVE  \A y \in Seen(k)' : SameDoms(v, y)
      BY <2>1, <2>2, <2>3, <3>2 DEF Continues, SameDoms, LifeInv, Live
    <3>3. \A x \in Coming(k)' : Records(x) =>
            Finalized(v) /\ \A y \in Seen(k)' : SameDoms(x, y)
      BY <2>1, <2>2, <2>3, <3>1, <3>2 DEF Continues, LifeInv, Records, SameRecord, Live
    <3>4. \A x \in Seen(k)' : Kept(x) => \A y \in Seen(k)' : SameDoms(x, y)
      BY <2>1, <2>2, <2>3, <3>1, <3>2 DEF Continues, LifeInv, Kept
    <3> QED BY <2>1, <3>3, <3>4 DEF LifeInv
  <2>4. CASE Replaces(k, v)
    <3>1. \A x \in Coming(k)' : ~Records(x)
      BY <2>1, <2>2, <2>4 DEF Replaces, LifeInv, Records
    <3>2. \A x \in Seen(k)' : ~Kept(x)
      <4>1. \A x \in Seen(k) : Before(x, api[k])
        BY <1>0 DEF SeenInv
      <4> QED BY <2>1, <2>2, <2>4, <4>1 DEF Replaces, Kept, Before, Finalized
    <3> QED BY <2>1, <3>1, <3>2 DEF LifeInv
  <2> QED BY <1>4, <2>3, <2>4 DEF Writes
<1> QED BY <1>1, <1>2, <1>3, <1>4 DEF ClusterStep

-----------------------------------------------------------------------------
(* Every step is one of these.                                              *)

\* A status over the version that it was read from.
LEMMA ConditionContinues ==
  ASSUME FInv, req \in Keys, Live(req), Fresh(req), NEW type \in ConditionTypes
  PROVE  SetCondition(cache[req], type) \in Versions /\ Continues(req, SetCondition(cache[req], type))
<1>0. IInv /\ RecordedHostHasFinalizer
  BY DEF FInv
<1>1. cache[req] = api[req] /\ api[req] \in ProxyHost /\ api[req] \in Versions
  BY <1>0, SeenTypes, VersionIsProxyHost, ClusterTypes DEF Live
<1> DEFINE v == SetCondition(api[req], type)
<1>2. /\ v \in Versions \ {NoObj} /\ v.spec = api[req].spec /\ SameRecord(v, api[req])
      /\ v.fin = api[req].fin /\ v.deleting = api[req].deleting
  BY <1>1, ConditionKeeps DEF SetCondition, ProxyHost, SameRecord, Live
<1> HIDE DEF v
<1>3. Continues(req, v)
  BY <1>0, <1>2 DEF Continues, SameDoms, Finalized, Deleting, SameRecord, RecordedHostHasFinalizer, Live
<1> QED BY <1>1, <1>2, <1>3 DEF v

\* What a status write does to the cluster.
LEMMA StatusWrites ==
  ASSUME FInv, req \in Keys, NEW v, NEW ok, UpdateStatus(v, ok), UNCHANGED cache,
         Live(req) /\ Fresh(req) /\ cache[req] = api[req] => v \in Versions /\ Continues(req, v)
  PROVE  ClusterStep
<1>1. CASE UNCHANGED <<api, watch>>
  BY <1>1 DEF ClusterStep
<1>2. CASE cache[req] # NoObj /\ Fresh(req) /\ Publish(req, v)
  <2>1. cache[req] = api[req]
    BY <1>2, SeenTypes DEF FInv
  <2> QED BY <1>2, <2>1 DEF ClusterStep, Writes, Live
<1> QED BY <1>1, <1>2 DEF UpdateStatus

\* The writes of Reconcile to the resource.
LEMMA ResourceWrites ==
  ASSUME FInv, MarkReconciling \/ SaveStatus \/ MarkReady \/ MarkError
               \/ EnsureFinalizer \/ DropFinalizer
  PROVE  ClusterStep
<1>0. IInv /\ SeenInv /\ WorkerInv /\ RecordedHostHasFinalizer
  BY DEF FInv
<1>1. req \in Keys /\ UNCHANGED cache /\ obj \in Versions /\ obj # NoObj
  BY <1>0 DEF IInv, RequestInv, MarkReconciling, SaveStatus, MarkReady, MarkError,
              EnsureFinalizer, DropFinalizer
<1>2. {"Reconciling", "Ready", "Error"} \subseteq ConditionTypes
  BY DEF ConditionTypes
<1>3. CASE UNCHANGED <<api, watch>>
  BY <1>1, <1>3 DEF ClusterStep
<1>4. ASSUME NEW type \in ConditionTypes, NEW ok \in BOOLEAN,
             UpdateStatus(SetCondition(cache[req], type), ok)
      PROVE  ClusterStep
  BY <1>1, <1>4, ConditionContinues, StatusWrites
<1>5. CASE SaveStatus
  <2>1. PICK ok \in BOOLEAN : UpdateStatus(Recorded(cache[req]), ok)
    BY <1>5 DEF SaveStatus
  <2>2. Finalized(api[req]) /\ pc = "save"
    BY <1>0, <1>5 DEF SaveStatus, WorkerInv, CreatePCs
  <2>3. ASSUME Live(req), Fresh(req), cache[req] = api[req]
        PROVE  Recorded(cache[req]) \in Versions /\ Continues(req, Recorded(cache[req]))
    <3>1. api[req] \in ProxyHost /\ api[req] \in Versions
      BY <1>0, <1>1, <2>3, VersionIsProxyHost, ClusterTypes DEF Live
    <3> DEFINE v == Recorded(api[req])
    <3>2. /\ v \in Versions \ {NoObj} /\ v.spec = api[req].spec
          /\ v.fin = api[req].fin /\ v.deleting = api[req].deleting
      BY <1>0, <2>3, <3>1, RecordedKeeps DEF Recorded, ProxyHost, Live, IInv
    <3>3. v = Recorded(api[req])
      OBVIOUS
    <3> HIDE DEF v
    <3>4. Continues(req, v)
      BY <1>1, <1>5, <2>2, <2>3, <3>2, <3>3
      DEF Continues, Saves, SaveStatus, SameDoms, Finalized, Deleting
    <3> QED BY <2>3, <3>2, <3>3, <3>4
  <2> QED BY <1>1, <2>1, <2>3, StatusWrites
<1>6. CASE EnsureFinalizer /\ ~UNCHANGED <<api, watch>>
  <2> DEFINE v == WithFinalizer(Encoded(api[req]))
  <2>1. Publish(req, v) /\ fresh /\ ~marked /\ pc = "finalizer"
    BY <1>6 DEF EnsureFinalizer, AddFinalizer, UpdateObject
  <2>2. obj = api[req] /\ Fresh(req) /\ ~obj.deleting
    BY <1>0, <1>1, <2>1 DEF WorkerInv
  <2>3. api[req] \in Versions /\ api[req] # NoObj /\ api[req] \in ProxyHost
    BY <1>1, <2>2, VersionIsProxyHost
  <2>4. v \in Versions /\ Finalized(v)
    BY <2>3, EncodedLife
  <2>5. v.spec.doms = api[req].spec.doms /\ SameRecord(v, api[req])
    BY <2>3 DEF WithFinalizer, Encoded, ProxyHost, ProxyHostSpec, SameRecord
  <2> HIDE DEF v
  <2>6. Continues(req, v)
    BY <1>1, <2>1, <2>2, <2>3, <2>4, <2>5
    DEF Continues, Finalizes, SameDoms, Finalized, Deleting, Live
  <2> QED BY <1>1, <2>1, <2>4, <2>6 DEF ClusterStep, Writes
<1>7. CASE DropFinalizer /\ ~UNCHANGED <<api, watch>>
  <2>1. /\ Publish(req, WithoutFinalizer(Encoded(api[req])))
        /\ fresh /\ obj.fin /\ marked /\ pc = "removeFinalizer"
    BY <1>0, <1>7 DEF DropFinalizer, RemoveFinalizer, UpdateObject, WorkerInv, MarkedPCs
  <2>2. obj = api[req] /\ Fresh(req)
    BY <1>0, <2>1 DEF WorkerInv
  <2>3. Finalized(api[req]) /\ Deleting(api[req])
    BY <1>0, <1>1, <2>1, <2>2 DEF WorkerInv, Finalized
  <2>4. Publish(req, NoObj)
    BY <1>1, <2>1, <2>2, <2>3, EncodedLife
  <2>5. Replaces(req, NoObj)
    BY <2>1, <2>2, <2>3 DEF Replaces
  <2> QED BY <1>1, <2>4, <2>5, NoObjIsVersion DEF ClusterStep, Writes
<1> QED BY <1>2, <1>3, <1>4, <1>5, <1>6, <1>7 DEF MarkReconciling, MarkReady, MarkError

\* The writes of users.
LEMMA UserWrites ==
  ASSUME FInv, NEW k \in Keys, UserCreate(k) \/ UserEdit(k) \/ UserDelete(k)
  PROVE  ClusterStep
<1>0. IInv /\ RecordedHostHasFinalizer /\ api[k] \in Versions
  BY ClusterTypes DEF FInv
<1>1. CASE UserCreate(k)
  <2>1. PICK s \in Specs : UserWrite(k, NewObject(s))
    BY <1>1 DEF UserCreate
  <2>2. /\ NewObject(s) \in Versions /\ NewObject(s).id = NoId /\ NewObject(s).init = NoInit
        /\ NewObject(s).bound = FALSE /\ NewObject(s).fin = FALSE /\ NewObject(s).spec = s
    BY ConstantsAssumption DEF NewObject, ProxyHost, Versions, Truthful
  <2>3. ~Finalized(api[k])
    BY <1>1 DEF UserCreate, Finalized
  <2>4. Replaces(k, NewObject(s))
    BY <2>2, <2>3 DEF Replaces
  <2> QED BY <2>1, <2>2, <2>4 DEF ClusterStep, Writes, UserWrite
<1>2. CASE UserDelete(k)
  <2>1. api[k] # NoObj /\ api[k] \in ProxyHost /\ Truthful(api[k])
    BY <1>0, <1>2, VersionIsProxyHost DEF UserDelete
  <2>2. CASE api[k].fin
    <3> DEFINE v == [api[k] EXCEPT !.deleting = TRUE]
    <3>1. /\ v \in ProxyHost /\ v.fin = api[k].fin /\ v.deleting = TRUE
          /\ SameRecord(v, api[k]) /\ v.spec = api[k].spec
      BY <2>1 DEF ProxyHost, SameRecord
    <3>2. UserWrite(k, v)
      BY <1>2, <2>2 DEF UserDelete
    <3> HIDE DEF v
    <3>3. v \in Versions /\ v # NoObj
      BY <2>1, <3>1, NullsAssumption DEF Versions, Truthful, SameRecord
    <3>4. Continues(k, v)
      BY <2>1, <2>2, <3>1, <3>3 DEF Continues, SameDoms, Finalized, Deleting, Live
    <3> QED BY <3>2, <3>3, <3>4 DEF ClusterStep, Writes, UserWrite
  <2>3. CASE ~api[k].fin
    <3>1. Replaces(k, NoObj)
      BY <2>3 DEF Replaces, Finalized
    <3> QED BY <1>2, <2>3, <3>1, NoObjIsVersion DEF UserDelete, ClusterStep, Writes, UserWrite
  <2> QED BY <2>2, <2>3
<1>3. CASE UserEdit(k)
  <2>1. PICK s \in Specs : UserWrite(k, [api[k] EXCEPT !.spec = s])
    BY <1>3 DEF UserEdit
  <2>2. api[k] # NoObj /\ api[k] \in ProxyHost /\ Truthful(api[k]) /\ "edit" \in UserOps
    BY <1>0, <1>3, VersionIsProxyHost DEF UserEdit, Op
  <2> DEFINE v == [api[k] EXCEPT !.spec = s]
  <2>3. /\ v \in ProxyHost /\ v.fin = api[k].fin /\ v.deleting = api[k].deleting
        /\ SameRecord(v, api[k])
    BY <2>2, ConstantsAssumption DEF ProxyHost, SameRecord
  <2>4. UserWrite(k, v)
    BY <2>1
  <2> HIDE DEF v
  <2>5. v \in Versions /\ v # NoObj
    BY <2>2, <2>3, NullsAssumption DEF Versions, Truthful, SameRecord
  <2>6. Continues(k, v)
    BY <1>0, <2>2, <2>3, <2>5
    DEF Continues, Finalized, Deleting, Live, RecordedHostHasFinalizer, SameRecord
  <2> QED BY <2>4, <2>5, <2>6 DEF ClusterStep, Writes, UserWrite
<1> QED BY <1>1, <1>2, <1>3

\* Every step, then.
LEMMA NextWrites ==
  ASSUME FInv, [Next]_vars
  PROVE  ClusterStep
<1>1. CASE UNCHANGED <<api, cache, watch>>
  BY <1>1 DEF ClusterStep
<1>2. CASE \/ MarkReconciling \/ SaveStatus \/ MarkReady \/ MarkError
           \/ EnsureFinalizer \/ DropFinalizer
  BY <1>2, ResourceWrites
<1>3. CASE \E k \in Keys : UserCreate(k) \/ UserEdit(k) \/ UserDelete(k)
  BY <1>3, UserWrites
<1>4. CASE Crash \/ \E k \in Keys : WatchEvent(k)
  BY <1>4 DEF Crash, WatchEvent, ClusterStep
<1>5. CASE \/ InitNginxPMClient \/ RestoreHost \/ ReenableHost \/ DisableHost \/ DeleteHost
           \/ RefetchLatest \/ CheckDomains \/ FindHostByID \/ BindExisting \/ NothingToBind
           \/ EnableHost \/ PrepareInput \/ UpdateHost \/ CreateHost \/ FollowUp \/ Return
           \/ AdminCreate \/ (\E i \in Ids : AdminRemove(i) \/ AdminDisable(i))
           \/ (\E k \in Keys : Trigger(k) \/ Dequeue(k)) \/ UNCHANGED vars
  <2>1. UNCHANGED <<api, cache, watch>>
    BY <1>5
    DEF InitNginxPMClient, RestoreHost, ReenableHost, DisableHost, DeleteHost, RefetchLatest,
        CheckDomains, FindHostByID, BindExisting, NothingToBind, EnableHost, PrepareInput,
        UpdateHost, CreateHost, FollowUp, Return, AdminCreate, AdminRemove, AdminDisable,
        Trigger, Dequeue, vars, kubeVars
  <2> QED BY <1>1, <2>1
<1> QED BY <1>2, <1>3, <1>4, <1>5 DEF Next, Reconcile, Environment

-----------------------------------------------------------------------------
(* What the worker holds.                                                   *)

\* Past the finalizer, Reconcile works on the resource as it is stored...
Working == pc \in CreatePCs \cup {"reconciling", "client"} /\ ~marked

\* ...as it does once it found the finalizer there.
Engaged == Working \/ (pc = "finalizer" /\ ~marked /\ obj.fin)

\* All versions around have the domains of the worker's copy.
SameInv == Engaged => \A y \in Seen(req) : SameDoms(obj, y)

\* Every resource asks for a domain.
DomainsInv ==
  /\ \A k \in Keys : \A x \in Seen(k) : x # NoObj => x.spec.doms # {}
  /\ pc # "idle" => obj.spec.doms # {}

\* A captured configuration has the domains of the resource.
CaptureInv ==
  /\ \A k \in Keys : \A x \in Seen(k) :
       x # NoObj /\ x.init # NoInit => x.init.doms = x.spec.doms
  /\ pc # "idle" /\ obj.init # NoInit => obj.init.doms = obj.spec.doms
  /\ pc # "idle" /\ captured # NoInit => captured.doms = obj.spec.doms
  /\ pc = "idle" \/ marked => host = NoId /\ captured = NoInit

\* While the worker looks for a host, nobody records one under its domains.
FindInv ==
  pc = "find" => \A k \in Keys \ {req} : \A x \in Seen(k) :
                   Records(x) => x.spec.doms \cap obj.spec.doms = {}

\* Some version of k, or the worker on behalf of k, has host i with domains d.
Claims(k, i, d) ==
  \/ \E x \in Seen(k) : x # NoObj /\ x.id = i /\ x.spec.doms = d
  \/ k = req /\ pc # "idle" /\ obj.spec.doms = d /\ (obj.id = i \/ host = i)

\* Every host has one resource, and serves that resource's domains.
ClaimInv ==
  /\ \A j, k \in Keys, i \in Ids : \A d, e : Claims(j, i, d) /\ Claims(k, i, e) => j = k
  /\ \A k \in Keys, i \in Ids : \A d : Claims(k, i, d) /\ Alive(i) => npm[i].doms = d

SharedInv ==
  FInv /\ LifeInv /\ SameInv /\ DomainsInv /\ CaptureInv /\ FindInv /\ ClaimInv

Similar(x, y) == x.spec.doms = y.spec.doms /\ SameRecord(x, y)

\* The worker finds a host for the domains of its copy, or creates one.
Acquires ==
  \/ pc = "find" /\ host' \in MatchingHosts(obj.spec.doms) /\ UNCHANGED npm
  \/ host' = nextId /\ nextId \in Ids /\ npm'[nextId].doms = obj.spec.doms

\* A step that leaves the worker's copy as it is.
CopyStays ==
  /\ UNCHANGED <<req, obj, marked>> /\ pc # "idle" /\ pc' # "idle"
  /\ Engaged' => Engaged
  /\ marked => UNCHANGED <<host, captured>>
  /\ pc' = "find" => pc = "find" \/ (DomainsUnique(req, obj) /\ UNCHANGED <<api, cache, watch>>)
  /\ captured' \in {captured, NoInit, obj.init} \/ captured'.doms = obj.spec.doms
  /\ host' \in {host, NoId, obj.id} \/ Acquires

\* How the worker's copy changes: it is dropped, it stays, it is read again, it
\* gets the finalizer, or it gets the record of a host.
CopyStep ==
  \/ pc' = "idle" /\ host' = NoId /\ captured' = NoInit
  \/ CopyStays
  \/ /\ \E x \in Seen(req') : x # NoObj /\ Similar(x, obj')
     /\ UNCHANGED <<host, captured>> /\ pc' # "idle" /\ pc' # "find"
     /\ pc \in {"ready", "fail"} => ~Engaged'
     /\ \/ UNCHANGED <<req, marked>> /\ pc # "idle" /\ (Working \/ marked)
        \/ /\ pc = "idle" /\ pc' = "finalizer" /\ req' \in Keys
           /\ obj' = cache'[req'] /\ marked' = obj'.deleting
  \/ /\ Similar(obj, obj') /\ UNCHANGED <<req, marked, host, captured>>
     /\ pc = "finalizer" /\ pc' = "reconciling" /\ obj' # NoObj
     /\ Seen(req)' \subseteq {obj, obj'} /\ obj = api[req] /\ obj' = api'[req]
  \/ /\ obj' = Recorded(cache[req]) /\ cache[req] # NoObj
     /\ UNCHANGED <<req, marked, host, captured>>
     /\ pc = "save" /\ pc' \in {"ready", "fail"}

\* Every step changes the worker's copy in one of these ways.
LEMMA NextCopy ==
  ASSUME SharedInv, [Next]_vars
  PROVE  CopyStep
<1>0. /\ IInv /\ WorkerInv
      /\ pc # "idle" => req \in Keys /\ obj # NoObj /\ obj \in ProxyHost
      /\ pc = "idle" \/ marked => host = NoId /\ captured = NoInit
  BY VersionIsProxyHost DEF SharedInv, FInv, IInv, RequestInv, CaptureInv
<1>1. CASE pc = "idle" /\ UNCHANGED localVars
  BY <1>0, <1>1 DEF CopyStep, localVars
<1>2. ASSUME UNCHANGED <<req, obj, marked, host, captured>>, pc # "idle", pc' # "idle",
             Engaged' => Engaged, pc' = "find" => pc = "find"
      PROVE  CopyStep
  BY <1>2 DEF CopyStep, CopyStays
<1>3. ASSUME NEW k \in Keys, Dequeue(k), cache[k] # NoObj
      PROVE  CopyStep
  <2>1. /\ req' = k /\ obj' = cache[k] /\ pc' = "finalizer" /\ pc = "idle"
        /\ UNCHANGED <<host, captured, cache>> /\ marked' = cache[k].deleting
    BY <1>3 DEF Dequeue, GetObject
  <2>2. cache[k] \in Seen(k) /\ Similar(cache[k], cache[k])
    BY DEF Seen, Similar, SameRecord
  <2> QED BY <1>3, <2>1, <2>2 DEF CopyStep
<1>4. ASSUME pc # "idle", NEW type \in ConditionTypes, NEW ok \in BOOLEAN,
             UpdateStatus(SetCondition(cache[req], type), ok), Working \/ marked,
             UNCHANGED <<req, marked, host, captured>>, pc' # "idle", pc' # "find",
             pc \in {"ready", "fail"} => ~Engaged'
      PROVE  CopyStep
  <2>1. CASE obj' = obj
    <3>1. Engaged' => Engaged
      BY <1>4, <2>1 DEF Engaged, Working
    <3> QED BY <1>2, <1>4, <2>1, <3>1
  <2>2. CASE cache[req] # NoObj /\ obj' = SetCondition(cache[req], type)
    <3>1. cache[req] \in ProxyHost /\ cache[req] \in Seen(req)
      BY <1>0, <1>4, <2>2, ClusterTypes, VersionIsProxyHost DEF Seen
    <3>2. Similar(cache[req], obj')
      BY <2>2, <3>1 DEF Similar, SameRecord, SetCondition, ProxyHost
    <3> QED BY <1>4, <2>2, <3>1, <3>2 DEF CopyStep
  <2> QED BY <1>4, <2>1, <2>2 DEF UpdateStatus
<1>5. CASE MarkReconciling \/ MarkReady \/ MarkError
  <2>1. /\ pc # "idle" /\ UNCHANGED <<req, marked, host, captured>>
        /\ pc' # "idle" /\ pc' # "find" /\ (Working \/ marked)
    BY <1>0, <1>5 DEF MarkReconciling, MarkReady, MarkError, Working, WorkerInv, CreatePCs,
                      IInv, LocalInv
  <2>2. {"Reconciling", "Ready", "Error"} \subseteq ConditionTypes
    BY DEF ConditionTypes
  <2>0. pc \in {"ready", "fail"} => ~Engaged'
    BY <1>5 DEF MarkReconciling, MarkReady, MarkError, Engaged, Working, CreatePCs, MarkedPCs
  <2>3. \/ UNCHANGED obj
        \/ \E type \in ConditionTypes, ok \in BOOLEAN :
             UpdateStatus(SetCondition(cache[req], type), ok)
    BY <1>5, <2>2 DEF MarkReconciling, MarkReady, MarkError
  <2>4. CASE UNCHANGED obj
    <3>1. Engaged' => Engaged
      BY <2>1, <2>4 DEF Engaged, Working
    <3> QED BY <1>2, <2>1, <2>4, <3>1
  <2> QED BY <1>4, <2>0, <2>1, <2>3, <2>4
<1>6. CASE SaveStatus
  <2>1. /\ UNCHANGED <<req, marked, host, captured>> /\ pc = "save" /\ ~marked
        /\ pc' \in {"ready", "fail"}
    BY <1>0, <1>6 DEF SaveStatus, WorkerInv, CreatePCs
  <2>2. CASE cache[req] # NoObj /\ obj' = Recorded(cache[req])
    BY <2>1, <2>2 DEF CopyStep
  <2>3. CASE UNCHANGED obj
    <3>1. Engaged' => Engaged
      BY <2>1 DEF Engaged, Working, CreatePCs
    <3> QED BY <1>2, <2>1, <2>3, <3>1
  <2> QED BY <1>6, <2>2, <2>3 DEF SaveStatus, UpdateStatus
<1>7. CASE EnsureFinalizer
  <2>1. /\ UNCHANGED <<req, marked, host, captured>> /\ pc = "finalizer"
        /\ pc' \in {"reconciling", "requeue"}
    BY <1>7 DEF EnsureFinalizer
  <2>2. CASE UNCHANGED obj
    <3>1. ~marked /\ pc' = "reconciling" => obj'.fin
      <4>1. CASE obj.fin
        BY <2>2, <4>1
      <4>2. CASE ~obj.fin /\ ~marked /\ pc' = "reconciling"
        <5> DEFINE v == WithFinalizer(Encoded(api[req]))
        <5>1. fresh /\ obj' = IF v = NoObj THEN obj ELSE v
          BY <1>7, <4>2 DEF EnsureFinalizer, AddFinalizer, UpdateObject
        <5>2. obj = api[req]
          BY <1>0, <2>1, <5>1 DEF WorkerInv
        <5>3. v # NoObj /\ v.fin
          BY <1>0, <2>1, <5>2, EncodedLife DEF Finalized, IInv, RequestInv
        <5> QED BY <5>1, <5>3
      <4> QED BY <4>1, <4>2
    <3>2. Engaged' => Engaged
      BY <2>1, <2>2, <3>1 DEF Engaged, Working, CreatePCs
    <3> QED BY <1>2, <2>1, <2>2, <3>2
  <2>3. CASE ~UNCHANGED obj
    <3>1. /\ fresh /\ ~marked /\ obj' = WithFinalizer(Encoded(api[req])) /\ pc' = "reconciling"
          /\ Publish(req, obj') /\ UNCHANGED cache
      BY <1>7, <2>3 DEF EnsureFinalizer, AddFinalizer, UpdateObject
    <3>2. obj = api[req] /\ Fresh(req)
      BY <1>0, <2>1, <3>1 DEF WorkerInv
    <3>3. Similar(obj, obj')
      BY <1>0, <2>1, <3>1, <3>2
      DEF WithFinalizer, Encoded, ProxyHost, ProxyHostSpec, Similar, SameRecord
    <3>4. obj' \in Versions /\ obj' # NoObj /\ Seen(req) = {obj}
      BY <1>0, <2>1, <3>1, <3>2, EncodedLife, SeenTypes DEF Finalized, IInv, RequestInv
    <3>5. Seen(req)' \subseteq {obj, obj'}
      BY <1>0, <2>1, <3>1, <3>4, ClusterTypes, PublishAdds
    <3>6. obj' = api'[req]
      BY <1>0, <2>1, <3>1, <3>4, ClusterTypes, PublishKeeps
    <3> QED BY <2>1, <3>1, <3>2, <3>3, <3>4, <3>5, <3>6 DEF CopyStep
  <2> QED BY <2>2, <2>3
<1>8. CASE RefetchLatest
  <2>1. pc = "refetch" /\ UNCHANGED <<req, marked, host, captured>> /\ marked
    BY <1>0, <1>8 DEF RefetchLatest, WorkerInv, MarkedPCs
  <2>2. CASE pc' = "done" /\ UNCHANGED obj
    <3>1. ~Engaged'
      BY <2>1, <2>2 DEF Engaged, Working
    <3> QED BY <1>2, <2>1, <2>2, <3>1
  <2>3. CASE pc' = "removeFinalizer" /\ obj' = cache[req] /\ cache[req] # NoObj
    <3>1. cache[req] \in Seen(req) /\ Similar(cache[req], cache[req])
      BY DEF Seen, Similar, SameRecord
    <3> QED BY <2>1, <2>3, <3>1 DEF CopyStep
  <2> QED BY <1>8, <2>2, <2>3 DEF RefetchLatest, GetObject
<1>9. CASE DropFinalizer
  <2>1. /\ pc = "removeFinalizer" /\ pc' \in {"done", "requeue"}
        /\ UNCHANGED <<req, marked, host, captured>>
    BY <1>9 DEF DropFinalizer
  <2>2. UNCHANGED obj
    <3>1. CASE fresh /\ obj.fin
      <4>1. obj = api[req] /\ Finalized(api[req]) /\ marked
        BY <1>0, <2>1, <3>1 DEF WorkerInv, MarkedPCs, Finalized
      <4>2. WithoutFinalizer(Encoded(api[req])) = NoObj
        BY <1>0, <2>1, <4>1, EncodedLife DEF WorkerInv, IInv, RequestInv
      <4> QED BY <1>9, <4>2 DEF DropFinalizer, RemoveFinalizer, UpdateObject
    <3> QED BY <1>9, <3>1 DEF DropFinalizer, RemoveFinalizer, UpdateObject
  <2>3. ~Engaged'
    BY <2>1 DEF Engaged, Working, CreatePCs
  <2> QED BY <1>2, <2>1, <2>2, <2>3
<1>10. CASE Return \/ Crash
  BY <1>10 DEF Return, Crash, Reset, CopyStep
<1>11. CASE \/ InitNginxPMClient \/ RestoreHost \/ ReenableHost \/ DisableHost \/ DeleteHost
            \/ EnableHost \/ PrepareInput \/ UpdateHost \/ FollowUp
  <2>1. UNCHANGED <<req, obj, marked, host, captured>> /\ pc # "idle"
    BY <1>11
    DEF InitNginxPMClient, RestoreHost, ReenableHost, DisableHost, DeleteHost, EnableHost,
        PrepareInput, UpdateHost, FollowUp
  <2>2. /\ pc' # "idle" /\ pc' # "find" /\ pc' # "finalizer"
        /\ pc \in CreatePCs \cup {"client"} \/ pc' \in MarkedPCs \cup {"requeue"}
    BY <1>11
    DEF InitNginxPMClient, RestoreHost, ReenableHost, DisableHost, DeleteHost, EnableHost,
        PrepareInput, UpdateHost, FollowUp, FinalizerOperation, CreatePCs, MarkedPCs
  <2>3. Engaged' => Engaged
    BY <2>1, <2>2 DEF Engaged, Working, CreatePCs, MarkedPCs
  <2> QED BY <1>2, <2>1, <2>2, <2>3
<1>12. CASE CheckDomains \/ FindHostByID \/ BindExisting \/ NothingToBind \/ CreateHost
  <2>1. /\ UNCHANGED <<req, obj, marked>> /\ pc \in CreatePCs /\ pc # "idle" /\ ~marked
        /\ pc' # "idle" /\ Engaged
    BY <1>0, <1>12
    DEF CheckDomains, FindHostByID, BindExisting, NothingToBind, CreateHost, CreatePCs,
        AfterFind, WorkerInv, Engaged, Working
  <2>2. pc' = "find" => DomainsUnique(req, obj) /\ UNCHANGED <<api, cache, watch>>
    BY <1>12
    DEF CheckDomains, FindHostByID, BindExisting, NothingToBind, CreateHost, AfterFind, kubeVars
  <2>3. captured' \in {captured, NoInit, obj.init} \/ captured'.doms = obj.spec.doms
    BY <1>12
    DEF CheckDomains, FindHostByID, BindExisting, NothingToBind, CreateHost, MatchingHosts,
        CaptureInitialConfiguration
  <2>4. host' \in {host, NoId, obj.id} \/ Acquires
    <3>1. CASE CheckDomains \/ FindHostByID \/ NothingToBind
      BY <3>1 DEF CheckDomains, FindHostByID, NothingToBind
    <3>2. CASE BindExisting
      BY <3>2 DEF BindExisting, Acquires, npmVars
    <3>3. CASE CreateHost
      <4>1. npm \in [Ids -> Host \cup {NoHost}]
        BY <1>0 DEF IInv, NpmInv
      <4>2. CASE host' = nextId /\ Post(CreateInput(obj))
        BY <4>1, <4>2 DEF Post, CreateInput, Body, Acquires
      <4> QED BY <3>3, <4>2 DEF CreateHost, CreateProxyHost
    <3> QED BY <1>12, <3>1, <3>2, <3>3
  <2> QED BY <2>1, <2>2, <2>3, <2>4 DEF CopyStep, CopyStays
<1>13. CASE \/ AdminCreate \/ (\E i \in Ids : AdminRemove(i) \/ AdminDisable(i))
            \/ (\E k \in Keys : Trigger(k) \/ WatchEvent(k) \/ UserCreate(k) \/ UserEdit(k)
                                 \/ UserDelete(k))
            \/ UNCHANGED vars \/ \E k \in Keys : Dequeue(k) /\ cache[k] = NoObj
  <2>1. UNCHANGED <<req, obj, localVars>>
    BY <1>13
    DEF AdminCreate, AdminRemove, AdminDisable, Trigger, WatchEvent, UserCreate, UserEdit,
        UserDelete, UserWrite, vars, helperVars, localVars, Dequeue
  <2>2. Engaged' => Engaged
    BY <2>1 DEF Engaged, Working, localVars
  <2> QED BY <1>1, <1>2, <2>1, <2>2 DEF localVars
<1> QED BY <1>3, <1>5, <1>6, <1>7, <1>8, <1>9, <1>10, <1>11, <1>12, <1>13
        DEF Next, Reconcile, Environment

-----------------------------------------------------------------------------
(* The parts of the invariant are kept.                                     *)

\* While a resource has the finalizer, its versions keep its domains.
LEMMA DomainsStay ==
  ASSUME "edit" \notin UserOps, FInv, ClusterStep,
         NEW k \in Keys, NEW x, \A y \in Seen(k) : SameDoms(x, y),
         Finalized(api[k]), pc # "removeFinalizer"
  PROVE  \A y \in Seen(k)' : SameDoms(x, y)
<1>0. IInv /\ api[k] \in Seen(k)
  BY SeenTypes DEF FInv
<1>1. CASE UNCHANGED <<api, cache, watch>>
  BY <1>1 DEF Seen
<1>2. ASSUME NEW j \in Keys, Deliver(j)
      PROVE  \A y \in Seen(k)' : SameDoms(x, y)
  BY <1>0, <1>2, ClusterTypes, DeliverSeen
<1>3. CASE Relist
  BY <1>0, <1>3, RelistSeen
<1>4. ASSUME NEW j \in Keys, NEW v \in Versions, Writes(j, v)
      PROVE  \A y \in Seen(k)' : SameDoms(x, y)
  <2>1. /\ Seen(j)' \subseteq Seen(j) \cup {v}
        /\ \A i \in Keys \ {j} : Seen(i)' = Seen(i)
    BY <1>0, <1>4, ClusterTypes, PublishAdds DEF Writes
  <2>2. CASE j = k
    <3>1. SameDoms(api[k], v)
      BY <1>4, <2>2 DEF Writes, Continues, Replaces
    <3>2. SameDoms(x, v)
      BY <1>0, <3>1 DEF SameDoms
    <3> QED BY <2>1, <2>2, <3>2
  <2> QED BY <2>1, <2>2
<1> QED BY <1>1, <1>2, <1>3, <1>4 DEF ClusterStep

\* An engaged worker keeps a copy that has everyone's domains.
LEMMA SameKept ==
  ASSUME "edit" \notin UserOps, SharedInv, ClusterStep, CopyStep, IInv', LifeInv'
  PROVE  SameInv'
<1>0. FInv /\ IInv /\ WorkerInv /\ SameInv
  BY DEF SharedInv, FInv
<1> SUFFICES ASSUME Engaged' PROVE \A y \in Seen(req)' : SameDoms(obj', y)
  BY DEF SameInv, SameDoms
<1>1. ASSUME Engaged, UNCHANGED req
      PROVE  /\ req \in Keys /\ \A y \in Seen(req)' : SameDoms(obj, y)
             /\ cache[req] # NoObj => obj.spec.doms = cache[req].spec.doms
             /\ \A x \in Seen(req) : obj.spec.doms = x.spec.doms
  <2>1. req \in Keys /\ Finalized(api[req]) /\ pc # "removeFinalizer"
    BY <1>0, <1>1 DEF Engaged, Working, CreatePCs, WorkerInv, IInv, RequestInv
  <2>2. \A y \in Seen(req) : SameDoms(obj, y)
    BY <1>0, <1>1 DEF SameInv
  <2>3. cache[req] \in Seen(req)
    BY <1>0, <2>1, SeenTypes
  <2>4. \A y \in Seen(req)' : SameDoms(obj, y)
    <3>1. PICK j \in Keys : j = req
      BY <2>1
    <3>2. \A y \in Seen(j)' : SameDoms(obj, y)
      BY <1>0, <2>1, <2>2, <3>1, DomainsStay
    <3> QED BY <1>1, <3>1, <3>2
  <2> QED BY <2>1, <2>2, <2>3, <2>4 DEF SameDoms
<1>2. pc' # "idle" /\ obj' # NoObj
  BY DEF Engaged, Working, CreatePCs, IInv, RequestInv
<1>3. CASE CopyStays
  BY <1>1, <1>3 DEF CopyStays
<1>4. ASSUME NEW x \in Seen(req'), Similar(x, obj'), UNCHANGED <<req, marked>>,
             Working \/ marked
      PROVE  \A y \in Seen(req)' : SameDoms(obj', y)
  <2>1. Engaged
    BY <1>4 DEF Engaged, Working
  <2> QED BY <1>1, <1>4, <2>1 DEF Similar, SameDoms
<1>5. CASE req' \in Keys /\ obj' = cache'[req'] /\ marked' = obj'.deleting /\ pc' = "finalizer"
           /\ obj' # NoObj
  <2>1. obj' \in Seen(req)'
    BY <1>5 DEF Seen
  <2>2. Kept(obj')
    BY <1>5 DEF Engaged, Working, CreatePCs, Kept, Finalized, Deleting
  <2> QED BY <1>5, <2>1, <2>2 DEF LifeInv
<1>6. CASE Similar(obj, obj') /\ Seen(req)' \subseteq {obj, obj'} /\ obj' # NoObj
           /\ UNCHANGED req /\ pc = "finalizer"
  <2>1. obj # NoObj
    BY <1>0, <1>6 DEF IInv, RequestInv
  <2> QED BY <1>6, <2>1 DEF Similar, SameDoms
<1>7. CASE obj' = Recorded(cache[req]) /\ cache[req] # NoObj /\ UNCHANGED req /\ pc = "save"
  <2>1. Engaged /\ req \in Keys
    BY <1>0, <1>7 DEF Engaged, Working, CreatePCs, WorkerInv, IInv, RequestInv
  <2>2. cache[req] \in ProxyHost
    BY <1>0, <1>7, <2>1, ClusterTypes, VersionIsProxyHost
  <2>3. obj'.spec = cache[req].spec
    BY <1>7, <2>2 DEF Recorded, ProxyHost
  <2> QED BY <1>1, <1>7, <2>1, <2>3 DEF SameDoms
<1> QED BY <1>2, <1>3, <1>4, <1>5, <1>6, <1>7 DEF CopyStep

\* What the cache will show after a step, it already would, unless the step
\* wrote it.
LEMMA SeenSources ==
  ASSUME IInv, ClusterStep, NEW k \in Keys, NEW x \in Seen(k)', x \notin Seen(k)
  PROVE  x \in Versions /\ Writes(k, x)
<1>1. CASE UNCHANGED <<api, cache, watch>>
  BY <1>1 DEF Seen
<1>2. ASSUME NEW j \in Keys, Deliver(j)
      PROVE  FALSE
  BY <1>2, ClusterTypes, DeliverSeen
<1>3. CASE Relist
  BY <1>3, RelistSeen, SeenTypes
<1>4. ASSUME NEW j \in Keys, NEW v \in Versions, Writes(j, v)
      PROVE  x \in Versions /\ Writes(k, x)
  <2>1. /\ Seen(j)' \subseteq Seen(j) \cup {v}
        /\ \A i \in Keys \ {j} : Seen(i)' = Seen(i)
    BY <1>4, ClusterTypes, PublishAdds DEF Writes
  <2> QED BY <1>4, <2>1
<1> QED BY <1>1, <1>2, <1>3, <1>4 DEF ClusterStep

\* What the worker is to record has the domains of the stored resource.
LEMMA WorkerAgrees ==
  ASSUME FInv, SameInv, pc \in CreatePCs
  PROVE  req \in Keys /\ \A y \in Seen(req) : y # NoObj /\ y.spec.doms = obj.spec.doms
BY DEF FInv, WorkerInv, SameInv, Engaged, Working, SameDoms, CreatePCs, IInv, RequestInv

\* How the worker's copy comes about: it has the domains and the record of a
\* version or of the copy before, or has got the record of the worker's host.
Copied ==
  /\ UNCHANGED <<host, captured>> /\ pc' # "find"
  /\ \/ UNCHANGED <<req, marked>> /\ pc # "idle" /\ (marked \/ obj'.spec.doms = obj.spec.doms)
     \/ pc = "idle"
  /\ \/ \E x \in Seen(req') : x # NoObj /\ Similar(x, obj')
     \/ pc # "idle" /\ UNCHANGED req /\ Similar(obj, obj')
     \/ /\ pc = "save" /\ UNCHANGED req /\ obj'.id = host /\ obj'.spec.doms = obj.spec.doms
        /\ \/ obj'.init = captured /\ captured # NoInit
           \/ \E x \in Seen(req) : x # NoObj /\ x.spec.doms = obj'.spec.doms /\ x.init = obj'.init

\* A copy that stays in work is one of these.
LEMMA CopySources ==
  ASSUME SharedInv, CopyStep, pc' # "idle"
  PROVE  CopyStays \/ Copied
<1>0. FInv /\ IInv /\ SameInv /\ WorkerInv
  BY DEF SharedInv, FInv
<1>1. CASE CopyStays
  BY <1>1
<1>2. ASSUME NEW x \in Seen(req'), x # NoObj, Similar(x, obj'),
             UNCHANGED <<host, captured>>, pc' # "find",
             \/ UNCHANGED <<req, marked>> /\ (Working \/ marked)
             \/ pc = "idle"
      PROVE  Copied
  <2>1. CASE pc = "idle" \/ (marked /\ UNCHANGED <<req, marked>>)
    BY <1>2, <2>1 DEF Copied
  <2>2. CASE Working /\ UNCHANGED <<req, marked>>
    <3>1. x.spec.doms = obj.spec.doms /\ pc # "idle"
      BY <1>0, <1>2, <2>2 DEF SameInv, SameDoms, Engaged, Working, CreatePCs
    <3>2. obj'.spec.doms = obj.spec.doms
      BY <1>2, <3>1 DEF Similar
    <3> QED BY <1>2, <2>2, <3>1, <3>2 DEF Copied
  <2> QED BY <1>2, <2>1, <2>2
<1>3. CASE /\ Similar(obj, obj') /\ UNCHANGED <<req, marked, host, captured>>
           /\ pc = "finalizer" /\ pc' = "reconciling"
  BY <1>3 DEF Copied, Similar
<1>4. CASE /\ obj' = Recorded(cache[req]) /\ cache[req] # NoObj
           /\ UNCHANGED <<req, marked, host, captured>>
           /\ pc = "save" /\ pc' \in {"ready", "fail"}
  <2>1. req \in Keys /\ \A y \in Seen(req) : y # NoObj /\ y.spec.doms = obj.spec.doms
    BY <1>0, <1>4, WorkerAgrees DEF CreatePCs
  <2>2. cache[req] \in ProxyHost /\ cache[req] \in Seen(req)
    BY <1>0, <1>4, <2>1, ClusterTypes, VersionIsProxyHost, SeenTypes
  <2>3. /\ obj'.spec = cache[req].spec /\ obj'.id = host
        /\ obj'.init = IF captured # NoInit THEN captured ELSE cache[req].init
    BY <1>4, <2>2 DEF Recorded, ProxyHost
  <2>4. \/ obj'.init = captured /\ captured # NoInit
        \/ cache[req] # NoObj /\ cache[req].spec.doms = obj'.spec.doms
           /\ cache[req].init = obj'.init
    BY <1>4, <2>3
  <2> QED BY <1>4, <2>1, <2>2, <2>3, <2>4 DEF Copied
<1> QED BY <1>1, <1>2, <1>3, <1>4 DEF CopyStep

\* Every resource goes on asking for a domain.
LEMMA DomainsKept ==
  ASSUME "edit" \notin UserOps, SharedInv, ClusterStep, CopyStep, IInv', \A s \in Specs : s.doms # {}
  PROVE  DomainsInv'
<1>0. IInv /\ FInv /\ SameInv /\ DomainsInv
  BY DEF SharedInv, FInv
<1>1. ASSUME NEW k \in Keys, NEW x \in Seen(k)', x # NoObj
      PROVE  x.spec.doms # {}
  <2>1. CASE x \in Seen(k)
    BY <1>0, <1>1, <2>1 DEF DomainsInv
  <2>2. CASE x \notin Seen(k)
    <3>1. Writes(k, x) /\ api[k] \in Seen(k)
      BY <1>0, <2>2, SeenSources, SeenTypes
    <3>2. CASE Continues(k, x)
      BY <1>0, <3>1, <3>2 DEF Continues, SameDoms, DomainsInv, Live
    <3>3. CASE Replaces(k, x)
      BY <1>1, <3>3 DEF Replaces
    <3> QED BY <3>1, <3>2, <3>3 DEF Writes
  <2> QED BY <2>1, <2>2
<1>2. ASSUME pc' # "idle"
      PROVE  obj'.spec.doms # {}
  <2>1. CASE CopyStays
    BY <1>0, <2>1 DEF CopyStays, DomainsInv
  <2>2. CASE Copied
    <3>1. req' \in Keys
      BY <1>2 DEF IInv, RequestInv
    <3>2. ASSUME NEW x \in Seen(req'), x # NoObj, Similar(x, obj')
          PROVE  obj'.spec.doms # {}
      BY <1>0, <3>1, <3>2 DEF DomainsInv, Similar
    <3>3. CASE pc # "idle" /\ obj'.spec.doms = obj.spec.doms
      BY <1>0, <3>3 DEF DomainsInv
    <3> QED BY <2>2, <3>2, <3>3 DEF Copied, Similar
  <2> QED BY <1>2, <2>1, <2>2, CopySources
<1> QED BY <1>1, <1>2 DEF DomainsInv

\* A captured configuration keeps the domains of its resource.
LEMMA CaptureKept ==
  ASSUME "edit" \notin UserOps, SharedInv, ClusterStep, CopyStep, IInv'
  PROVE  CaptureInv'
<1>0. IInv /\ FInv /\ SameInv /\ CaptureInv
  BY DEF SharedInv, FInv
<1>1. ASSUME NEW k \in Keys, NEW x \in Seen(k)', x # NoObj, x.init # NoInit
      PROVE  x.init.doms = x.spec.doms
  <2>1. CASE x \in Seen(k)
    BY <1>0, <1>1, <2>1 DEF CaptureInv
  <2>2. CASE x \notin Seen(k)
    <3>1. Writes(k, x) /\ api[k] \in Seen(k) /\ api[k] \in Versions
      BY <1>0, <2>2, SeenSources, SeenTypes
    <3>2. CASE Continues(k, x) /\ SameRecord(x, api[k])
      BY <1>0, <1>1, <3>1, <3>2 DEF Continues, SameDoms, SameRecord, CaptureInv, Live
    <3>3. CASE Continues(k, x) /\ k = req /\ pc = "save" /\ x = Recorded(api[k])
      <4>1. api[k].spec.doms = obj.spec.doms
        BY <1>0, <3>1, <3>3, WorkerAgrees DEF CreatePCs
      <4>2. api[k] # NoObj /\ api[k] \in ProxyHost
        BY <3>1, <3>3, VersionIsProxyHost DEF Continues, Live
      <4>3. x.spec = api[k].spec /\ x.init = IF captured # NoInit THEN captured ELSE api[k].init
        BY <3>3, <4>2 DEF Recorded, ProxyHost
      <4> QED BY <1>0, <1>1, <3>1, <3>3, <4>1, <4>2, <4>3 DEF CaptureInv
    <3>4. CASE Replaces(k, x)
      BY <1>1, <3>4 DEF Replaces
    <3> QED BY <3>1, <3>2, <3>3, <3>4 DEF Writes, Continues, Saves
  <2> QED BY <2>1, <2>2
<1>2. ASSUME pc' # "idle", obj'.init # NoInit
      PROVE  obj'.init.doms = obj'.spec.doms
  <2>1. CASE CopyStays
    BY <1>0, <1>2, <2>1 DEF CopyStays, CaptureInv
  <2>2. CASE Copied
    <3>1. req' \in Keys
      BY <1>2 DEF IInv, RequestInv
    <3>2. ASSUME NEW x \in Seen(req'), x # NoObj, x.spec.doms = obj'.spec.doms,
                 x.init = obj'.init
          PROVE  obj'.init.doms = obj'.spec.doms
      BY <1>0, <1>2, <3>1, <3>2 DEF CaptureInv
    <3>3. CASE pc # "idle" /\ Similar(obj, obj')
      BY <1>0, <1>2, <3>3 DEF CaptureInv, Similar, SameRecord
    <3>4. CASE pc = "save" /\ obj'.spec.doms = obj.spec.doms /\ obj'.init = captured
               /\ captured # NoInit
      BY <1>0, <3>4 DEF CaptureInv
    <3> QED BY <2>2, <3>2, <3>3, <3>4 DEF Copied, Similar, SameRecord
  <2> QED BY <1>2, <2>1, <2>2, CopySources
<1>3. ASSUME pc' # "idle", captured' # NoInit
      PROVE  captured'.doms = obj'.spec.doms
  <2>1. CASE CopyStays
    BY <1>0, <1>3, <2>1 DEF CopyStays, CaptureInv
  <2>2. CASE Copied
    BY <1>0, <1>3, <2>2 DEF Copied, CaptureInv
  <2> QED BY <1>3, <2>1, <2>2, CopySources
<1>4. ASSUME pc' = "idle" \/ marked'
      PROVE  host' = NoId /\ captured' = NoInit
  <2>1. CASE pc' = "idle"
    BY <2>1 DEF CopyStep, CopyStays
  <2>2. CASE CopyStays
    BY <1>0, <1>4, <2>2 DEF CopyStays, CaptureInv
  <2>3. CASE Copied
    BY <1>0, <1>4, <2>1, <2>3 DEF Copied, CaptureInv
  <2> QED BY <2>1, <2>2, <2>3, CopySources
<1> QED BY <1>1, <1>2, <1>3, <1>4 DEF CaptureInv

\* While the worker looks for a host, no other resource comes to record one
\* under its domains.
LEMMA FindKept ==
  ASSUME "edit" \notin UserOps, SharedInv, ClusterStep, CopyStep
  PROVE  FindInv'
<1>0. IInv /\ LifeInv /\ FindInv
  BY DEF SharedInv, FInv
<1> SUFFICES ASSUME pc' = "find", NEW k \in Keys, k # req', NEW x \in Seen(k)', Records(x)
             PROVE  x.spec.doms \cap obj'.spec.doms = {}
  BY DEF FindInv, Records
<1>1. CopyStays /\ UNCHANGED <<req, obj>>
  BY CopySources DEF Copied, CopyStays
<1>2. CASE pc = "find"
  <2>1. CASE x \in Seen(k)
    BY <1>0, <1>1, <1>2, <2>1 DEF FindInv
  <2>2. CASE x \notin Seen(k)
    <3>1. Writes(k, x) /\ api[k] \in Seen(k)
      BY <1>0, <2>2, SeenSources, SeenTypes
    <3>2. Continues(k, x) /\ SameRecord(x, api[k]) /\ SameDoms(api[k], x) /\ Live(k)
      BY <1>1, <3>1 DEF Writes, Continues, Saves, Replaces, Records
    <3> QED BY <1>0, <1>1, <1>2, <3>1, <3>2 DEF FindInv, Records, SameRecord, SameDoms, Live
  <2> QED BY <2>1, <2>2
<1>3. CASE DomainsUnique(req, obj) /\ UNCHANGED <<api, cache, watch>>
  <2>1. x \in Seen(k) /\ cache[k] \in Seen(k)
    BY <1>3 DEF Seen
  <2>2. CASE x = cache[k]
    BY <1>1, <1>3, <2>2 DEF DomainsUnique, Records
  <2>3. CASE x \in Coming(k)
    <3>1. cache[k] # NoObj /\ cache[k].spec.doms = x.spec.doms
      BY <1>0, <2>1, <2>3 DEF LifeInv, SameDoms
    <3> QED BY <1>1, <1>3, <3>1 DEF DomainsUnique
  <2> QED BY <1>0, <2>1, <2>2, <2>3, SeenTypes
<1> QED BY <1>1, <1>2, <1>3 DEF CopyStays

-----------------------------------------------------------------------------
(* Hosts keep their domains.                                                *)

\* A host is gone, new, or has the domains that it had.
DomainsLast ==
  \A i \in Ids : Alive(i)' => i = nextId \/ (Alive(i) /\ npm'[i].doms = npm[i].doms)

\* A PUT of the domains that the host has leaves them alone.
LEMMA SamePut ==
  ASSUME NpmInv, NEW i, NEW body, NEW ok \in BOOLEAN, UpdateProxyHost(i, body, ok),
         i \in Ids /\ Alive(i) => npm[i].doms = body.doms
  PROVE  DomainsLast
<1>1. CASE UNCHANGED npm
  BY <1>1 DEF DomainsLast, Alive
<1>2. CASE Put(i, body) /\ Alive(i)
  <2>1. ASSUME NEW j \in Ids, j # i
        PROVE  npm'[j] = npm[j]
    BY <1>2, <2>1 DEF Put, NpmInv
  <2>2. CASE i \in Ids
    <3>1. npm[i] \in Host /\ npm[i].doms = body.doms
      BY <1>2, <2>2 DEF NpmInv, Alive
    <3>2. npm'[i].doms = body.doms
      BY <1>2, <2>2, <3>1 DEF Put, NpmInv, Host
    <3> QED BY <1>2, <2>1, <3>1, <3>2 DEF DomainsLast, Alive
  <2> QED BY <2>1, <2>2 DEF DomainsLast, Alive
<1> QED BY <1>1, <1>2 DEF UpdateProxyHost, npmVars

\* Switching a host on or off does.
LEMMA SwitchKeepsDomains ==
  ASSUME NpmInv, NEW i, NEW panics \in BOOLEAN,
         EnableProxyHost(i, panics) \/ DisableProxyHost(i, panics)
  PROVE  DomainsLast
<1>1. CASE UNCHANGED npm
  BY <1>1 DEF DomainsLast, Alive
<1>2. ASSUME NEW b, npm' = [npm EXCEPT ![i].enabled = b], Alive(i)
      PROVE  DomainsLast
  <2>1. ASSUME NEW j \in Ids, Alive(j)'
        PROVE  Alive(j) /\ npm'[j].doms = npm[j].doms
    <3>1. CASE j = i
      <4>1. npm[i] \in Host
        BY <1>2, <2>1, <3>1 DEF NpmInv, Alive
      <4> QED BY <1>2, <2>1, <3>1, <4>1 DEF NpmInv, Host
    <3>2. CASE j # i
      BY <1>2, <2>1, <3>2 DEF NpmInv, Alive
    <3> QED BY <3>1, <3>2
  <2> QED BY <2>1 DEF DomainsLast
<1> QED BY <1>1, <1>2 DEF EnableProxyHost, DisableProxyHost, SetEnabled, npmVars

\* The worker's host has the domains of its copy.
LEMMA HostAgrees ==
  ASSUME SharedInv, pc # "idle", NEW i \in Ids, i = obj.id \/ i = host, Alive(i)
  PROVE  npm[i].doms = obj.spec.doms
<1>1. req \in Keys
  BY DEF SharedInv, FInv, IInv, RequestInv
<1>2. Claims(req, i, obj.spec.doms)
  BY DEF Claims
<1> QED BY <1>1, <1>2 DEF SharedInv, ClaimInv

\* No step of the operator gives a host other domains.
LEMMA NextDomains ==
  ASSUME SharedInv, [Next]_vars
  PROVE  DomainsLast
<1>0. IInv /\ NpmInv /\ CaptureInv
  BY DEF SharedInv, FInv, IInv
<1>1. CASE UNCHANGED npm
  BY <1>1 DEF DomainsLast, Alive
<1>2. CASE RestoreHost
  <2>1. PICK ok \in BOOLEAN :
          UpdateProxyHost(obj.id, BuildRestorationInput(obj.init, obj.id), ok)
    BY <1>2 DEF RestoreHost
  <2>2. BuildRestorationInput(obj.init, obj.id).doms = obj.spec.doms /\ pc # "idle"
    BY <1>0, <1>2 DEF RestoreHost, IInv, PcInv, CaptureInv, BuildRestorationInput, Body
  <2> QED BY <1>0, <2>1, <2>2, SamePut, HostAgrees
<1>3. CASE UpdateHost \/ FollowUp
  <2>1. PICK ok \in BOOLEAN :
          \E body \in {UpdateInput(obj, host), CreateInput(obj)} : UpdateProxyHost(host, body, ok)
    BY <1>3 DEF UpdateHost, FollowUp
  <2>2. /\ UpdateInput(obj, host).doms = obj.spec.doms /\ CreateInput(obj).doms = obj.spec.doms
        /\ pc # "idle"
    BY <1>3 DEF UpdateInput, CreateInput, Body, UpdateHost, FollowUp
  <2> QED BY <1>0, <2>1, <2>2, SamePut, HostAgrees
<1>4. CASE ReenableHost \/ DisableHost \/ EnableHost
  BY <1>0, <1>4, SwitchKeepsDomains DEF ReenableHost, DisableHost, EnableHost
<1>5. ASSUME NEW i, npm' = [npm EXCEPT ![i] = NoHost]
      PROVE  DomainsLast
  BY <1>0, <1>5 DEF NpmInv, DomainsLast, Alive
<1>6. ASSUME NEW h, npm' = [npm EXCEPT ![nextId] = h]
      PROVE  DomainsLast
  BY <1>0, <1>6 DEF NpmInv, DomainsLast, Alive
<1>7. ASSUME NEW i \in Ids, AdminDisable(i)
      PROVE  DomainsLast
  <2>1. npm[i] \in Host
    BY <1>0, <1>7 DEF AdminDisable, NpmInv, Alive
  <2> QED BY <1>0, <1>7, <2>1 DEF AdminDisable, NpmInv, DomainsLast, Alive, Host
<1>8. CASE DeleteHost
  BY <1>1, <1>5, <1>8 DEF DeleteHost, DeleteProxyHost, npmVars
<1>9. CASE CreateHost
  BY <1>1, <1>6, <1>9 DEF CreateHost, CreateProxyHost, Post, npmVars
<1>10. CASE AdminCreate \/ \E i \in Ids : AdminRemove(i)
  BY <1>5, <1>6, <1>10 DEF AdminCreate, AdminRemove
<1>11. CASE \/ EnsureFinalizer \/ MarkReconciling \/ InitNginxPMClient \/ RefetchLatest
            \/ DropFinalizer \/ CheckDomains \/ FindHostByID \/ BindExisting \/ NothingToBind
            \/ PrepareInput \/ SaveStatus \/ MarkReady \/ MarkError \/ Return \/ Crash
            \/ (\E k \in Keys : Dequeue(k) \/ WatchEvent(k) \/ UserCreate(k) \/ UserEdit(k)
                                 \/ UserDelete(k) \/ Trigger(k))
            \/ UNCHANGED vars
  <2>1. UNCHANGED npm
    BY <1>11
    DEF EnsureFinalizer, MarkReconciling, InitNginxPMClient, RefetchLatest, DropFinalizer,
        CheckDomains, FindHostByID, BindExisting, NothingToBind, PrepareInput, SaveStatus,
        MarkReady, MarkError, Return, Crash, Dequeue, WatchEvent, UserCreate, UserEdit,
        UserDelete, UserWrite, Trigger, vars, npmVars
  <2> QED BY <1>1, <2>1
<1> QED BY <1>2, <1>3, <1>4, <1>7, <1>8, <1>9, <1>10, <1>11 DEF Next, Reconcile, Environment

-----------------------------------------------------------------------------
(* Every host has one resource.                                             *)

\* Who claims a host claimed it before, or acquires it now.
LEMMA ClaimSources ==
  ASSUME "edit" \notin UserOps, SharedInv, ClusterStep, CopyStep, IInv',
         NEW k \in Keys, NEW i \in Ids, NEW d, Claims(k, i, d)'
  PROVE  \/ Claims(k, i, d)
         \/ k = req /\ i = host' /\ d = obj.spec.doms /\ UNCHANGED <<req, obj>> /\ Acquires
<1>0. IInv /\ FInv /\ SameInv /\ CaptureInv /\ NoId \notin Ids
  BY NullsAssumption, MaxHostsAssumption DEF SharedInv, FInv, Ids
<1>1. ASSUME NEW x \in Seen(k)', x # NoObj, x.id = i, x.spec.doms = d
      PROVE  Claims(k, i, d)
  <2>1. CASE x \in Seen(k)
    BY <1>1, <2>1 DEF Claims
  <2>2. CASE x \notin Seen(k)
    <3>1. Writes(k, x) /\ api[k] \in Seen(k) /\ api[k] \in Versions
      BY <1>0, <2>2, SeenSources, SeenTypes
    <3>2. Continues(k, x) /\ api[k] # NoObj /\ api[k].spec.doms = d
      BY <1>0, <1>1, <3>1 DEF Writes, Continues, Replaces, SameDoms, Live
    <3>3. CASE SameRecord(x, api[k])
      BY <1>1, <3>1, <3>2, <3>3 DEF SameRecord, Claims
    <3>4. CASE k = req /\ pc = "save" /\ x = Recorded(api[k])
      <4>1. api[k].spec.doms = obj.spec.doms
        BY <1>0, <3>1, <3>4, WorkerAgrees DEF CreatePCs
      <4>2. x.id = host
        BY <3>1, <3>2, <3>4, VersionIsProxyHost DEF Recorded, ProxyHost
      <4> QED BY <1>1, <3>2, <3>4, <4>1, <4>2 DEF Claims
    <3> QED BY <3>2, <3>3, <3>4 DEF Continues, Saves
  <2> QED BY <2>1, <2>2
<1>2. CASE k = req' /\ pc' # "idle" /\ obj'.spec.doms = d /\ (obj'.id = i \/ host' = i)
  <2>1. CASE CopyStays
    BY <1>0, <1>2, <2>1 DEF CopyStays, Claims
  <2>2. CASE Copied
    <3>1. CASE host' = i
      BY <1>0, <1>2, <2>2, <3>1 DEF Copied, CaptureInv, Claims
    <3>2. ASSUME obj'.id = i, NEW x \in Seen(req'), x # NoObj, Similar(x, obj')
          PROVE  Claims(k, i, d)
      BY <1>2, <3>2 DEF Similar, SameRecord, Claims
    <3>3. CASE obj'.id = i /\ pc # "idle" /\ UNCHANGED req /\ Similar(obj, obj')
      BY <1>2, <3>3 DEF Similar, SameRecord, Claims
    <3>4. CASE obj'.id = i /\ obj'.id = host
      BY <2>2, <3>1, <3>4 DEF Copied
    <3> QED BY <1>2, <2>2, <3>1, <3>2, <3>3, <3>4 DEF Copied
  <2> QED BY <1>2, <2>1, <2>2, CopySources
<1> QED BY <1>1, <1>2 DEF Claims

\* Only hosts that were created are claimed.
LEMMA ClaimedIsCreated ==
  ASSUME IInv, NEW k \in Keys, NEW i \in Ids, NEW d, Claims(k, i, d)
  PROVE  i # nextId
<1>1. creator[i] # "none"
  <2>1. NoId \notin Ids
    BY NullsAssumption, MaxHostsAssumption DEF Ids
  <2>2. ASSUME NEW x \in Versions, x # NoObj, x.id = i
        PROVE  creator[i] # "none"
    BY <2>1, <2>2, VersionIsProxyHost DEF Truthful
  <2>3. obj \in Versions /\ (pc # "idle" => obj # NoObj) /\ Seen(k) \subseteq Versions
    BY SeenTypes DEF IInv, RequestInv
  <2> QED BY <2>1, <2>2, <2>3 DEF Claims, IInv, LocalInv
<1> QED BY <1>1 DEF IInv, NpmInv, Ids

\* A step gives a host to nobody else, and no claimed host other domains.
LEMMA ClaimKept ==
  ASSUME "edit" \notin UserOps, SharedInv, ClusterStep, CopyStep, DomainsLast, IInv'
  PROVE  ClaimInv'
<1>0. IInv /\ DomainsInv /\ FindInv /\ ClaimInv
  BY DEF SharedInv, FInv
<1>1. ASSUME NEW k \in Keys, NEW i \in Ids, NEW d, Claims(k, i, d), Acquires, i = host', k # req
      PROVE  FALSE
  <2>1. pc = "find" /\ Alive(i) /\ npm[i].doms = obj.spec.doms
    BY <1>0, <1>1, ClaimedIsCreated DEF Acquires, MatchingHosts
  <2>2. PICK x \in Seen(k) : x # NoObj /\ x.id = i /\ x.spec.doms = d
    BY <1>1 DEF Claims
  <2>3. d = obj.spec.doms
    BY <1>0, <1>1, <2>1 DEF ClaimInv
  <2>4. Records(x)
    BY <2>2, NullsAssumption, MaxHostsAssumption DEF Records, Ids
  <2> QED BY <1>0, <1>1, <2>1, <2>2, <2>3, <2>4 DEF FindInv, DomainsInv
<1>2. ASSUME NEW j \in Keys, NEW k \in Keys, NEW i \in Ids, NEW d, NEW e,
             Claims(j, i, d)', Claims(k, i, e)'
      PROVE  j = k
  <2>1. \/ Claims(j, i, d)
        \/ j = req /\ i = host' /\ Acquires
    BY <1>2, ClaimSources
  <2>2. \/ Claims(k, i, e)
        \/ k = req /\ i = host' /\ Acquires
    BY <1>2, ClaimSources
  <2> QED BY <1>0, <1>1, <2>1, <2>2 DEF ClaimInv
<1>3. ASSUME NEW k \in Keys, NEW i \in Ids, NEW d, Claims(k, i, d)', Alive(i)'
      PROVE  npm'[i].doms = d
  <2>1. CASE Claims(k, i, d)
    <3>1. Alive(i) /\ npm'[i].doms = npm[i].doms
      BY <1>0, <1>3, <2>1, ClaimedIsCreated DEF DomainsLast
    <3> QED BY <1>0, <2>1, <3>1 DEF ClaimInv
  <2>2. CASE i = host' /\ d = obj.spec.doms /\ Acquires
    BY <2>2 DEF Acquires, MatchingHosts
  <2> QED BY <1>3, <2>1, <2>2, ClaimSources
<1> QED BY <1>2, <1>3 DEF ClaimInv

-----------------------------------------------------------------------------
(* The theorem about sharing                                                *)

\* At first the cache shows what is stored: nothing, or a resource that an
\* older release bound to a host with its domains.
LEMMA InitSharedInv ==
  ASSUME Init, \A s \in Specs : s.doms # {}
  PROVE  SharedInv
<1>1. FInv /\ IInv
  BY InitFInv DEF FInv
<1>2. pc = "idle" /\ host = NoId /\ captured = NoInit /\ watch = [k \in Keys |-> << >>]
  BY DEF Init, InitCluster
<1>3. \A k \in Keys : Seen(k) = {api[k]} /\ Coming(k) = {}
  BY <1>1, <1>2, SeenTypes DEF Fresh
<1>4. LifeInv
  <2>1. ASSUME NEW k \in Keys, NEW x \in Seen(k), NEW y \in Seen(k), Kept(x)
        PROVE  SameDoms(x, y)
    <3>1. x = y
      BY <1>3, <2>1
    <3> QED BY <2>1, <3>1 DEF SameDoms, Kept, Finalized
  <2> QED BY <1>3, <2>1 DEF LifeInv
<1>5. ~Engaged
  BY <1>2 DEF Engaged, Working, CreatePCs
<1>6. CASE LegacyKey = NoKey
  <2>1. \A k \in Keys : api[k] = NoObj
    BY <1>6 DEF Init, InitCluster
  <2> QED BY <1>1, <1>2, <1>3, <1>4, <1>5, <2>1
          DEF SharedInv, SameInv, DomainsInv, CaptureInv, FindInv, ClaimInv, Claims
<1>7. CASE LegacyKey # NoKey
  <2>1. PICK s \in Specs, h \in ForeignHosts :
          /\ api = [k \in Keys |-> IF k = LegacyKey THEN LegacyObject(s) ELSE NoObj]
          /\ npm = [i \in Ids |-> IF i = 1 THEN [h EXCEPT !.doms = s.doms, !.cfg = s.cfg]
                                  ELSE NoHost]
    BY <1>7 DEF Init, InitCluster
  <2>2. h \in Host /\ 1 \in Ids
    BY ConstantsAssumption, MaxHostsAssumption DEF Ids
  <2>3. \A i \in Ids : Alive(i) => i = 1 /\ npm[i].doms = s.doms
    BY <2>1, <2>2 DEF Alive, Host
  <2>4. \A k \in Keys : \A x \in Seen(k) :
          x # NoObj => k = LegacyKey /\ x.spec = s /\ x.id = 1 /\ x.init = NoInit
    BY <1>3, <2>1 DEF LegacyObject
  <2>5. DomainsInv /\ CaptureInv /\ FindInv
    BY <1>2, <2>4 DEF DomainsInv, CaptureInv, FindInv
  <2>6. \A k \in Keys, i \in Ids : \A d : Claims(k, i, d) => k = LegacyKey /\ d = s.doms
    BY <1>2, <2>4 DEF Claims
  <2> QED BY <1>1, <1>4, <1>5, <2>3, <2>5, <2>6 DEF SharedInv, SameInv, ClaimInv
<1> QED BY <1>6, <1>7

\* Every step keeps the invariant.
LEMMA NextSharedInv ==
  ASSUME "edit" \notin UserOps, \A s \in Specs : s.doms # {}, SharedInv, [Next]_vars
  PROVE  SharedInv'
<1>1. FInv' /\ IInv' /\ RecordedHostHasFinalizer' /\ SeenInv'
  BY NextFInv DEF SharedInv, FInv
<1>2. ClusterStep /\ CopyStep /\ DomainsLast
  BY NextWrites, NextCopy, NextDomains DEF SharedInv
<1>3. LifeInv'
  BY <1>1, <1>2, LifeKept DEF SharedInv
<1>4. SameInv' /\ DomainsInv' /\ CaptureInv' /\ FindInv' /\ ClaimInv'
  BY <1>1, <1>2, <1>3, SameKept, DomainsKept, CaptureKept, FindKept, ClaimKept
<1> QED BY <1>1, <1>3, <1>4 DEF SharedInv

\* Two resources never record the same host, whatever is stale, lost or
\* repeated, wherever the operator crashes, and whatever administrators do in
\* NPM: domainsShouldBeUnique looks at the cache, and a version that records a
\* host is in the cache, with the domains it will always have, before the
\* worker can look for a host of another resource.  Every resource asks for a
\* domain, as the CRD demands, and none is edited.
THEOREM HostsAreNotShared ==
  ASSUME "edit" \notin UserOps, \A s \in Specs : s.doms # {}
  PROVE  Spec => []NoSharedHost
<1>1. Init => SharedInv
  BY InitSharedInv
<1>2. SharedInv /\ [Next]_vars => SharedInv'
  BY NextSharedInv
<1>3. SharedInv => NoSharedHost
  <2> SUFFICES ASSUME SharedInv, NEW j \in Keys, NEW k \in Keys, Live(j), Live(k),
                      api[j].id # NoId, api[j].id = api[k].id
               PROVE  j = k
    BY DEF NoSharedHost
  <2>1. api[j] \in Seen(j) /\ api[k] \in Seen(k) /\ api[j] \in Versions
    BY SeenTypes DEF SharedInv, FInv
  <2>2. api[j].id \in Ids
    BY <2>1, VersionIsProxyHost DEF Live, ProxyHost
  <2>3. /\ Claims(j, api[j].id, api[j].spec.doms)
        /\ Claims(k, api[j].id, api[k].spec.doms)
    BY <2>1 DEF Claims, Live
  <2> QED BY <2>2, <2>3 DEF SharedInv, ClaimInv
<1> QED BY <1>1, <1>2, <1>3, PTL DEF Spec

-----------------------------------------------------------------------------
(* A resource's own host goes first.                                        *)

\* Whoever reads a resource that records a host reads that record, once the
\* worker that wrote it has waited for the cache.
RecordInv ==
  \A k \in Keys : Records(api[k]) =>
    \A x \in Seen(k) :
      x # NoObj /\ (SameRecord(x, api[k]) \/ (k = req /\ pc \in {"ready", "fail"}))

\* The finalizer works on the stored record, and leaves an own host dead.
RemovalInv ==
  /\ pc \in {"restore", "reenable", "disable"} => obj.bound
  /\ /\ marked /\ pc \in (MarkedPCs \ {"refetch", "removeFinalizer"})
                           \cup {"finalizer", "reconciling", "client"}
     /\ Records(api[req])
     => SameRecord(obj, api[req])
  /\ pc \in {"refetch", "removeFinalizer"} /\ Records(api[req]) /\ ~api[req].bound
     => ~Alive(api[req].id)

OwnInv == FInv /\ RecordInv /\ RemovalInv

\* What is stored was stored before or is written by this step.
LEMMA StoredSources ==
  ASSUME IInv, ClusterStep, NEW k \in Keys, api'[k] # api[k]
  PROVE  api'[k] \in Versions /\ Writes(k, api'[k])
<1>1. ASSUME NEW j \in Keys, NEW v \in Versions, Writes(j, v)
      PROVE  api'[k] \in Versions /\ Writes(k, api'[k])
  BY <1>1, ClusterTypes, PublishKeeps DEF Writes
<1> QED BY <1>1 DEF ClusterStep, Deliver, Relist

\* Only a status write changes the record of a host.
LEMMA RecordLasts ==
  ASSUME IInv, ClusterStep, NEW k \in Keys, Records(api'[k]), ~Saves(k, api'[k])
  PROVE  Records(api[k]) /\ SameRecord(api'[k], api[k])
<1>1. CASE api'[k] = api[k]
  BY <1>1 DEF SameRecord
<1>2. CASE api'[k] # api[k]
  BY <1>2, StoredSources DEF Writes, Continues, Replaces, Records, SameRecord, Live
<1> QED BY <1>1, <1>2

\* The last status write of a reconciliation waits for the cache.
LEMMA CacheSettles ==
  ASSUME FInv, {"api", "lag"} \cap Faults = {}, [Next]_vars, RecordInv,
         pc \in {"ready", "fail"}, ~(pc' \in {"ready", "fail"} /\ UNCHANGED req)
  PROVE  \/ Fresh(req) /\ UNCHANGED cache
         \/ Relist
         \/ ~Records(api[req])
<1>1. req \in Keys /\ cache[req] \in Seen(req)
  BY SeenTypes DEF FInv, IInv, RequestInv
<1>2. MarkReady \/ MarkError \/ Crash
  BY DEF Next, Reconcile, Environment, EnsureFinalizer, MarkReconciling, InitNginxPMClient,
         RestoreHost, ReenableHost, DisableHost, DeleteHost, RefetchLatest, DropFinalizer,
         CheckDomains, FindHostByID, BindExisting, NothingToBind, EnableHost, PrepareInput,
         UpdateHost, CreateHost, FollowUp, SaveStatus, Return, UserCreate, UserEdit, UserDelete,
         UserWrite, Trigger, AdminCreate, AdminRemove, AdminDisable, Dequeue, WatchEvent, vars,
         localVars, helperVars
<1>3. CASE MarkReady \/ MarkError
  <2>1. UNCHANGED cache /\ \E v : \E ok \in BOOLEAN : UpdateStatus(v, ok)
    BY <1>3 DEF MarkReady, MarkError
  <2>2. cache[req] = NoObj \/ Fresh(req)
    BY <2>1 DEF UpdateStatus, Fault
  <2> QED BY <1>1, <2>1, <2>2 DEF RecordInv
<1> QED BY <1>2, <1>3 DEF Crash

\* The record spreads from the status write to all versions before the worker
\* takes the next request.
LEMMA RecordKept ==
  ASSUME FInv, {"api", "lag"} \cap Faults = {}, [Next]_vars, RecordInv
  PROVE  RecordInv'
<1>0. IInv /\ ClusterStep /\ WorkerInv
  BY NextWrites DEF FInv
<1> SUFFICES ASSUME NEW k \in Keys, Records(api'[k]), NEW x \in Seen(k)'
             PROVE  /\ x # NoObj
                    /\ SameRecord(x, api'[k]) \/ (k = req' /\ pc' \in {"ready", "fail"})
  BY DEF RecordInv, Records
<1>1. Fresh(k) => Seen(k) = {api[k]}
  BY <1>0, SeenTypes
<1>2. x \notin Seen(k) => x = api'[k]
  BY <1>0, SeenSources, ClusterTypes, PublishKeeps DEF Writes
<1>3. CASE x \notin Seen(k)
  BY <1>2, <1>3 DEF Records, SameRecord
<1>4. CASE x \in Seen(k) /\ ~Saves(k, api'[k])
  <2>1. Records(api[k]) /\ SameRecord(api'[k], api[k])
    BY <1>0, <1>4, RecordLasts
  <2>2. x # NoObj /\ (SameRecord(x, api[k]) \/ (k = req /\ pc \in {"ready", "fail"}))
    BY <1>4, <2>1 DEF RecordInv
  <2>3. CASE SameRecord(x, api[k])
    BY <2>1, <2>2, <2>3 DEF SameRecord
  <2>4. CASE k = req /\ pc \in {"ready", "fail"} /\ ~(k = req' /\ pc' \in {"ready", "fail"})
    <3>1. Fresh(k) \/ Relist
      BY <2>1, <2>4, CacheSettles
    <3>2. x = api[k]
      BY <1>1, <1>4, <3>1, RelistSeen
    <3> QED BY <2>1, <2>2, <3>2 DEF SameRecord
  <2> QED BY <2>2, <2>3, <2>4
<1>5. CASE x \in Seen(k) /\ Saves(k, api'[k])
  <2>1. k = req' /\ pc' \in {"ready", "fail"}
    BY <1>5 DEF Saves
  <2>2. CASE api'[k] = api[k]
    BY <1>5, <2>1, <2>2 DEF RecordInv
  <2>3. CASE api'[k] # api[k]
    <3>1. Continues(k, api'[k])
      BY <1>0, <2>3, StoredSources DEF Writes, Replaces, Records
    <3>2. CASE Fresh(k)
      BY <1>1, <1>5, <2>1, <3>1, <3>2 DEF Continues, Live
    <3>3. CASE SameRecord(api'[k], api[k])
      BY <1>5, <2>1, <3>1, <3>3 DEF Continues, Live, RecordInv, Records, SameRecord
    <3> QED BY <3>1, <3>2, <3>3 DEF Continues
  <2> QED BY <2>2, <2>3
<1> QED BY <1>3, <1>4, <1>5

\* A host that is gone does not come back: ids are not used again.
LEMMA DeadStays ==
  ASSUME IInv, [Next]_vars, NEW i \in Ids, creator[i] # "none", ~Alive(i)
  PROVE  ~Alive(i)'
<1>0. NpmInv /\ i # nextId
  BY DEF IInv, NpmInv, Ids
<1>1. CASE UNCHANGED npm
  BY <1>1 DEF Alive
<1>2. ASSUME NEW j, Alive(j), NEW h, npm' = [npm EXCEPT ![j] = h]
      PROVE  ~Alive(i)'
  BY <1>0, <1>2 DEF NpmInv, Alive
<1>3. ASSUME NEW j, npm' = [npm EXCEPT ![j] = NoHost]
      PROVE  ~Alive(i)'
  BY <1>0, <1>3 DEF NpmInv, Alive
<1>4. ASSUME NEW h, npm' = [npm EXCEPT ![nextId] = h]
      PROVE  ~Alive(i)'
  BY <1>0, <1>4 DEF NpmInv, Alive
<1>5. CASE RestoreHost \/ UpdateHost \/ FollowUp
  <2>1. ASSUME NEW j, NEW body, NEW ok, UpdateProxyHost(j, body, ok)
        PROVE  ~Alive(i)'
    BY <1>1, <1>2, <2>1 DEF UpdateProxyHost, Put, npmVars
  <2> QED BY <1>5, <2>1 DEF RestoreHost, UpdateHost, FollowUp
<1>6. CASE ReenableHost \/ DisableHost \/ EnableHost
  <2>1. ASSUME NEW j, NEW panics, EnableProxyHost(j, panics) \/ DisableProxyHost(j, panics)
        PROVE  ~Alive(i)'
    <3>1. UNCHANGED npm \/ (Alive(j) /\ \E b : npm' = [npm EXCEPT ![j].enabled = b])
      BY <2>1 DEF EnableProxyHost, DisableProxyHost, SetEnabled, npmVars
    <3> QED BY <1>1, <1>2, <3>1
  <2> QED BY <1>6, <2>1 DEF ReenableHost, DisableHost, EnableHost
<1>7. CASE DeleteHost
  BY <1>1, <1>3, <1>7 DEF DeleteHost, DeleteProxyHost, npmVars
<1>8. CASE CreateHost
  BY <1>1, <1>4, <1>8 DEF CreateHost, CreateProxyHost, Post, npmVars
<1>9. CASE AdminCreate \/ \E j \in Ids : AdminRemove(j) \/ AdminDisable(j)
  BY <1>2, <1>3, <1>4, <1>9 DEF AdminCreate, AdminRemove, AdminDisable
<1>10. CASE \/ EnsureFinalizer \/ MarkReconciling \/ InitNginxPMClient \/ RefetchLatest
            \/ DropFinalizer \/ CheckDomains \/ FindHostByID \/ BindExisting \/ NothingToBind
            \/ PrepareInput \/ SaveStatus \/ MarkReady \/ MarkError \/ Return \/ Crash
            \/ (\E k \in Keys : Dequeue(k) \/ WatchEvent(k) \/ UserCreate(k) \/ UserEdit(k)
                                 \/ UserDelete(k) \/ Trigger(k))
            \/ UNCHANGED vars
  <2>1. UNCHANGED npm
    BY <1>10
    DEF EnsureFinalizer, MarkReconciling, InitNginxPMClient, RefetchLatest, DropFinalizer,
        CheckDomains, FindHostByID, BindExisting, NothingToBind, PrepareInput, SaveStatus,
        MarkReady, MarkError, Return, Crash, Dequeue, WatchEvent, UserCreate, UserEdit,
        UserDelete, UserWrite, Trigger, vars, npmVars
  <2> QED BY <1>1, <2>1
<1> QED BY <1>5, <1>6, <1>7, <1>8, <1>9, <1>10 DEF Next, Reconcile, Environment

\* A stored record is of a host that was created.
LEMMA RecordIsCreated ==
  ASSUME IInv, NEW k \in Keys, Records(api[k])
  PROVE  api[k].id \in Ids /\ creator[api[k].id] # "none"
BY ClusterTypes, VersionIsProxyHost DEF Records, Truthful, ProxyHost

\* What is stored while the worker removes a resource has the record that it
\* had, and a host that is gone stays so.
LEMMA RemovalLasts ==
  ASSUME FInv, [Next]_vars, req \in Keys, pc # "save", Records(api'[req])
  PROVE  /\ Records(api[req]) /\ SameRecord(api'[req], api[req])
         /\ ~Alive(api[req].id) => ~(npm'[api'[req].id] # NoHost)
<1>1. IInv /\ ClusterStep
  BY NextWrites DEF FInv
<1>2. Records(api[req]) /\ SameRecord(api'[req], api[req])
  BY <1>1, RecordLasts DEF Saves
<1>3. api[req].id \in Ids /\ creator[api[req].id] # "none"
  BY <1>1, <1>2, RecordIsCreated
<1> QED BY <1>1, <1>2, <1>3, DeadStays DEF SameRecord, Alive

\* The finalizer's steps from the decision to the end.
LEMMA RemovalKept ==
  ASSUME OwnInv, {"token", "npm"} \cap Faults = {}, [Next]_vars
  PROVE  RemovalInv'
<1>0. FInv /\ IInv /\ WorkerInv /\ RecordInv /\ RemovalInv
  BY DEF OwnInv, FInv
<1>1. pc # "idle" => req \in Keys /\ cache[req] \in Seen(req)
  BY <1>0, SeenTypes DEF IInv, RequestInv
<1>2. ASSUME UNCHANGED <<req, obj, marked>>, pc # "idle",
             \/ pc' = pc
             \/ pc = "finalizer" /\ pc' \in {"reconciling", "requeue"}
             \/ pc = "reconciling" /\ pc' = "client"
             \/ pc = "restore" /\ pc' = "reenable"
             \/ pc' \in CreatePCs \cup {"done", "requeue"}
      PROVE  RemovalInv'
  <2>1. CASE pc = "save"
    BY <1>0, <1>2, <2>1 DEF RemovalInv, WorkerInv, CreatePCs, MarkedPCs
  <2>2. CASE pc # "save"
    <3>1. Records(api'[req]) =>
            /\ Records(api[req]) /\ SameRecord(api'[req], api[req])
            /\ ~Alive(api[req].id) => ~(npm'[api'[req].id] # NoHost)
      BY <1>0, <1>1, <1>2, <2>2, RemovalLasts
    <3> QED BY <1>0, <1>2, <3>1 DEF RemovalInv, SameRecord, CreatePCs, MarkedPCs, Alive
  <2> QED BY <2>1, <2>2
<1>3. CASE pc' \in CreatePCs \cup {"idle", "done", "requeue"}
  BY <1>3 DEF RemovalInv, CreatePCs, MarkedPCs
<1>4. ASSUME NEW k \in Keys, Dequeue(k), pc' # "idle"
      PROVE  RemovalInv'
  <2>1. /\ req' = k /\ obj' = cache[k] /\ pc' = "finalizer" /\ pc = "idle"
        /\ UNCHANGED <<api, cache>>
    BY <1>4 DEF Dequeue, GetObject
  <2>2. cache[k] \in Seen(k)
    BY DEF Seen
  <2>3. Records(api[k]) => SameRecord(cache[k], api[k])
    BY <1>0, <2>1, <2>2 DEF RecordInv
  <2> QED BY <2>1, <2>3 DEF RemovalInv, MarkedPCs, Records
<1>5. CASE EnsureFinalizer
  <2>1. /\ pc = "finalizer" /\ pc' \in {"reconciling", "requeue"} /\ UNCHANGED <<req, marked>>
        /\ marked => UNCHANGED obj
    BY <1>5 DEF EnsureFinalizer
  <2>2. CASE marked
    BY <1>2, <2>1, <2>2
  <2>3. CASE ~marked
    BY <2>1, <2>3 DEF RemovalInv, MarkedPCs
  <2> QED BY <2>2, <2>3
<1>6. CASE MarkReconciling
  <2>1. pc = "reconciling" /\ pc' = "client" /\ UNCHANGED <<req, marked>>
    BY <1>6 DEF MarkReconciling
  <2>2. CASE UNCHANGED obj
    BY <1>2, <2>1, <2>2
  <2>3. CASE ~UNCHANGED obj
    <3>1. cache[req] # NoObj /\ obj' = SetCondition(cache[req], "Reconciling")
      BY <1>6, <2>3 DEF MarkReconciling, UpdateStatus
    <3>2. SameRecord(obj', cache[req])
      BY <1>0, <1>1, <2>1, <3>1, ClusterTypes, VersionIsProxyHost
      DEF SetCondition, ProxyHost, SameRecord
    <3>3. Records(api'[req]) => Records(api[req]) /\ SameRecord(api'[req], api[req])
      BY <1>0, <1>1, <2>1, RemovalLasts
    <3>4. Records(api[req]) => SameRecord(cache[req], api[req])
      BY <1>0, <1>1, <2>1 DEF RecordInv
    <3> QED BY <2>1, <3>2, <3>3, <3>4 DEF RemovalInv, MarkedPCs, SameRecord, Records
  <2> QED BY <2>2, <2>3
<1>7. CASE InitNginxPMClient
  <2>1. /\ pc = "client" /\ UNCHANGED <<api, npm, req, obj, marked>>
        /\ \/ marked /\ pc' \in {FinalizerOperation(obj), "done"}
           \/ pc' = "unique"
    BY <1>7 DEF InitNginxPMClient, Fault, kubeVars, npmVars
  <2>2. /\ FinalizerOperation(obj) \in {"restore", "disable", "delete", "refetch"}
        /\ FinalizerOperation(obj) \in {"restore", "disable"} => obj.bound
        /\ FinalizerOperation(obj) = "refetch" => obj.id = NoId
    BY <1>0 DEF FinalizerOperation, ShouldRestoreInitialConfig
  <2>3. Records(api[req]) /\ marked => obj.id # NoId /\ SameRecord(obj, api[req])
    BY <1>0, <2>1 DEF RemovalInv, Records, SameRecord
  <2> QED BY <2>1, <2>2, <2>3 DEF RemovalInv, MarkedPCs, CreatePCs, Records
<1>8. CASE RestoreHost \/ ReenableHost \/ DisableHost
  <2>1. /\ UNCHANGED <<api, req, obj, marked>> /\ pc \in {"restore", "reenable", "disable"}
        /\ marked
        /\ \/ pc' \in {"refetch", "requeue"}
           \/ pc = "restore" /\ pc' = "reenable"
    BY <1>0, <1>8 DEF RestoreHost, ReenableHost, DisableHost, kubeVars, WorkerInv, MarkedPCs
  <2>2. Records(api[req]) => api[req].bound = obj.bound /\ obj.bound
    BY <1>0, <2>1 DEF RemovalInv, MarkedPCs, SameRecord
  <2>3. CASE pc' = "refetch"
    BY <2>1, <2>2, <2>3 DEF RemovalInv, MarkedPCs, Records
  <2> QED BY <1>2, <2>1, <2>3
<1>9. CASE DeleteHost
  <2>1. /\ UNCHANGED <<api, req, obj, marked>> /\ pc = "delete" /\ pc' = "refetch"
        /\ npm' = [npm EXCEPT ![obj.id] = NoHost] /\ marked
    BY <1>0, <1>9 DEF DeleteHost, DeleteProxyHost, Fault, kubeVars, WorkerInv, MarkedPCs
  <2>2. Records(api[req]) => api[req].id = obj.id /\ api[req].id \in Ids
    BY <1>0, <1>1, <2>1, RecordIsCreated DEF RemovalInv, MarkedPCs, SameRecord
  <2>3. Records(api[req]) => npm'[api[req].id] = NoHost
    BY <1>0, <2>1, <2>2 DEF IInv, NpmInv
  <2> QED BY <2>1, <2>3 DEF RemovalInv, MarkedPCs, Records, Alive
<1>10. CASE RefetchLatest
  <2>1. UNCHANGED <<api, npm, req, marked>> /\ pc = "refetch" /\ pc' \in {"done", "removeFinalizer"}
    BY <1>10 DEF RefetchLatest, kubeVars, npmVars
  <2> QED BY <1>0, <2>1 DEF RemovalInv, MarkedPCs, Records, Alive
<1>11. CASE \/ CheckDomains \/ FindHostByID \/ BindExisting \/ NothingToBind \/ EnableHost
            \/ PrepareInput \/ UpdateHost \/ CreateHost \/ FollowUp \/ SaveStatus \/ MarkReady
            \/ MarkError \/ DropFinalizer \/ Return \/ Crash
  <2>1. pc' \in CreatePCs \cup {"idle", "done", "requeue"}
    BY <1>11
    DEF CheckDomains, FindHostByID, BindExisting, NothingToBind, EnableHost, PrepareInput,
        UpdateHost, CreateHost, FollowUp, SaveStatus, MarkReady, MarkError, DropFinalizer,
        Return, Crash, Reset, AfterFind, CreatePCs
  <2> QED BY <1>3, <2>1
<1>12. CASE \/ AdminCreate \/ (\E i \in Ids : AdminRemove(i) \/ AdminDisable(i))
            \/ (\E k \in Keys : Trigger(k) \/ WatchEvent(k) \/ UserCreate(k) \/ UserEdit(k)
                                 \/ UserDelete(k))
            \/ UNCHANGED vars \/ \E k \in Keys : Dequeue(k) /\ pc' = "idle"
  <2>1. UNCHANGED <<req, obj, localVars>> \/ pc' = "idle"
    BY <1>12
    DEF AdminCreate, AdminRemove, AdminDisable, Trigger, WatchEvent, UserCreate, UserEdit,
        UserDelete, UserWrite, vars, helperVars, localVars
  <2> QED BY <1>2, <1>3, <2>1 DEF localVars
<1> QED BY <1>4, <1>5, <1>6, <1>7, <1>8, <1>9, <1>10, <1>11, <1>12
        DEF Next, Reconcile, Environment

\* The cluster starts with the cache up to date and the worker idle.
LEMMA InitOwnInv == Init => OwnInv
<1> SUFFICES ASSUME Init PROVE OwnInv
  OBVIOUS
<1>1. FInv /\ IInv
  BY InitFInv DEF FInv
<1>2. pc = "idle" /\ watch = [k \in Keys |-> << >>]
  BY DEF Init, InitCluster
<1>3. \A k \in Keys : Seen(k) = {api[k]}
  BY <1>1, <1>2, SeenTypes DEF Fresh
<1>4. RecordInv /\ RemovalInv
  BY <1>2, <1>3 DEF RecordInv, RemovalInv, Records, SameRecord, MarkedPCs
<1> QED BY <1>1, <1>4 DEF OwnInv

\* Every step keeps the invariant.
LEMMA NextOwnInv ==
  ASSUME {"api", "lag", "token", "npm"} \cap Faults = {}, OwnInv, [Next]_vars
  PROVE  OwnInv'
BY NextFInv, RecordKept, RemovalKept DEF OwnInv

\* What removes a resource that records a host is the end of its finalizer.
LEMMA OnlyFinalizerRemoves ==
  ASSUME FInv, [Next]_vars, NEW k \in Keys, Live(k), api'[k] = NoObj, api[k].id # NoId
  PROVE  k = req /\ pc = "removeFinalizer"
<1>1. IInv /\ ClusterStep /\ RecordedHostHasFinalizer
  BY NextWrites DEF FInv
<1>2. Writes(k, NoObj)
  BY <1>1, StoredSources DEF Live
<1> QED BY <1>1, <1>2
        DEF Writes, Continues, Replaces, Live, Finalized, RecordedHostHasFinalizer

\* A resource that recorded a host it created goes only when that host is
\* gone, in whatever order users delete and edit, the cache follows and the
\* operator crashes: the finalizer decides by the cached record, and the cache
\* shows the last one because the status write that ends a reconciliation waits
\* for it.  Reconcile gives that up by itself when this write fails or stays
\* behind, when it has no client and when NPM refuses the deletion.
THEOREM OwnHostsGoFirst ==
  ASSUME {"api", "lag", "token", "npm"} \cap Faults = {}
  PROVE  Spec => OwnHostRemovedFirst
<1>1. OwnInv /\ [Next]_vars => OwnInv'
  BY NextOwnInv
<1>2. OwnInv /\ [Next]_vars =>
        [\A k \in Keys : Live(k) /\ api'[k] = NoObj /\ api[k].id # NoId /\ ~api[k].bound
                           => ~Alive(api[k].id)]_vars
  <2> SUFFICES ASSUME OwnInv, [Next]_vars, NEW k \in Keys, Live(k), api'[k] = NoObj,
                      api[k].id # NoId, ~api[k].bound
               PROVE  ~Alive(api[k].id)
    OBVIOUS
  <2>1. k = req /\ pc = "removeFinalizer"
    BY OnlyFinalizerRemoves DEF OwnInv
  <2> QED BY <2>1 DEF OwnInv, RemovalInv, Records, Live
<1> QED BY <1>1, <1>2, InitOwnInv, PTL DEF Spec, OwnHostRemovedFirst
-----------------------------------------------------------------------------
(* No host is lost, and Bound means adopted.                                *)

\* From the search for a host to the status write that records it.
HostPCs == {"enable", "prepare", "update", "create", "followUp", "save"}

\* The life that carries the finalizer forgets no record.
KeptInv ==
  \A k \in Keys : Finalized(api[k]) => \A x \in Seen(k) : Records(x) => Records(api[k])

\* Without a host there is nothing to be bound to.
BareInv ==
  \A k \in Keys : \A x \in Seen(k) : x # NoObj /\ x.id = NoId => ~x.bound /\ x.init = NoInit

\* A deletion mark stays on all later versions of a life.
OrderInv ==
  \A k \in Keys : Finalized(api[k]) =>
    /\ Deleting(cache[k]) => \A x \in Coming(k) : Deleting(x)
    /\ \A m, n \in 1 .. Len(watch[k]) : m <= n /\ Deleting(watch[k][m]) => Deleting(watch[k][n])

\* Who finalizes a resource, or finds its host gone, is not alone in knowing
\* that it is being deleted.
MarkedInv ==
  /\ pc # "idle" /\ marked /\ Finalized(api[req]) => \A x \in Seen(req) : Deleting(x)
  /\ \A k \in Keys : Records(api[k]) /\ ~Alive(api[k].id) => \A x \in Seen(k) : Deleting(x)

\* The worker knows the stored record, and the recorded host is there.
ReadInv ==
  Engaged /\ pc \notin {"ready", "fail"} =>
    SameRecord(obj, api[req]) /\ (Records(api[req]) => Alive(api[req].id))

\* The worker's host.
HostInv ==
  /\ pc \in {"enable", "update", "followUp", "save"} => host # NoId
  /\ pc = "create" => host = NoId
  /\ pc \in HostPCs => (obj.id # NoId => host = obj.id) /\ (host = NoId => ~bound)
  /\ pc \in HostPCs /\ host # NoId => Alive(host) /\ (bound <=> creator[host] = "admin")
  /\ host # NoId /\ creator[host] = "operator" /\ pc \notin {"followUp", "save"} =>
       Records(api[req]) /\ api[req].id = host

AdoptInv ==
  /\ SharedInv /\ OwnInv /\ KeptInv /\ BareInv /\ OrderInv /\ MarkedInv /\ ReadInv /\ HostInv
  /\ BoundMeansAdopted /\ NoOrphanHost

\* What may happen while the records stay true: a write that was stored may
\* look failed, and any input of a host may be missing.
Calm == Faults \subseteq {"apiLost", "prepare"} /\ UserOps \cap {"edit", "adminRemove"} = {}

\* Ids that were handed out keep their creator.
LEMMA CreatorStays ==
  ASSUME IInv, [Next]_vars, NEW i \in Ids, creator[i] # "none"
  PROVE  creator'[i] = creator[i]
<1>0. NpmInv /\ i # nextId
  BY DEF IInv, NpmInv, Ids
<1>1. CASE UNCHANGED creator
  BY <1>1
<1>2. CASE \E c : creator' = [creator EXCEPT ![nextId] = c]
  BY <1>0, <1>2 DEF NpmInv
<1>3. CASE CreateHost \/ AdminCreate
  BY <1>1, <1>2, <1>3 DEF CreateHost, CreateProxyHost, Post, AdminCreate, npmVars
<1>4. CASE RestoreHost \/ UpdateHost \/ FollowUp
  <2>1. ASSUME NEW j, NEW body, NEW ok, UpdateProxyHost(j, body, ok)
        PROVE  UNCHANGED creator
    BY <2>1 DEF UpdateProxyHost, Put, npmVars
  <2> QED BY <1>1, <1>4, <2>1 DEF RestoreHost, UpdateHost, FollowUp
<1>5. CASE ReenableHost \/ DisableHost \/ EnableHost
  <2>1. ASSUME NEW j, NEW panics, EnableProxyHost(j, panics) \/ DisableProxyHost(j, panics)
        PROVE  UNCHANGED creator
    BY <2>1 DEF EnableProxyHost, DisableProxyHost, SetEnabled, npmVars
  <2> QED BY <1>1, <1>5, <2>1 DEF ReenableHost, DisableHost, EnableHost
<1>6. CASE \/ EnsureFinalizer \/ MarkReconciling \/ InitNginxPMClient \/ RefetchLatest
           \/ DropFinalizer \/ CheckDomains \/ FindHostByID \/ BindExisting \/ NothingToBind
           \/ PrepareInput \/ SaveStatus \/ MarkReady \/ MarkError \/ Return \/ Crash
           \/ DeleteHost \/ (\E j \in Ids : AdminRemove(j) \/ AdminDisable(j))
           \/ (\E k \in Keys : Dequeue(k) \/ WatchEvent(k) \/ UserCreate(k) \/ UserEdit(k)
                                \/ UserDelete(k) \/ Trigger(k))
           \/ UNCHANGED vars
  <2>1. UNCHANGED creator
    BY <1>6
    DEF EnsureFinalizer, MarkReconciling, InitNginxPMClient, RefetchLatest, DropFinalizer,
        CheckDomains, FindHostByID, BindExisting, NothingToBind, PrepareInput, SaveStatus,
        MarkReady, MarkError, Return, Crash, DeleteHost, DeleteProxyHost, AdminRemove,
        AdminDisable, Dequeue, WatchEvent, UserCreate, UserEdit, UserDelete, UserWrite,
        Trigger, vars, npmVars
  <2> QED BY <1>1, <2>1
<1> QED BY <1>3, <1>4, <1>5, <1>6 DEF Next, Reconcile, Environment

\* A reconciliation that has come to its last status write ends with it.
LEMMA LastWrite ==
  ASSUME [Next]_vars, pc \in {"ready", "fail"}
  PROVE  pc' \in {"ready", "fail", "done", "requeue", "idle"}
<1>1. CASE MarkReady \/ MarkError \/ Crash
  BY <1>1 DEF MarkReady, MarkError, Crash, Reset
<1>2. CASE ~(MarkReady \/ MarkError \/ Crash)
  <2>1. pc' = pc
    BY <1>2
    DEF Next, Reconcile, Environment, EnsureFinalizer, MarkReconciling, InitNginxPMClient,
        RestoreHost, ReenableHost, DisableHost, DeleteHost, RefetchLatest, DropFinalizer,
        CheckDomains, FindHostByID, BindExisting, NothingToBind, EnableHost, PrepareInput,
        UpdateHost, CreateHost, FollowUp, SaveStatus, Return, UserCreate, UserEdit, UserDelete,
        UserWrite, Trigger, AdminCreate, AdminRemove, AdminDisable, Dequeue, WatchEvent, vars,
        localVars, helperVars
  <2> QED BY <2>1
<1> QED BY <1>1, <1>2

\* The finalizer is there since the stored version had it, or since now.
LEMMA FinalizedSince ==
  ASSUME IInv, ClusterStep, NEW k \in Keys, Finalized(api'[k])
  PROVE  \/ Finalized(api[k]) /\ (Deleting(api[k]) => Deleting(api'[k]))
         \/ Finalizes(k) /\ SameRecord(api'[k], api[k]) /\ Live(k)
<1>1. CASE api'[k] = api[k]
  BY <1>1
<1>2. CASE api'[k] # api[k]
  <2>1. Continues(k, api'[k])
    BY <1>2, StoredSources DEF Writes, Replaces, Finalized
  <2> QED BY <2>1 DEF Continues, Finalizes, Saves
<1> QED BY <1>1, <1>2

\* While the finalizer is there, only a status write changes the record.
LEMMA RecordStays ==
  ASSUME IInv, ClusterStep, NEW k \in Keys, Finalized(api[k]), ~Saves(k, api'[k]),
         pc # "removeFinalizer" \/ Live(k)'
  PROVE  Live(k)' /\ SameRecord(api'[k], api[k])
<1>1. CASE api'[k] = api[k]
  BY <1>1 DEF Live, Finalized, SameRecord
<1>2. CASE api'[k] # api[k]
  <2>1. Writes(k, api'[k])
    BY <1>2, StoredSources
  <2> QED BY <2>1 DEF Writes, Continues, Replaces, Live
<1> QED BY <1>1, <1>2

\* The record that the worker saves is of its host.
LEMMA SavedRecord ==
  ASSUME FInv, SameInv, NEW k \in Keys, NEW v, Saves(k, v)
  PROVE  v.id = host /\ v.bound = bound
<1>1. api[k] \in Seen(k) /\ k = req /\ pc \in CreatePCs
  BY SeenTypes DEF FInv, Saves, CreatePCs
<1>2. api[k] \in ProxyHost
  BY <1>1, WorkerAgrees, ClusterTypes, VersionIsProxyHost DEF FInv
<1> QED BY <1>2 DEF Saves, Recorded, ProxyHost

\* A finalized resource forgets no record.
LEMMA KeptKept ==
  ASSUME FInv, SameInv, ClusterStep, HostInv, KeptInv
  PROVE  KeptInv'
<1>0. IInv /\ NoId \notin Ids
  BY NullsAssumption, MaxHostsAssumption DEF FInv, Ids
<1> SUFFICES ASSUME NEW k \in Keys, Finalized(api'[k]), NEW x \in Seen(k)', Records(x)
             PROVE  Records(api'[k])
  BY DEF KeptInv
<1>1. CASE x \notin Seen(k)
  <2>1. x \in Versions /\ Writes(k, x)
    BY <1>0, <1>1, SeenSources
  <2>2. api'[k] = x
    BY <1>0, <2>1, ClusterTypes, PublishKeeps DEF Writes
  <2> QED BY <2>2
<1>2. CASE x \in Seen(k) /\ Finalized(api[k])
  <2>1. Records(api[k]) /\ Live(k)'
    BY <1>2 DEF KeptInv, Live, Finalized
  <2>2. CASE Saves(k, api'[k])
    BY <2>1, <2>2, SavedRecord DEF HostInv, Records, Live, Saves
  <2>3. CASE ~Saves(k, api'[k])
    BY <1>0, <1>2, <2>1, <2>3, RecordStays DEF Records, SameRecord, Live
  <2> QED BY <2>2, <2>3
<1>3. CASE x \in Seen(k) /\ Finalizes(k) /\ SameRecord(api'[k], api[k])
  <2>1. x = api[k]
    BY <1>0, <1>3, SeenTypes DEF Finalizes
  <2> QED BY <1>3, <2>1 DEF Records, SameRecord, Finalized
<1> QED BY <1>0, <1>1, <1>2, <1>3, FinalizedSince

\* A version without a host is bound to nothing.
LEMMA BareKept ==
  ASSUME FInv, SameInv, ClusterStep, HostInv, BareInv
  PROVE  BareInv'
<1>0. IInv
  BY DEF FInv
<1> SUFFICES ASSUME NEW k \in Keys, NEW x \in Seen(k)', x # NoObj, x.id = NoId
             PROVE  ~x.bound /\ x.init = NoInit
  BY DEF BareInv
<1>1. CASE x \in Seen(k)
  BY <1>1 DEF BareInv
<1>2. CASE x \notin Seen(k)
  <2>1. Writes(k, x) /\ api[k] \in Seen(k)
    BY <1>0, <1>2, SeenSources, SeenTypes
  <2>2. CASE Replaces(k, x)
    BY <2>2 DEF Replaces
  <2>3. CASE SameRecord(x, api[k]) /\ Live(k)
    BY <2>1, <2>3 DEF BareInv, SameRecord, Live
  <2>4. CASE Saves(k, x)
    BY <2>4, SavedRecord DEF HostInv, Saves
  <2> QED BY <2>1, <2>2, <2>3, <2>4 DEF Writes, Continues
<1> QED BY <1>1, <1>2

\* The places of the watch after a write.
LEMMA PublishPlaces ==
  ASSUME NEW S, NEW k \in Keys, NEW v \in S,
         api \in [Keys -> S], watch \in [Keys -> Seq(S)], Publish(k, v)
  PROVE  /\ Len(watch'[k]) \in {Len(watch[k]), Len(watch[k]) + 1} /\ Len(watch[k]) \in Nat
         /\ \A n \in 1 .. Len(watch'[k]) :
              watch'[k][n] = IF n <= Len(watch[k]) THEN watch[k][n] ELSE v
<1>1. watch[k] \in Seq(S) /\ Len(watch[k]) \in Nat
  OBVIOUS
<1>2. CASE v = api[k]
  BY <1>1, <1>2 DEF Publish
<1>3. CASE v # api[k]
  <2>1. watch'[k] = Append(watch[k], v)
    BY <1>3 DEF Publish
  <2> QED BY <1>1, <2>1
<1> QED BY <1>2, <1>3

\* Versions of a life come in the order of its deletion mark.
LEMMA OrderKept ==
  ASSUME FInv, ClusterStep, OrderInv
  PROVE  OrderInv'
<1>0. IInv /\ SeenInv
  BY DEF FInv
<1>1. CASE UNCHANGED <<api, cache, watch>>
  BY <1>1 DEF OrderInv, Coming
<1>2. ASSUME NEW k \in Keys, Deliver(k)
      PROVE  OrderInv'
  <2>1. /\ watch[k] # << >> /\ watch[k] \in Seq(Versions) /\ watch'[k] = Tail(watch[k])
        /\ \A j \in Keys \ {k} : watch'[j] = watch[j] /\ cache'[j] = cache[j]
        /\ api' = api /\ cache'[k] = watch[k][1]
    BY <1>0, <1>2, ClusterTypes DEF Deliver
  <2>2. Len(watch[k]) \in Nat \ {0}
    BY <2>1, EmptySeq, SMT
  <2>3. /\ Len(Tail(watch[k])) = Len(watch[k]) - 1
        /\ \A n \in 1 .. Len(Tail(watch[k])) : Tail(watch[k])[n] = watch[k][n + 1]
    BY <2>1, HeadTailProperties
  <2>4. ASSUME NEW n \in 1 .. Len(watch'[k])
        PROVE  n + 1 \in 1 .. Len(watch[k]) /\ watch'[k][n] = watch[k][n + 1]
    BY <2>1, <2>2, <2>3, <2>4
  <2>5. 1 \in 1 .. Len(watch[k]) /\ \A n \in 1 .. Len(watch[k]) : 1 <= n
    BY <2>2
  <2>6. Finalized(api[k]) /\ Deleting(cache'[k]) =>
          \A n \in 1 .. Len(watch'[k]) : Deleting(watch'[k][n])
    BY <2>1, <2>4, <2>5 DEF OrderInv
  <2>7. \A m, n \in 1 .. Len(watch'[k]) : m <= n => m + 1 <= n + 1
    BY <2>2, <2>3, <2>1
  <2>8. Finalized(api[k]) =>
          \A m, n \in 1 .. Len(watch'[k]) :
            m <= n /\ Deleting(watch'[k][m]) => Deleting(watch'[k][n])
    BY <2>4, <2>7 DEF OrderInv
  <2>9. \A j \in Keys \ {k} : Coming(j)' = Coming(j)
    BY <2>1 DEF Coming
  <2>10. Coming(k)' = {watch'[k][n] : n \in 1 .. Len(watch'[k])}
    BY DEF Coming
  <2>11. \A j \in Keys \ {k} : Finalized(api'[j]) =>
           /\ Deleting(cache'[j]) => \A x \in Coming(j)' : Deleting(x)
           /\ \A m, n \in 1 .. Len(watch'[j]) :
                m <= n /\ Deleting(watch'[j][m]) => Deleting(watch'[j][n])
    BY <2>1, <2>9 DEF OrderInv
  <2>12. Finalized(api'[k]) =>
           /\ Deleting(cache'[k]) => \A x \in Coming(k)' : Deleting(x)
           /\ \A m, n \in 1 .. Len(watch'[k]) :
                m <= n /\ Deleting(watch'[k][m]) => Deleting(watch'[k][n])
    BY <2>1, <2>6, <2>8, <2>10
  <2> QED BY <2>11, <2>12 DEF OrderInv
<1>3. CASE Relist
  BY <1>3 DEF Relist, OrderInv, Coming
<1>4. ASSUME NEW k \in Keys, NEW v \in Versions, Writes(k, v)
      PROVE  OrderInv'
  <2>1. /\ api'[k] = v /\ UNCHANGED cache
        /\ \A j \in Keys \ {k} : api'[j] = api[j] /\ watch'[j] = watch[j]
    BY <1>0, <1>4, ClusterTypes, PublishKeeps DEF Writes
  <2>2. /\ Len(watch'[k]) \in {Len(watch[k]), Len(watch[k]) + 1} /\ Len(watch[k]) \in Nat
        /\ \A n \in 1 .. Len(watch'[k]) :
             watch'[k][n] = IF n <= Len(watch[k]) THEN watch[k][n] ELSE v
    BY <1>0, <1>4, ClusterTypes, PublishPlaces DEF Writes
  <2>3. CASE Finalized(v) /\ Finalized(api[k]) /\ (Deleting(api[k]) => Deleting(v))
    <3>1. \A x \in Seen(k) : Deleting(x) => Deleting(v)
      BY <1>0, <2>3 DEF SeenInv, Before
    <3>2. \A n \in 1 .. Len(watch[k]) : watch[k][n] \in Seen(k) /\ watch[k][n] \in Coming(k)
      BY DEF Seen, Coming
    <3>3. Deleting(cache[k]) => \A n \in 1 .. Len(watch'[k]) : Deleting(watch'[k][n])
      <4>1. cache[k] \in Seen(k)
        BY DEF Seen
      <4> QED BY <2>2, <2>3, <3>1, <3>2, <4>1 DEF OrderInv
    <3>4. ASSUME NEW m \in 1 .. Len(watch'[k]), NEW n \in 1 .. Len(watch'[k]), m <= n,
                 Deleting(watch'[k][m])
          PROVE  Deleting(watch'[k][n])
      <4>1. CASE n <= Len(watch[k])
        <5>1. m \in 1 .. Len(watch[k]) /\ n \in 1 .. Len(watch[k])
          BY <2>2, <3>4, <4>1
        <5>2. watch'[k][m] = watch[k][m] /\ watch'[k][n] = watch[k][n]
          BY <2>2, <5>1
        <5> QED BY <2>3, <3>4, <5>1, <5>2 DEF OrderInv
      <4>2. CASE ~(n <= Len(watch[k]))
        <5>1. watch'[k][n] = v
          BY <2>2, <4>2
        <5>2. watch'[k][m] = v \/ watch'[k][m] \in Seen(k)
          BY <2>2, <3>2
        <5> QED BY <3>1, <3>4, <5>1, <5>2
      <4> QED BY <4>1, <4>2
    <3> QED BY <2>1, <3>3, <3>4 DEF OrderInv, Coming
  <2>4. CASE Finalized(v) /\ Finalizes(k)
    <3>1. watch[k] = << >> /\ ~Deleting(cache[k])
      BY <1>0, <2>4, SeenTypes DEF Finalizes, Fresh
    <3>2. \A n \in 1 .. Len(watch'[k]) : watch'[k][n] = v
      BY <2>2, <3>1
    <3>3. \A j \in Keys \ {k} : Coming(j)' = Coming(j)
      BY <2>1 DEF Coming
    <3>4. ~Deleting(cache'[k])
      BY <2>1, <3>1
    <3> QED BY <2>1, <3>2, <3>3, <3>4 DEF OrderInv
  <2>5. CASE ~Finalized(v)
    BY <2>1, <2>5 DEF OrderInv, Coming
  <2>6. \/ ~Finalized(v)
        \/ Finalized(api[k]) /\ (Deleting(api[k]) => Deleting(v))
        \/ Finalizes(k)
    BY <1>0, <1>4, <2>1, FinalizedSince
  <2> QED BY <2>3, <2>4, <2>5, <2>6
<1> QED BY <1>1, <1>2, <1>3, <1>4 DEF ClusterStep

\* All versions of a finalized resource have its record.
OneRecordInv ==
  \A k \in Keys : Finalized(api[k]) /\ ~(k = req /\ pc \in {"ready", "fail"}) =>
    \A x \in Seen(k) : x # NoObj => SameRecord(x, api[k])

\* Either all of them have none, or the stored one is recorded by all.
LEMMA OneRecord == IInv /\ RecordInv /\ KeptInv /\ BareInv => OneRecordInv
<1> SUFFICES ASSUME IInv, RecordInv, KeptInv, BareInv,
                    NEW k \in Keys, Finalized(api[k]), NEW x \in Seen(k), x # NoObj,
                    ~(k = req /\ pc \in {"ready", "fail"})
             PROVE  SameRecord(x, api[k])
  BY DEF OneRecordInv
<1>0. api[k] \in Seen(k) /\ api[k] # NoObj /\ Seen(k) \subseteq Versions
  BY SeenTypes DEF Finalized
<1>1. CASE Records(api[k])
  BY <1>1 DEF RecordInv
<1>2. CASE ~Records(api[k])
  <2>1. api[k].id = NoId /\ x.id = NoId
    BY <1>0, <1>2 DEF KeptInv, Records
  <2>2. x.bound \in BOOLEAN /\ api[k].bound \in BOOLEAN
    BY <1>0, VersionIsProxyHost DEF ProxyHost
  <2>3. ~x.bound /\ ~api[k].bound /\ x.init = NoInit /\ api[k].init = NoInit
    BY <1>0, <2>1 DEF BareInv
  <2> QED BY <2>1, <2>2, <2>3 DEF SameRecord
<1> QED BY <1>1, <1>2

\* What is new to see is what is stored.
LEMMA NewIsStored ==
  ASSUME IInv, ClusterStep, NEW k \in Keys, NEW x \in Seen(k)'
  PROVE  x \in Seen(k) \/ x = api'[k]
BY SeenSources, ClusterTypes, PublishKeeps DEF Writes

\* All versions stay marked when all are.
LEMMA MarksStay ==
  ASSUME IInv, ClusterStep, NEW k \in Keys, Finalized(api[k]), Finalized(api'[k]),
         \A x \in Seen(k) : Deleting(x)
  PROVE  \A x \in Seen(k)' : Deleting(x)
<1>1. Deleting(api[k])
  BY SeenTypes
<1>2. Deleting(api'[k])
  BY <1>1, FinalizedSince DEF Finalizes
<1> QED BY <1>2, NewIsStored

\* Nobody but the finalizer takes a host away.
LEMMA HostsLast ==
  ASSUME Calm, IInv, WorkerInv, [Next]_vars, NEW i \in Ids, Alive(i)
  PROVE  Alive(i)' \/ (DeleteHost /\ pc = "delete" /\ marked /\ obj.id = i)
<1>1. CASE UNCHANGED vars
  BY <1>1 DEF vars, npmVars, Alive
<1>2. CASE Next /\ npm'[i] = NoHost
  <2>1. ~AdminRemove(i)
    BY DEF AdminRemove, Op, Calm
  <2> QED BY <1>2, <2>1, WhoRemoves DEF DeleteHost, WorkerInv, MarkedPCs
<1> QED BY <1>1, <1>2 DEF Alive

\* Whoever finalizes is not alone in seeing the mark.
LEMMA MarkedKept ==
  ASSUME Calm, SharedInv, OwnInv, OrderInv', MarkedInv, HostInv, [Next]_vars, CopyStep,
         FInv'
  PROVE  MarkedInv'
<1>0. /\ FInv /\ IInv /\ WorkerInv /\ ClusterStep /\ IInv'
      /\ RecordedHostHasFinalizer /\ RecordedHostHasFinalizer'
      /\ pc # "idle" => req \in Keys
  BY NextWrites DEF SharedInv, FInv, IInv, RequestInv
<1>1. ASSUME pc' # "idle", marked', Finalized(api'[req']), NEW x \in Seen(req)'
      PROVE  Deleting(x)
  <2>1. CASE UNCHANGED <<req, marked>> /\ pc # "idle"
    <3>1. req \in Keys /\ ~Finalizes(req)
      BY <1>0, <1>1, <2>1 DEF Finalizes
    <3>2. Finalized(api[req])
      BY <1>0, <1>1, <2>1, <3>1, FinalizedSince
    <3>3. \A y \in Seen(req) : Deleting(y)
      BY <1>1, <2>1, <3>2 DEF MarkedInv
    <3> QED BY <1>0, <1>1, <2>1, <3>1, <3>2, <3>3, MarksStay
  <2>2. CASE req' \in Keys /\ obj' = cache'[req'] /\ marked' = obj'.deleting
    <3>1. Deleting(cache'[req'])
      BY <1>0, <1>1, <2>2 DEF Deleting, IInv, RequestInv
    <3>2. \A y \in Coming(req)' : Deleting(y)
      BY <1>1, <2>2, <3>1 DEF OrderInv
    <3>3. x = cache'[req'] \/ x \in Coming(req)'
      BY <1>1 DEF Seen, Coming
    <3> QED BY <3>1, <3>2, <3>3
  <2> QED BY <1>1, <2>1, <2>2 DEF CopyStep, CopyStays
<1>2. ASSUME NEW k \in Keys, Records(api'[k]), ~(npm'[api'[k].id] # NoHost)
      PROVE  \A x \in Seen(k)' : Deleting(x)
  <2>1. Finalized(api'[k])
    BY <1>0, <1>2 DEF RecordedHostHasFinalizer, Records, Live, Finalized
  <2>2. CASE Saves(k, api'[k])
    <3>1. api'[k].id = host /\ pc = "save" /\ host \in Ids /\ Alive(host)
      BY <1>0, <2>2, SavedRecord DEF Saves, SharedInv, HostInv, HostPCs, IInv, LocalInv
    <3> QED BY <1>0, <1>2, <3>1, HostsLast DEF Alive
  <2>3. CASE ~Saves(k, api'[k])
    <3>1. Records(api[k]) /\ api'[k].id = api[k].id /\ Finalized(api[k])
      BY <1>0, <1>2, <2>3, RecordLasts
      DEF SameRecord, RecordedHostHasFinalizer, Records, Live, Finalized
    <3>2. api[k].id \in Ids
      BY <1>0, <3>1, RecordIsCreated
    <3>3. CASE ~Alive(api[k].id)
      BY <1>0, <2>1, <3>1, <3>3, MarksStay DEF MarkedInv
    <3>4. CASE DeleteHost /\ pc = "delete" /\ marked /\ obj.id = api[k].id
      <4>1. /\ Claims(k, api[k].id, api[k].spec.doms)
            /\ Claims(req, api[k].id, obj.spec.doms) /\ req \in Keys
        BY <1>0, <3>1, <3>4, SeenTypes DEF Claims, Records
      <4>2. k = req
        BY <3>2, <4>1 DEF SharedInv, ClaimInv
      <4>3. \A x \in Seen(k) : Deleting(x)
        BY <3>1, <3>4, <4>2 DEF MarkedInv
      <4> QED BY <1>0, <2>1, <3>1, <4>3, MarksStay
    <3> QED BY <1>0, <1>2, <3>1, <3>2, <3>3, <3>4, HostsLast DEF Alive
  <2> QED BY <2>2, <2>3
<1> QED BY <1>1, <1>2 DEF MarkedInv, Records, Alive

\* The worker keeps knowing the record.
LEMMA ReadKept ==
  ASSUME Calm, SharedInv, [Next]_vars, CopyStep, ReadInv, OneRecordInv, MarkedInv',
         FInv', OneRecordInv'
  PROVE  ReadInv'
<1>0. /\ FInv /\ IInv /\ WorkerInv /\ ClusterStep /\ IInv' /\ WorkerInv'
      /\ RecordedHostHasFinalizer
  BY NextWrites DEF SharedInv, FInv
<1> SUFFICES ASSUME Engaged', ~(pc' \in {"ready", "fail"})
             PROVE  /\ SameRecord(obj', api'[req'])
                    /\ Records(api'[req']) => npm'[api'[req'].id] # NoHost
  BY DEF ReadInv, SameRecord, Records, Alive
<1>1. /\ pc' # "idle" /\ req' \in Keys /\ obj' # NoObj /\ Finalized(api'[req'])
      /\ pc' \notin {"ready", "fail", "done", "requeue"} /\ ~marked'
  BY <1>0 DEF Engaged, Working, CreatePCs, WorkerInv, IInv, RequestInv, LastWrite
<1>2. \A x \in Seen(req)' : x # NoObj => SameRecord(x, api'[req'])
  BY <1>1 DEF OneRecordInv
<1>3. pc \notin {"ready", "fail"} \/ pc' \in {"ready", "fail", "done", "requeue", "idle"}
  BY LastWrite
<1>4. ASSUME Engaged, UNCHANGED req
      PROVE  /\ SameRecord(obj, api[req]) /\ SameRecord(api'[req], api[req])
             /\ Records(api'[req]) => npm'[api'[req].id] # NoHost
  <2>1. /\ SameRecord(obj, api[req]) /\ (Records(api[req]) => Alive(api[req].id))
        /\ req \in Keys /\ Finalized(api[req]) /\ pc \notin {"removeFinalizer", "delete"}
    BY <1>0, <1>1, <1>3, <1>4
    DEF ReadInv, Engaged, Working, CreatePCs, WorkerInv, IInv, RequestInv
  <2>2. SameRecord(api'[req], api[req])
    BY <1>0, <1>1, <2>1, RecordStays DEF Saves
  <2>3. Records(api'[req]) => Records(api[req]) /\ api[req].id \in Ids
    BY <1>0, <2>1, <2>2, RecordIsCreated DEF Records, SameRecord, Finalized
  <2>4. Records(api'[req]) => npm'[api'[req].id] # NoHost
    BY <1>0, <2>1, <2>2, <2>3, HostsLast DEF Alive, SameRecord
  <2> QED BY <2>1, <2>2, <2>4
<1>5. CASE CopyStays
  BY <1>4, <1>5 DEF CopyStays, SameRecord
<1>6. ASSUME NEW x \in Seen(req), x # NoObj, Similar(x, obj'), UNCHANGED req, Working,
             pc \notin {"ready", "fail"}
      PROVE  /\ SameRecord(obj', api'[req'])
             /\ Records(api'[req']) => npm'[api'[req'].id] # NoHost
  <2>1. Engaged /\ req \in Keys /\ Finalized(api[req])
    BY <1>0, <1>6 DEF Engaged, Working, CreatePCs, WorkerInv, IInv, RequestInv
  <2>2. SameRecord(x, api[req])
    BY <1>6, <2>1 DEF OneRecordInv
  <2> QED BY <1>4, <1>6, <2>1, <2>2 DEF Similar, SameRecord
<1>7. CASE pc = "idle" /\ obj' = cache'[req'] /\ marked' = obj'.deleting
  <2>1. obj' \in Seen(req)'
    BY <1>7 DEF Seen
  <2>2. ~Deleting(obj')
    BY <1>1, <1>7 DEF Deleting
  <2> QED BY <1>1, <1>2, <2>1, <2>2 DEF MarkedInv, Alive
<1>8. CASE /\ Similar(obj, obj') /\ UNCHANGED <<req, marked>> /\ pc = "finalizer"
           /\ obj = api[req] /\ obj' = api'[req]
  <2>1. SameRecord(obj', api'[req'])
    BY <1>8 DEF SameRecord
  <2>2. Records(api'[req]) => Engaged
    BY <1>0, <1>1, <1>8
    DEF Similar, SameRecord, Records, Engaged, RecordedHostHasFinalizer, Live, IInv, RequestInv
  <2> QED BY <1>4, <1>8, <2>1, <2>2
<1>9. CASE /\ \E x \in Seen(req') : x # NoObj /\ Similar(x, obj')
           /\ UNCHANGED <<req, marked>> /\ (Working \/ marked)
           /\ pc \in {"ready", "fail"} => ~Engaged'
  BY <1>1, <1>6, <1>9
<1> QED BY <1>1, <1>5, <1>7, <1>8, <1>9 DEF CopyStep

\* The stored record stays while the worker does not save another.
LEMMA RecordPersists ==
  ASSUME FInv, ClusterStep, NEW k \in Keys, Records(api[k]),
         ~Saves(k, api'[k]), pc # "removeFinalizer" \/ Live(k)'
  PROVE  Records(api'[k]) /\ SameRecord(api'[k], api[k])
<1>1. Finalized(api[k])
  BY DEF FInv, RecordedHostHasFinalizer, Records, Live, Finalized
<1>2. Live(k)' /\ SameRecord(api'[k], api[k])
  BY <1>1, RecordStays DEF FInv
<1> QED BY <1>2 DEF Records, SameRecord, Live

\* The worker's host from one place of Reconcile to the next.
LEMMA HostStaysHeld ==
  ASSUME Calm, SharedInv, HostInv, [Next]_vars, UNCHANGED <<req, host, bound>>,
         pc # "idle", ~marked,
         pc' \in HostPCs => pc \in HostPCs /\ UNCHANGED obj,
         pc' \in {"enable", "update", "followUp", "save"} => host # NoId,
         pc' = "create" => host = NoId,
         pc \in {"followUp", "save"} => pc' \in {"followUp", "save"}
  PROVE  HostInv'
<1>0. FInv /\ IInv /\ ClusterStep /\ WorkerInv /\ req \in Keys
  BY NextWrites DEF SharedInv, FInv, IInv, RequestInv
<1>1. CASE host = NoId
  BY <1>1 DEF HostInv
<1>2. CASE host # NoId
  <2>1. host \in Ids /\ creator[host] # "none" /\ creator'[host] = creator[host]
    BY <1>0, <1>2, CreatorStays DEF IInv, LocalInv
  <2>2. pc \in HostPCs => (Alive(host) => npm'[host] # NoHost)
    BY <1>0, <2>1, HostsLast DEF HostPCs, Alive
  <2>3. ASSUME creator[host] = "operator", pc' \notin {"followUp", "save"}
        PROVE  Records(api'[req]) /\ api'[req].id = host
    <3>1. Records(api[req]) /\ api[req].id = host /\ pc \notin {"save", "removeFinalizer"}
      BY <1>0, <1>2, <2>3 DEF HostInv, WorkerInv, MarkedPCs
    <3> QED BY <1>0, <3>1, RecordPersists DEF Saves, SameRecord
  <2> QED BY <1>2, <2>1, <2>2, <2>3 DEF HostInv, Alive
<1> QED BY <1>1, <1>2

\* A worker without a record finds no recorded host by its domains.
LEMMA FoundIsFree ==
  ASSUME SharedInv, ReadInv, pc = "find", obj.id = NoId, NEW i \in MatchingHosts(obj.spec.doms),
         NEW k \in Keys, Records(api[k])
  PROVE  api[k].id # i
<1>0. /\ FInv /\ IInv /\ i \in Ids /\ Alive(i) /\ NoId \notin Ids
      /\ npm[i].doms = obj.spec.doms /\ obj.spec.doms # {}
  BY NullsAssumption, MaxHostsAssumption
  DEF SharedInv, FInv, IInv, MatchingHosts, DomainsInv, Ids
<1> SUFFICES ASSUME api[k].id = i PROVE FALSE
  OBVIOUS
<1>1. api[k] \in Seen(k)
  BY <1>0, SeenTypes
<1>2. CASE k = req
  <2>1. SameRecord(obj, api[req])
    BY <1>0 DEF ReadInv, Engaged, Working, CreatePCs, FInv, WorkerInv
  <2> QED BY <1>0, <1>2, <2>1 DEF SameRecord
<1>3. CASE k # req
  <2>1. api[k].spec.doms \cap obj.spec.doms = {}
    BY <1>1, <1>3 DEF SharedInv, FindInv
  <2>2. npm[i].doms = api[k].spec.doms
    BY <1>0, <1>1 DEF SharedInv, ClaimInv, Claims, Records
  <2> QED BY <1>0, <2>1, <2>2
<1> QED BY <1>2, <1>3

\* Such a host is an administrator's: the operator's are recorded.
LEMMA FoundIsForeign ==
  ASSUME SharedInv, ReadInv, NoOrphanHost, pc = "find", obj.id = NoId,
         NEW i \in MatchingHosts(obj.spec.doms)
  PROVE  creator[i] = "admin"
<1>0. /\ host = NoId /\ i \in Ids /\ Alive(i) /\ creator[i] \in Creators
      /\ creator[i] # "none" /\ NoId \notin Ids
  BY NullsAssumption, MaxHostsAssumption
  DEF SharedInv, FInv, IInv, PcInv, NpmInv, MatchingHosts, Ids
<1>1. ~\E k \in Keys : Live(k) /\ api[k].id = i
  BY <1>0, FoundIsFree DEF Records, Live
<1> QED BY <1>0, <1>1 DEF NoOrphanHost, Creators

\* Looking for a host.
LEMMA FindHost ==
  ASSUME Calm, SharedInv, HostInv, ReadInv, BareInv, BoundMeansAdopted, NoOrphanHost,
         FindHostByID \/ BindExisting \/ NothingToBind
  PROVE  HostInv'
<1>0. /\ FInv /\ IInv /\ host = NoId /\ req \in Keys /\ NoId \notin Ids
      /\ obj \in ProxyHost /\ pc = "find" /\ Finalized(api[req])
      /\ UNCHANGED <<api, npm, creator, obj, req>>
  BY VersionIsProxyHost, NullsAssumption, MaxHostsAssumption
  DEF SharedInv, FInv, IInv, PcInv, RequestInv, FindHostByID, BindExisting, NothingToBind,
      WorkerInv, CreatePCs, Ids, kubeVars, npmVars
<1>1. SameRecord(obj, api[req]) /\ (Records(api[req]) => Alive(api[req].id))
  BY <1>0 DEF ReadInv, Engaged, Working, CreatePCs, SharedInv, FInv, WorkerInv
<1>2. CASE FindHostByID
  <2>1. Records(api[req]) /\ api[req].id = obj.id /\ Alive(obj.id) /\ obj.id \in Ids
    BY <1>0, <1>1, <1>2 DEF FindHostByID, SameRecord, Records, Finalized, ProxyHost
  <2>2. ~Fault("npm")
    BY DEF Fault, Calm
  <2>3. host' = obj.id /\ pc' \in {"enable", "prepare"} /\ bound' = obj.bound
    BY <1>2, <2>1, <2>2 DEF FindHostByID, AfterFind
  <2>4. bound' <=> creator[obj.id] = "admin"
    BY <1>0, <1>1, <2>1, <2>3 DEF BoundMeansAdopted, Records, Live, SameRecord
  <2> QED BY <1>0, <2>1, <2>3, <2>4 DEF HostInv, HostPCs, Alive
<1>3. CASE BindExisting
  <2>1. PICK i \in MatchingHosts(obj.spec.doms) :
          host' = i /\ bound' = TRUE /\ pc' = AfterFind(i)
    BY <1>3 DEF BindExisting
  <2>2. creator[i] = "admin" /\ i \in Ids /\ Alive(i) /\ obj.id = NoId
    BY <1>0, <1>3, <2>1, FoundIsForeign DEF BindExisting, MatchingHosts
  <2> QED BY <1>0, <2>1, <2>2 DEF HostInv, HostPCs, AfterFind, Alive
<1>4. CASE NothingToBind
  <2>1. host' = NoId /\ bound' = obj.bound /\ pc' = "prepare" /\ obj.id = NoId
    BY <1>4 DEF NothingToBind
  <2>2. ~api[req].bound /\ api[req] \in ProxyHost
    BY <1>0, <1>1, <2>1, SeenTypes, VersionIsProxyHost, ClusterTypes
    DEF BareInv, SameRecord, Finalized
  <2>3. ~obj.bound
    BY <1>0, <1>1, <2>2 DEF SameRecord, ProxyHost
  <2> QED BY <1>0, <2>1, <2>3 DEF HostInv, HostPCs
<1> QED BY <1>2, <1>3, <1>4

\* The record of the host is stored before the worker lets go of it.
LEMMA SaveHost ==
  ASSUME Calm, SharedInv, HostInv, SaveStatus
  PROVE  /\ Records(api'[req]) /\ api'[req].id = host
         /\ UNCHANGED <<req, host>> /\ pc' \in {"ready", "fail"}
<1>0. FInv /\ IInv /\ LocalInv /\ pc = "save" /\ pc \in CreatePCs /\ host # NoId
  BY DEF SharedInv, FInv, IInv, SaveStatus, CreatePCs, HostInv
<1>1. /\ req \in Keys /\ cache[req] \in Versions /\ cache[req] # NoObj
      /\ cache[req] \in ProxyHost
  BY <1>0, WorkerAgrees, SeenTypes, ClusterTypes, VersionIsProxyHost DEF SharedInv
<1>2. Recorded(cache[req]).id = host
  BY <1>1 DEF Recorded, ProxyHost
<1>3. Recorded(cache[req]) \in Versions \ {NoObj}
  BY <1>0, <1>1, RecordedKeeps
<1>4. Publish(req, Recorded(cache[req]))
  BY <1>1 DEF SaveStatus, UpdateStatus, Fault, Calm
<1>5. api'[req] = Recorded(cache[req])
  BY <1>0, <1>1, <1>3, <1>4, ClusterTypes, PublishKeeps
<1> QED BY <1>0, <1>2, <1>3, <1>5 DEF SaveStatus, Records

\* Every step of the worker keeps what is known of its host.
LEMMA HostKept ==
  ASSUME Calm, SharedInv, HostInv, ReadInv, BareInv, BoundMeansAdopted, NoOrphanHost,
         [Next]_vars, SharedInv'
  PROVE  HostInv'
<1>0. FInv /\ IInv /\ WorkerInv /\ IInv' /\ WorkerInv'
  BY DEF SharedInv, FInv
<1>1. CASE pc' \in {"idle", "finalizer", "reconciling", "client", "unique", "find"} \/ marked'
  <2>1. host' = NoId
    BY <1>0, <1>1 DEF IInv, PcInv, SharedInv, CaptureInv
  <2>2. pc' \notin CreatePCs \/ pc' \in {"unique", "find"}
    BY <1>0, <1>1 DEF WorkerInv, CreatePCs
  <2> QED BY <2>1, <2>2 DEF HostInv, HostPCs, CreatePCs
<1>2. CASE FindHostByID \/ BindExisting \/ NothingToBind
  BY <1>2, FindHost
<1>3. CASE SaveStatus
  BY <1>0, <1>3, SaveHost DEF HostInv, HostPCs
<1>4. CASE CreateHost
  <2>1. PICK ok \in BOOLEAN :
          /\ CreateProxyHost(CreateInput(obj), ok)
          /\ pc' = IF ok THEN "followUp" ELSE "fail"
          /\ host' = IF ok THEN nextId ELSE NoId
    BY <1>4 DEF CreateHost
  <2>2. CASE ~ok
    BY <2>1, <2>2 DEF HostInv, HostPCs
  <2>3. CASE ok
    <3>1. /\ nextId \in Ids /\ creator' = [creator EXCEPT ![nextId] = "operator"]
          /\ npm' = [npm EXCEPT ![nextId] = [doms |-> obj.spec.doms, cfg |-> obj.spec.cfg,
                                             unscoped |-> "none", enabled |-> TRUE]]
      BY <2>1, <2>3 DEF CreateProxyHost, Post, CreateInput, Body
    <3>2. creator'[nextId] = "operator" /\ obj.id = NoId /\ ~bound /\ UNCHANGED <<obj, bound>>
      BY <1>0, <1>4, <3>1, NullsAssumption, MaxHostsAssumption
      DEF IInv, NpmInv, HostInv, HostPCs, CreateHost, Ids, LocalInv, RequestInv, Versions, ProxyHost
    <3>3. npm'[nextId] # NoHost /\ nextId # NoId
      <4>1. obj \in ProxyHost
        BY <1>0, <1>4, VersionIsProxyHost DEF CreateHost, IInv, RequestInv
      <4>2. npm'[nextId] \in Host
        BY <1>0, <3>1, <4>1, ConstantsAssumption DEF IInv, NpmInv, Host, ProxyHost, ProxyHostSpec
      <4>3. nextId # NoId
        BY <3>1, NullsAssumption, MaxHostsAssumption DEF Ids
      <4> QED BY <4>2, <4>3, NullsAssumption
    <3> QED
      BY <2>1, <2>3, <3>2, <3>3 DEF HostInv, HostPCs, Alive
  <2> QED BY <2>2, <2>3
<1>5. CASE EnableHost
  BY <1>0, <1>5, HostStaysHeld DEF EnableHost, HostPCs, WorkerInv, CreatePCs
<1>6. CASE PrepareInput
  BY <1>0, <1>6, HostStaysHeld DEF PrepareInput, HostPCs, WorkerInv, CreatePCs
<1>7. CASE UpdateHost \/ FollowUp
  BY <1>0, <1>7, HostStaysHeld DEF UpdateHost, FollowUp, HostPCs, WorkerInv, CreatePCs, HostInv
<1>8. CASE (MarkReady \/ MarkError) /\ ~marked'
  BY <1>0, <1>8, HostStaysHeld DEF MarkReady, MarkError, HostPCs
<1>9. CASE pc # "idle" /\ ~marked /\ UNCHANGED <<req, obj, localVars>>
  BY <1>9, HostStaysHeld DEF localVars, HostInv
<1>10. CASE host' = NoId /\ pc' \notin HostPCs
  BY <1>10 DEF HostInv, HostPCs
<1>11. CASE EnsureFinalizer \/ MarkReconciling \/ InitNginxPMClient \/ CheckDomains
  <2>1. host' = NoId /\ (marked' \/ pc' \notin HostPCs)
    <3>1. UNCHANGED <<host, marked>>
          /\ (marked \/ pc' \in {"reconciling", "requeue", "client", "unique", "fail", "find"})
      BY <1>11 DEF EnsureFinalizer, MarkReconciling, InitNginxPMClient, CheckDomains
    <3>2. host = NoId
      BY <1>0, <1>11 DEF EnsureFinalizer, MarkReconciling, InitNginxPMClient, CheckDomains,
                         IInv, PcInv
    <3> QED BY <3>1, <3>2 DEF HostPCs
  <2> QED BY <1>1, <1>10, <2>1
<1>12. CASE \/ RestoreHost \/ ReenableHost \/ DisableHost \/ DeleteHost \/ RefetchLatest
            \/ DropFinalizer
  <2>1. marked'
    BY <1>0, <1>12
    DEF RestoreHost, ReenableHost, DisableHost, DeleteHost, RefetchLatest, DropFinalizer,
        WorkerInv, MarkedPCs
  <2> QED BY <1>1, <2>1
<1>13. CASE Return \/ Crash \/ \E k \in Keys : Dequeue(k)
  <2>1. pc' \in {"idle", "finalizer"}
    BY <1>13 DEF Return, Crash, Reset, Dequeue
  <2> QED BY <1>1, <2>1
<1>14. CASE \/ AdminCreate \/ (\E i \in Ids : AdminRemove(i) \/ AdminDisable(i))
            \/ (\E k \in Keys : Trigger(k) \/ WatchEvent(k) \/ UserCreate(k) \/ UserEdit(k)
                                 \/ UserDelete(k))
            \/ UNCHANGED vars
  <2>1. UNCHANGED <<req, obj, localVars>>
    BY <1>14
    DEF AdminCreate, AdminRemove, AdminDisable, Trigger, WatchEvent, UserCreate, UserEdit,
        UserDelete, UserWrite, vars, helperVars, localVars
  <2> QED BY <1>1, <1>9, <2>1 DEF localVars
<1> QED
  BY <1>1, <1>2, <1>3, <1>4, <1>5, <1>6, <1>7, <1>8, <1>11, <1>12, <1>13, <1>14
  DEF Next, Reconcile, Environment

\* Bound goes into the status with the host that it is about.
LEMMA BoundKept ==
  ASSUME SharedInv, HostInv, BoundMeansAdopted, [Next]_vars
  PROVE  BoundMeansAdopted'
<1>0. FInv /\ IInv /\ ClusterStep
  BY NextWrites DEF SharedInv, FInv
<1> SUFFICES ASSUME NEW k \in Keys, Records(api'[k])
             PROVE  api'[k].bound <=> creator'[api'[k].id] = "admin"
  BY DEF BoundMeansAdopted, Live, Records
<1>1. CASE Saves(k, api'[k])
  <2>1. /\ api'[k].id = host /\ api'[k].bound = bound /\ pc = "save"
        /\ host # NoId
    BY <1>0, <1>1, SavedRecord DEF SharedInv, Records, Saves
  <2>2. host \in Ids /\ creator[host] # "none" /\ (bound <=> creator[host] = "admin")
    BY <1>0, <2>1 DEF IInv, LocalInv, HostInv, HostPCs
  <2> QED BY <1>0, <2>1, <2>2, CreatorStays
<1>2. CASE ~Saves(k, api'[k])
  <2>1. Records(api[k]) /\ SameRecord(api'[k], api[k])
    BY <1>0, <1>2, RecordLasts
  <2>2. api[k].id \in Ids /\ creator[api[k].id] # "none"
    BY <1>0, <2>1, RecordIsCreated
  <2> QED BY <1>0, <2>1, <2>2, CreatorStays DEF BoundMeansAdopted, Records, Live, SameRecord
<1> QED BY <1>1, <1>2

\* The worker holds every host that it creates: no answer of NPM is lost.
LEMMA NewHostIsHeld ==
  ASSUME Calm, IInv, [Next]_vars, NEW i \in Ids, creator[i] = "none", creator'[i] = "operator"
  PROVE  host' = i
<1>0. NpmInv
  BY DEF IInv
<1>1. ~UNCHANGED creator
  BY Zenon
<1>2. CASE CreateHost
  BY <1>0, <1>1, <1>2 DEF CreateHost, CreateProxyHost, Post, Fault, Calm, npmVars, NpmInv
<1>3. CASE AdminCreate
  BY <1>0, <1>3 DEF AdminCreate, NpmInv
<1>4. CASE RestoreHost \/ UpdateHost \/ FollowUp
  <2>1. ASSUME NEW j, NEW body, NEW ok, UpdateProxyHost(j, body, ok)
        PROVE  UNCHANGED creator
    BY <2>1 DEF UpdateProxyHost, Put, npmVars
  <2> QED BY <1>1, <1>4, <2>1 DEF RestoreHost, UpdateHost, FollowUp
<1>5. CASE ReenableHost \/ DisableHost \/ EnableHost
  <2>1. ASSUME NEW j, NEW panics, EnableProxyHost(j, panics) \/ DisableProxyHost(j, panics)
        PROVE  UNCHANGED creator
    BY <2>1 DEF EnableProxyHost, DisableProxyHost, SetEnabled, npmVars
  <2> QED BY <1>1, <1>5, <2>1 DEF ReenableHost, DisableHost, EnableHost
<1>6. CASE \/ EnsureFinalizer \/ MarkReconciling \/ InitNginxPMClient \/ RefetchLatest
           \/ DropFinalizer \/ CheckDomains \/ FindHostByID \/ BindExisting \/ NothingToBind
           \/ PrepareInput \/ SaveStatus \/ MarkReady \/ MarkError \/ Return \/ Crash
           \/ DeleteHost \/ (\E j \in Ids : AdminRemove(j) \/ AdminDisable(j))
           \/ (\E k \in Keys : Dequeue(k) \/ WatchEvent(k) \/ UserCreate(k) \/ UserEdit(k)
                                \/ UserDelete(k) \/ Trigger(k))
           \/ UNCHANGED vars
  <2>1. UNCHANGED creator
    BY <1>6
    DEF EnsureFinalizer, MarkReconciling, InitNginxPMClient, RefetchLatest, DropFinalizer,
        CheckDomains, FindHostByID, BindExisting, NothingToBind, PrepareInput, SaveStatus,
        MarkReady, MarkError, Return, Crash, DeleteHost, DeleteProxyHost, AdminRemove,
        AdminDisable, Dequeue, WatchEvent, UserCreate, UserEdit, UserDelete, UserWrite,
        Trigger, vars, npmVars
  <2> QED BY <1>1, <2>1
<1> QED BY <1>2, <1>3, <1>4, <1>5, <1>6 DEF Next, Reconcile, Environment

\* The worker lets go of a host that it may have to record only by recording it.
LEMMA HostIsKept ==
  ASSUME Calm, [Next]_vars, pc \in {"followUp", "save"}
  PROVE  UNCHANGED host \/ SaveStatus
<1>1. ~Crash
  BY DEF Crash, Fault, Calm
<1> QED
  BY <1>1
  DEF Next, Reconcile, Environment, EnsureFinalizer, MarkReconciling, InitNginxPMClient,
      RestoreHost, ReenableHost, DisableHost, DeleteHost, RefetchLatest, DropFinalizer,
      CheckDomains, FindHostByID, BindExisting, NothingToBind, EnableHost, PrepareInput,
      UpdateHost, CreateHost, FollowUp, MarkReady, MarkError, Return, UserCreate, UserEdit,
      UserDelete, UserWrite, Trigger, AdminCreate, AdminRemove, AdminDisable, Dequeue,
      WatchEvent, vars, localVars

\* A recorded host stays recorded until the finalizer is done.
LEMMA RecordEnds ==
  ASSUME SharedInv, HostInv, ReadInv, [Next]_vars, NEW k \in Keys, Records(api[k])
  PROVE  \/ Records(api'[k]) /\ api'[k].id = api[k].id
         \/ k = req /\ pc = "removeFinalizer" /\ ~Live(k)'
<1>0. FInv /\ IInv /\ ClusterStep
  BY NextWrites DEF SharedInv, FInv
<1>1. CASE Saves(k, api'[k])
  <2>1. Engaged /\ pc = "save" /\ k = req
    BY <1>0, <1>1 DEF Saves, Engaged, Working, CreatePCs, FInv, WorkerInv
  <2>2. obj.id = api[k].id /\ host = obj.id
    BY <2>1 DEF ReadInv, SameRecord, HostInv, HostPCs, Records
  <2>3. api'[k].id = host
    BY <1>0, <1>1, SavedRecord DEF SharedInv
  <2>4. api'[k] # NoObj
    <3>1. api[k] \in Versions /\ LocalInv
      BY <1>0, ClusterTypes DEF IInv
    <3> QED BY <1>1, <3>1, RecordedKeeps DEF Saves, Records
  <2> QED BY <2>2, <2>3, <2>4 DEF Records
<1>2. CASE ~Saves(k, api'[k]) /\ (pc # "removeFinalizer" \/ Live(k)')
  BY <1>0, <1>2, RecordPersists DEF SameRecord
<1>3. CASE pc = "removeFinalizer" /\ ~Live(k)'
  BY <1>0, <1>3, OnlyFinalizerRemoves DEF Records, Live
<1> QED BY <1>1, <1>2, <1>3

\* A host that the operator created stays recorded while it is there.
LEMMA RecordedHostStays ==
  ASSUME SharedInv, OwnInv, HostInv, ReadInv, BoundMeansAdopted, [Next]_vars,
         NEW k \in Keys, Records(api[k]), creator[api[k].id] = "operator", Alive(api[k].id)
  PROVE  Records(api'[k]) /\ api'[k].id = api[k].id
<1>1. ~api[k].bound
  BY DEF BoundMeansAdopted, Records, Live
<1>2. ~(k = req /\ pc = "removeFinalizer")
  BY <1>1 DEF OwnInv, RemovalInv
<1> QED BY <1>2, RecordEnds

\* The operator loses none of the hosts that it creates.
LEMMA OrphanKept ==
  ASSUME Calm, SharedInv, OwnInv, HostInv, ReadInv, BoundMeansAdopted, NoOrphanHost, [Next]_vars
  PROVE  NoOrphanHost'
<1>0. FInv /\ IInv /\ req \in Keys \cup {NoKey} /\ (pc # "idle" => req \in Keys)
      /\ NoId \notin Ids
  BY NullsAssumption, MaxHostsAssumption DEF SharedInv, FInv, IInv, RequestInv, Ids
<1> SUFFICES ASSUME NEW i \in Ids, creator'[i] = "operator", npm'[i] # NoHost, host' # i
             PROVE  \E k \in Keys : Records(api'[k]) /\ api'[k].id = i
  BY DEF NoOrphanHost, Live, Records, Alive
<1>1. creator[i] # "none"
  BY <1>0, NewHostIsHeld
<1>2. creator[i] = "operator" /\ Alive(i)
  BY <1>0, <1>1, CreatorStays, DeadStays DEF Alive
<1>3. ASSUME NEW k \in Keys, Live(k), api[k].id = i
      PROVE  Records(api'[k]) /\ api'[k].id = i
  BY <1>0, <1>2, <1>3, RecordedHostStays DEF Records, Live
<1>4. CASE host = i /\ pc \in {"followUp", "save"}
  BY <1>0, <1>4, HostIsKept, SaveHost
<1>5. CASE host = i /\ pc \notin {"followUp", "save"}
  <2>1. Records(api[req]) /\ api[req].id = i
    BY <1>0, <1>2, <1>5 DEF HostInv
  <2>2. req \in Keys
    BY <1>0, <1>5 DEF IInv, PcInv
  <2> QED BY <1>3, <2>1, <2>2 DEF Records, Live
<1> QED BY <1>2, <1>3, <1>4, <1>5 DEF NoOrphanHost

\* At first the worker is idle, and a legacy resource is bound to an
\* administrator's host that is there.
LEMMA InitAdoptInv ==
  ASSUME Init, \A s \in Specs : s.doms # {}
  PROVE  AdoptInv
<1>1. SharedInv /\ OwnInv /\ FInv /\ IInv
  BY InitSharedInv, InitOwnInv DEF SharedInv, FInv
<1>0. 1 \in Ids /\ Ids \subseteq Nat
  BY MaxHostsAssumption DEF Ids
<1>2. pc = "idle" /\ host = NoId /\ watch = [k \in Keys |-> << >>] /\ NoId \notin Ids
  <2>1. pc = "idle" /\ host = NoId /\ watch = [k \in Keys |-> << >>]
    BY DEF Init, InitCluster
  <2> QED BY <1>0, <2>1, NullsAssumption
<1>3. \A k \in Keys : Seen(k) = {api[k]} /\ Coming(k) = {} /\ Len(watch[k]) = 0
  BY <1>1, <1>2, SeenTypes DEF Fresh
<1>4. KeptInv /\ OrderInv
  BY <1>3 DEF KeptInv, OrderInv
<1>5. ReadInv /\ HostInv
  BY <1>2 DEF ReadInv, Engaged, Working, CreatePCs, HostInv, HostPCs
<1>6. /\ \A k \in Keys : Live(k) => api[k].id = 1 /\ api[k].bound /\ creator[1] = "admin" /\ Alive(1)
      /\ \A i \in Ids : creator[i] # "operator"
  <2>1. CASE LegacyKey = NoKey
    BY <2>1 DEF Init, InitCluster, Live
  <2>2. CASE LegacyKey # NoKey
    <3>1. PICK s \in Specs, h \in ForeignHosts :
            /\ api = [k \in Keys |-> IF k = LegacyKey THEN LegacyObject(s) ELSE NoObj]
            /\ npm = [i \in Ids |-> IF i = 1 THEN [h EXCEPT !.doms = s.doms, !.cfg = s.cfg]
                                    ELSE NoHost]
            /\ creator = [i \in Ids |-> IF i = 1 THEN "admin" ELSE "none"]
      BY <2>2 DEF Init, InitCluster
    <3>2. npm[1] \in Host
      <4>1. h \in Host /\ s \in ProxyHostSpec /\ npm[1] = [h EXCEPT !.doms = s.doms, !.cfg = s.cfg]
        BY <1>0, <3>1, ConstantsAssumption
      <4> QED BY <4>1 DEF Host, ProxyHostSpec
    <3> QED BY <1>0, <3>1, <3>2, NullsAssumption DEF Live, Alive, LegacyObject
  <2> QED BY <2>1, <2>2
<1>7. BareInv /\ MarkedInv
  BY <1>0, <1>2, <1>3, <1>6 DEF BareInv, MarkedInv, Records, Live
<1>8. BoundMeansAdopted /\ NoOrphanHost
  BY <1>6 DEF BoundMeansAdopted, NoOrphanHost
<1> QED BY <1>1, <1>4, <1>5, <1>7, <1>8 DEF AdoptInv

\* Every step keeps the invariant.
LEMMA NextAdoptInv ==
  ASSUME Calm, \A s \in Specs : s.doms # {}
  PROVE  AdoptInv /\ [Next]_vars => AdoptInv'
<1>1. AdoptInv /\ [Next]_vars => SharedInv' /\ OwnInv' /\ KeptInv' /\ BareInv' /\ OrderInv'
  <2> SUFFICES ASSUME AdoptInv, [Next]_vars
               PROVE  SharedInv' /\ OwnInv' /\ KeptInv' /\ BareInv' /\ OrderInv'
    OBVIOUS
  <2>1. SharedInv' /\ OwnInv'
    BY NextSharedInv, NextOwnInv DEF AdoptInv, Calm
  <2>2. ClusterStep /\ FInv /\ SameInv
    BY NextWrites DEF AdoptInv, SharedInv, FInv
  <2> QED BY <2>1, <2>2, KeptKept, BareKept, OrderKept DEF AdoptInv
<1>2. (OwnInv /\ KeptInv /\ BareInv => OneRecordInv)'
  <2>1. OwnInv /\ KeptInv /\ BareInv => OneRecordInv
    BY OneRecord DEF OwnInv, FInv
  <2> QED BY <2>1, PTL
<1>3. AdoptInv => OneRecordInv
  BY OneRecord DEF AdoptInv, OwnInv, FInv
<1> SUFFICES ASSUME AdoptInv, [Next]_vars
             PROVE  AdoptInv'
  OBVIOUS
<1>4. SharedInv' /\ OwnInv' /\ KeptInv' /\ BareInv' /\ OrderInv' /\ FInv' /\ OneRecordInv'
  BY <1>1, <1>2 DEF SharedInv
<1>5. CopyStep
  BY NextCopy DEF AdoptInv
<1>6. MarkedInv'
  BY <1>4, <1>5, MarkedKept DEF AdoptInv
<1>7. ReadInv'
  BY <1>3, <1>4, <1>5, <1>6, ReadKept DEF AdoptInv
<1>8. HostInv'
  BY <1>4, HostKept DEF AdoptInv
<1>9. BoundMeansAdopted' /\ NoOrphanHost'
  BY BoundKept, OrphanKept DEF AdoptInv
<1> QED BY <1>4, <1>6, <1>7, <1>8, <1>9 DEF AdoptInv

\* Every host that the operator creates is recorded in a resource, or the
\* worker is about to record it, as long as the process lives, NPM answers and
\* users edit no resource.  Reconcile itself gives a host up otherwise: it dies
\* between the creation and the status write, or its answer is lost, and the
\* next reconciliation finds the host by its domains and takes it for somebody
\* else's; it has no client, or no answer of NPM to the deletion, and drops the
\* finalizer all the same; or it reads a version without the record.
THEOREM NoHostIsLost ==
  ASSUME Calm, \A s \in Specs : s.doms # {}
  PROVE  Spec => []NoOrphanHost
<1>1. Init => AdoptInv
  BY InitAdoptInv
<1>2. AdoptInv /\ [Next]_vars => AdoptInv'
  BY NextAdoptInv
<1>3. AdoptInv => NoOrphanHost
  BY DEF AdoptInv
<1> QED BY <1>1, <1>2, <1>3, PTL DEF Spec

\* Under the same conditions Bound says of every recorded host whether an
\* administrator created it, so that the finalizer gives back what was there
\* before and deletes what was not.  Besides the faults above, a user who edits
\* the domains can mislead it (the search then adopts a host of the operator's),
\* and so can an administrator who removes a bound host (Reconcile creates a
\* new one under the old Bound).
THEOREM BoundIsTrue ==
  ASSUME Calm, \A s \in Specs : s.doms # {}
  PROVE  Spec => []BoundMeansAdopted
<1>1. Init => AdoptInv
  BY InitAdoptInv
<1>2. AdoptInv /\ [Next]_vars => AdoptInv'
  BY NextAdoptInv
<1>3. AdoptInv => BoundMeansAdopted
  BY DEF AdoptInv
<1> QED BY <1>1, <1>2, <1>3, PTL DEF Spec
-----------------------------------------------------------------------------
(* What was adopted is given back.                                          *)

\* Nothing disturbs a host between its look-up and its first update.
Steady == "prepare" \notin Faults /\ "adminDisable" \notin UserOps

SameForward(g, h) == g.doms = h.doms /\ g.cfg = h.cfg

\* Two configurations agree, in the switch only if nothing disturbs it.
Agree(g, h) == SameForward(g, h) /\ (Steady => g.enabled = h.enabled)

Foreign(i) == creator[i] = "admin"

\* Host i as it was before the operator wrote it.
Original(i) == IF orig[i] = NoHost THEN npm[i] ELSE orig[i]

\* A resource records host i, or the worker will see to it.
Held(i) ==
  \/ \E k \in Keys : Records(api[k]) /\ api[k].id = i
  \/ host = i /\ pc \in {"prepare", "update", "followUp", "save"}

\* No two hosts serve the same domain, if NPM sees to it.
DisjointInv ==
  RejectDuplicates =>
    \A i, j \in Ids : i # j /\ Alive(i) /\ Alive(j) => npm[i].doms \cap npm[j].doms = {}

\* Hosts of administrators stay; those that nobody holds are as they were.
OriginInv ==
  /\ \A i \in Ids : creator[i] = "none" => orig[i] = NoHost
  /\ \A i \in Ids : Foreign(i) => Alive(i)
  /\ \A i \in Ids : Foreign(i) => Held(i) \/ orig[i] = NoHost \/ Agree(orig[i], npm[i])
  /\ pc \in {"enable", "prepare", "update"} /\ host # NoId /\ Foreign(host) =>
       \/ Records(api[req])
       \/ orig[host] = NoHost
       \/ SameForward(orig[host], npm[host])

\* What is captured or recorded is the original.
InitialInv ==
  /\ \A k \in Keys : Records(api[k]) /\ api[k].init # NoInit /\ Foreign(api[k].id) =>
       Agree(api[k].init, Original(api[k].id))
  /\ pc \in HostPCs /\ host # NoId /\ captured # NoInit /\ Foreign(host) =>
       Agree(captured, Original(host))

\* The finalizer of x leaves its host as it is.
Settled(x) ==
  /\ x.init # NoInit => x.init.cfg = npm[x.id].cfg
                        /\ (Steady /\ x.init.enabled => npm[x.id].enabled)
  /\ x.init = NoInit /\ Steady => ~npm[x.id].enabled

\* What the choice of the finalizer says of the worker's copy.
BranchInv ==
  /\ pc = "reenable" => obj.id # NoId /\ obj.init # NoInit /\ obj.init.enabled
  /\ pc = "disable" => obj.id # NoId /\ obj.init = NoInit

\* It does so once it has done its work, and for a resource that is gone but
\* for the cache.
SettledInv ==
  /\ \A k \in Keys : ~Records(api[k]) =>
       \A x \in Seen(k) : Records(x) /\ Foreign(x.id) => Settled(x)
  /\ /\ marked /\ pc \in (MarkedPCs \ {"refetch", "removeFinalizer"})
                           \cup {"finalizer", "reconciling", "client"}
     /\ ~Records(api[req]) /\ Records(obj) /\ Foreign(obj.id)
     => Settled(obj)
  /\ pc = "reenable" /\ Foreign(obj.id) => obj.init.cfg = npm[obj.id].cfg
  /\ pc \in {"refetch", "removeFinalizer"} /\ Records(api[req]) /\ Foreign(api[req].id) =>
       Settled(api[req])

RestoreInv == AdoptInv /\ DisjointInv /\ OriginInv /\ InitialInv /\ BranchInv /\ SettledInv

\* The operator writes host i, which keeps its domains.
Touched(i) == orig'[i] = Original(i) /\ npm'[i].doms = npm[i].doms

\* The worker writes its host i...
Updates(i) ==
  /\ Touched(i) /\ host = i /\ ~marked
  /\ \/ pc = "enable" /\ pc' = "prepare" /\ npm'[i].cfg = npm[i].cfg
     \/ pc \in {"update", "followUp"} /\ pc' = "save"

\* ...or the host i of the resource that it finalizes.
Undoes(i) ==
  /\ Touched(i) /\ obj.id = i /\ marked
  /\ \/ /\ pc = "restore" /\ npm'[i].cfg = obj.init.cfg /\ npm'[i].enabled = npm[i].enabled
     \/ /\ pc = "reenable" /\ npm'[i].cfg = npm[i].cfg /\ npm'[i].enabled = TRUE
     \/ /\ pc = "disable" /\ npm'[i].cfg = npm[i].cfg /\ npm'[i].enabled = FALSE

\* What a step may do to an administrator's host.
HostStep(i) ==
  \/ npm'[i] = npm[i] /\ orig'[i] = orig[i]
  \/ /\ ~Steady /\ SameForward(npm'[i], npm[i]) /\ orig'[i] = orig[i]
     /\ UNCHANGED <<api, req, obj, localVars>>
  \/ (Updates(i) \/ Undoes(i)) /\ UNCHANGED <<api, cache, watch, req, obj, host, marked>>
  \/ /\ pc = "removeFinalizer" /\ Records(api[req]) /\ api'[req] = NoObj /\ api[req].id = i
     /\ npm'[i] = npm[i] /\ orig'[i] = NoHost

\* A PUT, as one host sees it.
LEMMA PutHost ==
  ASSUME NpmInv, NEW i \in Ids, NEW j, NEW body, Put(j, body)
  PROVE  /\ i # j => npm'[i] = npm[i] /\ orig'[i] = orig[i]
         /\ i = j /\ Alive(i) => /\ orig'[i] = Original(i)
                                 /\ npm'[i].doms = body.doms /\ npm'[i].cfg = body.cfg
                                 /\ npm'[i].enabled = npm[i].enabled
<1>1. CASE i # j
  BY <1>1 DEF NpmInv, Put, Touch
<1>2. CASE i = j /\ Alive(i)
  <2>1. npm[i] \in Host
    BY <1>2 DEF NpmInv, Alive
  <2>2. npm'[i] = [npm[i] EXCEPT !.doms = body.doms, !.cfg = body.cfg, !.unscoped = body.unscoped]
    BY <1>2 DEF NpmInv, Put
  <2>3. npm'[i].doms = body.doms /\ npm'[i].cfg = body.cfg /\ npm'[i].enabled = npm[i].enabled
    BY <2>1, <2>2 DEF Host
  <2>4. orig'[i] = Original(i)
    BY <1>2 DEF NpmInv, Put, Touch, Original
  <2> QED BY <1>2, <2>3, <2>4
<1> QED BY <1>1, <1>2

\* Switching a host on or off, as one host sees it.
LEMMA SwitchHost ==
  ASSUME NpmInv, NEW i \in Ids, NEW j, NEW b, SetEnabled(j, b)
  PROVE  /\ i # j => npm'[i] = npm[i] /\ orig'[i] = orig[i]
         /\ i = j /\ Alive(i) =>
              /\ npm'[i].doms = npm[i].doms /\ npm'[i].cfg = npm[i].cfg /\ npm'[i].enabled = b
              /\ orig'[i] = Original(i) \/ (npm'[i] = npm[i] /\ orig'[i] = orig[i])
<1>1. CASE UNCHANGED npmVars
  <2>1. CASE npm[j].enabled = b
    BY <1>1, <2>1 DEF npmVars
  <2>2. CASE npm[j].enabled # b /\ i = j /\ Alive(i)
    <3>1. npm[i] \in Host /\ npm' = [npm EXCEPT ![i].enabled = b] /\ npm' = npm
      BY <1>1, <2>2 DEF NpmInv, Alive, SetEnabled, npmVars
    <3>2. npm[i].enabled = b
      BY <3>1 DEF NpmInv, Host
    <3> QED BY <2>2, <3>2
  <2> QED BY <1>1, <2>1, <2>2 DEF npmVars
<1>2. CASE ~UNCHANGED npmVars
  <2>1. npm' = [npm EXCEPT ![j].enabled = b] /\ Touch(j)
    BY <1>2 DEF SetEnabled
  <2>2. CASE i # j
    BY <2>1, <2>2 DEF NpmInv, Touch
  <2>3. CASE i = j /\ Alive(i)
    <3>1. npm[i] \in Host
      BY <2>3 DEF NpmInv, Alive
    <3>2. npm'[i] = [npm[i] EXCEPT !.enabled = b] /\ orig'[i] = Original(i)
      BY <2>1, <2>3 DEF NpmInv, Touch, Original
    <3> QED BY <2>3, <3>1, <3>2 DEF Host
  <2> QED BY <2>2, <2>3
<1> QED BY <1>1, <1>2

\* NPM accepts an update that leaves the domains alone.
LEMMA PutWorks ==
  ASSUME Calm, DisjointInv, NEW i \in Ids, Alive(i), NEW body, body.doms = npm[i].doms,
         NEW ok \in BOOLEAN, UpdateProxyHost(i, body, ok)
  PROVE  ok /\ Put(i, body)
<1>1. ~Taken(body.doms, i)
  BY DEF Taken, DisjointInv
<1> QED BY <1>1 DEF UpdateProxyHost, Fault, Calm

\* A host that is there is switched.
LEMMA SwitchWorks ==
  ASSUME Calm, NEW i, Alive(i), NEW panics \in BOOLEAN
  PROVE  /\ EnableProxyHost(i, panics) => ~panics /\ SetEnabled(i, TRUE)
         /\ DisableProxyHost(i, panics) => ~panics /\ SetEnabled(i, FALSE)
BY DEF EnableProxyHost, DisableProxyHost, Fault, Calm

\* An administrator's host is not deleted by the operator, nor by anybody else.
LEMMA ForeignStays ==
  ASSUME Calm, IInv, WorkerInv, [Next]_vars, NEW i \in Ids, Foreign(i), Alive(i)
  PROVE  npm'[i] # NoHost /\ creator'[i] = creator[i]
<1>1. ~(DeleteHost /\ pc = "delete" /\ marked /\ obj.id = i)
  BY VersionIsProxyHost DEF IInv, PcInv, RequestInv, Truthful, Foreign, ProxyHost, Ids
<1> QED BY <1>1, HostsLast, CreatorStays DEF Alive, Foreign

\* The worker updates its host.
LEMMA UpdateSteps ==
  ASSUME Calm, SharedInv, DisjointInv, HostInv, NEW i \in Ids, Foreign(i), Alive(i),
         EnableHost \/ UpdateHost \/ FollowUp
  PROVE  HostStep(i) /\ pc' # "fail" /\ pc' # "requeue"
<1>0. /\ IInv /\ NpmInv /\ WorkerInv /\ pc # "idle" /\ ~marked
      /\ host \in Ids /\ Alive(host) /\ npm[host].doms = obj.spec.doms
  <2>1. IInv /\ NpmInv /\ WorkerInv /\ pc \in {"enable", "update", "followUp"}
    BY DEF SharedInv, FInv, IInv, EnableHost, UpdateHost, FollowUp
  <2>2. host \in Ids /\ Alive(host) /\ ~marked
    BY <2>1 DEF HostInv, HostPCs, IInv, LocalInv, WorkerInv, CreatePCs
  <2> QED BY <2>1, <2>2, HostAgrees
<1>1. CASE EnableHost
  <2>1. PICK panics \in BOOLEAN :
          /\ EnableProxyHost(host, panics) /\ pc = "enable"
          /\ pc' = IF panics THEN "requeue" ELSE "prepare"
    BY <1>1 DEF EnableHost
  <2>2. ~panics /\ SetEnabled(host, TRUE)
    BY <1>0, <2>1, SwitchWorks
  <2>3. UNCHANGED <<api, cache, watch, req, obj, host, marked>>
    BY <1>1 DEF EnableHost, kubeVars
  <2> QED BY <1>0, <2>1, <2>2, <2>3, SwitchHost DEF HostStep, Updates, Touched
<1>2. CASE UpdateHost \/ FollowUp
  <2>1. PICK ok \in BOOLEAN :
          \E body \in {UpdateInput(obj, host), CreateInput(obj)} :
            UpdateProxyHost(host, body, ok) /\ (UpdateHost => pc' = IF ok THEN "save" ELSE "fail")
    BY <1>2 DEF UpdateHost, FollowUp
  <2>2. PICK body : /\ body.doms = obj.spec.doms /\ UpdateProxyHost(host, body, ok)
                    /\ UpdateHost => pc' = IF ok THEN "save" ELSE "fail"
    BY <2>1 DEF UpdateInput, CreateInput, Body
  <2>3. ok /\ Put(host, body)
    BY <1>0, <2>2, PutWorks
  <2>4. /\ UNCHANGED <<api, cache, watch, req, obj, host, marked>>
        /\ pc \in {"update", "followUp"} /\ pc' = "save"
    BY <1>2, <2>2, <2>3 DEF UpdateHost, FollowUp, kubeVars
  <2> QED BY <1>0, <2>2, <2>3, <2>4, PutHost DEF HostStep, Updates, Touched
<1> QED BY <1>1, <1>2

\* The finalizer writes the host of its copy, as the initial configuration says.
LEMMA UndoSteps ==
  ASSUME Calm, SharedInv, DisjointInv, NEW i \in Ids, Alive(i),
         RestoreHost \/ ReenableHost \/ DisableHost
  PROVE  /\ i # obj.id => npm'[i] = npm[i] /\ orig'[i] = orig[i]
         /\ i = obj.id =>
              /\ Undoes(i) \/ (npm'[i] = npm[i] /\ orig'[i] = orig[i])
              /\ npm'[i].doms = npm[i].doms
              /\ RestoreHost => /\ npm'[i].cfg = obj.init.cfg /\ npm'[i].enabled = npm[i].enabled
                                /\ pc' = IF obj.init.enabled THEN "reenable" ELSE "refetch"
              /\ ReenableHost => npm'[i].cfg = npm[i].cfg /\ npm'[i].enabled = TRUE /\ pc' = "refetch"
              /\ DisableHost => npm'[i].cfg = npm[i].cfg /\ npm'[i].enabled = FALSE /\ pc' = "refetch"
<1>0. NpmInv /\ WorkerInv /\ CaptureInv /\ PcInv /\ pc \in MarkedPCs /\ pc # "idle"
  BY DEF SharedInv, FInv, IInv, RestoreHost, ReenableHost, DisableHost, MarkedPCs
<1>1. marked /\ (i = obj.id => npm[i].doms = obj.spec.doms)
  BY <1>0, HostAgrees DEF WorkerInv
<1>2. CASE RestoreHost
  <2>1. PICK ok \in BOOLEAN :
          UpdateProxyHost(obj.id, BuildRestorationInput(obj.init, obj.id), ok)
    BY <1>2 DEF RestoreHost
  <2>2. /\ pc = "restore" /\ obj.init # NoInit
        /\ pc' = IF obj.init.enabled THEN "reenable" ELSE "refetch"
    BY <1>0, <1>2 DEF RestoreHost, PcInv
  <2>3. /\ BuildRestorationInput(obj.init, obj.id).doms = obj.spec.doms
        /\ BuildRestorationInput(obj.init, obj.id).cfg = obj.init.cfg
    BY <1>0, <2>2 DEF CaptureInv, BuildRestorationInput, Body
  <2>4. CASE i # obj.id
    BY <1>0, <2>1, <2>4, PutHost DEF UpdateProxyHost, npmVars
  <2>5. CASE i = obj.id
    <3>1. Put(i, BuildRestorationInput(obj.init, obj.id))
      BY <1>1, <2>1, <2>3, <2>5, PutWorks
    <3>2. /\ Touched(i) /\ npm'[i].cfg = obj.init.cfg /\ npm'[i].enabled = npm[i].enabled
          /\ npm'[i].doms = npm[i].doms
      BY <1>0, <1>1, <2>3, <2>5, <3>1, PutHost DEF Touched
    <3>3. ~ReenableHost /\ ~DisableHost
      BY <2>2 DEF ReenableHost, DisableHost
    <3> QED BY <1>1, <1>2, <2>2, <2>5, <3>2, <3>3 DEF Undoes
  <2> QED BY <2>4, <2>5
<1>3. CASE ReenableHost \/ DisableHost
  <2>1. PICK panics \in BOOLEAN :
          /\ ReenableHost => EnableProxyHost(obj.id, panics)
          /\ DisableHost => DisableProxyHost(obj.id, panics)
          /\ pc' = IF panics THEN "requeue" ELSE "refetch"
    BY <1>3 DEF ReenableHost, DisableHost
  <2>2. /\ ReenableHost => pc = "reenable"
        /\ DisableHost => pc = "disable"
        /\ ~RestoreHost
    BY <1>3 DEF ReenableHost, DisableHost, RestoreHost
  <2>3. CASE i # obj.id
    <3>1. UNCHANGED npmVars \/ \E b \in BOOLEAN : SetEnabled(obj.id, b)
      BY <1>3, <2>1 DEF EnableProxyHost, DisableProxyHost
    <3> QED BY <1>0, <2>3, <3>1, SwitchHost DEF npmVars
  <2>4. CASE i = obj.id
    <3>1. /\ ReenableHost => SetEnabled(i, TRUE)
          /\ DisableHost => SetEnabled(i, FALSE)
          /\ pc' = "refetch"
      BY <1>3, <2>1, <2>4, SwitchWorks
    <3>2. CASE ReenableHost
      <4>1. /\ npm'[i].doms = npm[i].doms /\ npm'[i].cfg = npm[i].cfg /\ npm'[i].enabled = TRUE
            /\ orig'[i] = Original(i) \/ (npm'[i] = npm[i] /\ orig'[i] = orig[i])
        BY <1>0, <3>1, <3>2, SwitchHost
      <4> QED BY <1>1, <2>2, <2>4, <3>1, <3>2, <4>1 DEF Undoes, Touched, DisableHost
    <3>3. CASE DisableHost
      <4>1. /\ npm'[i].doms = npm[i].doms /\ npm'[i].cfg = npm[i].cfg /\ npm'[i].enabled = FALSE
            /\ orig'[i] = Original(i) \/ (npm'[i] = npm[i] /\ orig'[i] = orig[i])
        BY <1>0, <3>1, <3>3, SwitchHost
      <4> QED BY <1>1, <2>2, <2>4, <3>1, <3>3, <4>1 DEF Undoes, Touched, ReenableHost
    <3> QED BY <1>3, <3>2, <3>3
  <2> QED BY <2>3, <2>4
<1> QED BY <1>2, <1>3

\* What any step does to an administrator's host.
LEMMA HostSteps ==
  ASSUME Calm, SharedInv, DisjointInv, HostInv, [Next]_vars, NEW i \in Ids, Foreign(i), Alive(i)
  PROVE  HostStep(i)
<1>0. IInv /\ NpmInv /\ WorkerInv /\ PcInv /\ i # nextId
  BY DEF SharedInv, FInv, IInv, NpmInv, Foreign, Ids
<1>1. CASE npm'[i] = npm[i] /\ orig'[i] = orig[i]
  BY <1>1 DEF HostStep
<1>2. CASE EnableHost \/ UpdateHost \/ FollowUp
  BY <1>2, UpdateSteps
<1>3. CASE RestoreHost \/ ReenableHost \/ DisableHost
  <2>1. UNCHANGED <<api, cache, watch, req, obj, host, marked>>
    BY <1>3 DEF RestoreHost, ReenableHost, DisableHost, kubeVars
  <2> QED BY <1>1, <1>3, <2>1, UndoSteps DEF HostStep
<1>4. CASE DeleteHost
  <2>1. obj.id # i
    BY <1>0, <1>4, VersionIsProxyHost
    DEF DeleteHost, IInv, PcInv, RequestInv, Truthful, Foreign, ProxyHost, Ids
  <2>2. npm'[i] = npm[i] /\ orig'[i] = orig[i]
    BY <1>0, <1>4, <2>1 DEF DeleteHost, DeleteProxyHost, npmVars, NpmInv
  <2> QED BY <1>1, <2>2
<1>5. CASE CreateHost \/ AdminCreate
  <2>1. npm'[i] = npm[i] /\ orig'[i] = orig[i]
    BY <1>0, <1>5 DEF CreateHost, CreateProxyHost, Post, AdminCreate, npmVars, NpmInv
  <2> QED BY <1>1, <2>1
<1>6. ASSUME NEW j \in Ids, AdminRemove(j) \/ AdminDisable(j)
      PROVE  HostStep(i)
  <2>1. ~AdminRemove(j)
    BY DEF AdminRemove, Op, Calm
  <2>2. /\ npm[j] \in Host /\ npm' = [npm EXCEPT ![j].enabled = FALSE] /\ ~Steady
        /\ UNCHANGED <<orig, api, req, obj, localVars>>
    BY <1>0, <1>6, <2>1 DEF AdminDisable, Op, Steady, NpmInv, Alive, kubeVars, helperVars
  <2>3. SameForward(npm'[i], npm[i])
    BY <1>0, <2>2 DEF SameForward, NpmInv, Host
  <2> QED BY <2>2, <2>3 DEF HostStep
<1>7. CASE DropFinalizer
  <2>1. /\ pc = "removeFinalizer" /\ UNCHANGED npm
        /\ orig' = IF api[req] # NoObj /\ api'[req] = NoObj /\ api[req].id # NoId
                   THEN [orig EXCEPT ![api[req].id] = NoHost] ELSE orig
    BY <1>7 DEF DropFinalizer
  <2>2. CASE api[req] # NoObj /\ api'[req] = NoObj /\ api[req].id = i
    <3>1. i # NoId
      BY NullsAssumption, MaxHostsAssumption DEF Ids
    <3> QED BY <1>0, <2>1, <2>2, <3>1 DEF HostStep, Records, NpmInv
  <2>3. CASE ~(api[req] # NoObj /\ api'[req] = NoObj /\ api[req].id = i)
    BY <1>0, <1>1, <2>1, <2>3 DEF NpmInv
  <2> QED BY <2>2, <2>3
<1>8. CASE \/ EnsureFinalizer \/ MarkReconciling \/ InitNginxPMClient \/ RefetchLatest
           \/ CheckDomains \/ FindHostByID \/ BindExisting \/ NothingToBind
           \/ PrepareInput \/ SaveStatus \/ MarkReady \/ MarkError \/ Return \/ Crash
           \/ (\E k \in Keys : Dequeue(k) \/ WatchEvent(k) \/ UserCreate(k) \/ UserEdit(k)
                                \/ UserDelete(k) \/ Trigger(k))
           \/ UNCHANGED vars
  <2>1. UNCHANGED npmVars
    BY <1>8
    DEF EnsureFinalizer, MarkReconciling, InitNginxPMClient, RefetchLatest,
        CheckDomains, FindHostByID, BindExisting, NothingToBind, PrepareInput, SaveStatus,
        MarkReady, MarkError, Return, Crash, Dequeue, WatchEvent, UserCreate, UserEdit,
        UserDelete, UserWrite, Trigger, vars
  <2> QED BY <1>1, <2>1 DEF npmVars
<1> QED BY <1>2, <1>3, <1>4, <1>5, <1>6, <1>7, <1>8 DEF Next, Reconcile, Environment

\* An id that was not handed out stays so, unless a host is created.
LEMMA UnusedStays ==
  ASSUME IInv, [Next]_vars, ~CreateHost, ~AdminCreate, NEW i \in Ids, creator[i] = "none"
  PROVE  npm'[i] = npm[i] /\ orig'[i] = orig[i] /\ creator'[i] = creator[i]
<1>0. NpmInv /\ ~Alive(i)
  BY DEF IInv, NpmInv
<1>1. CASE UNCHANGED npmVars
  BY <1>1 DEF npmVars
<1>2. ASSUME NEW j, Alive(j), NEW h, npm' = [npm EXCEPT ![j] = h], Touch(j) \/ UNCHANGED orig,
             UNCHANGED creator
      PROVE  npm'[i] = npm[i] /\ orig'[i] = orig[i] /\ creator'[i] = creator[i]
  BY <1>0, <1>2 DEF NpmInv, Touch
<1>3. CASE RestoreHost \/ UpdateHost \/ FollowUp
  <2>1. ASSUME NEW j, NEW body, NEW ok, UpdateProxyHost(j, body, ok)
        PROVE  UNCHANGED npmVars \/ (Alive(j) /\ Put(j, body))
    BY <2>1 DEF UpdateProxyHost
  <2> QED BY <1>1, <1>2, <1>3, <2>1 DEF RestoreHost, UpdateHost, FollowUp, Put
<1>4. CASE ReenableHost \/ DisableHost \/ EnableHost
  <2>1. ASSUME NEW j, NEW panics, EnableProxyHost(j, panics) \/ DisableProxyHost(j, panics)
        PROVE  \/ UNCHANGED npmVars
               \/ /\ Alive(j) /\ Touch(j) /\ UNCHANGED creator
                  /\ \E b : npm' = [npm EXCEPT ![j].enabled = b]
    BY <2>1 DEF EnableProxyHost, DisableProxyHost, SetEnabled
  <2> QED BY <1>1, <1>2, <1>4, <2>1 DEF ReenableHost, DisableHost, EnableHost
<1>5. CASE DeleteHost
  <2>1. UNCHANGED npmVars \/ (npm' = [npm EXCEPT ![obj.id] = NoHost] /\ UNCHANGED <<orig, creator>>)
    BY <1>5 DEF DeleteHost, DeleteProxyHost
  <2> QED BY <1>0, <1>1, <2>1 DEF NpmInv, Alive
<1>6. CASE \E j \in Ids : AdminRemove(j) \/ AdminDisable(j)
  BY <1>2, <1>6 DEF AdminRemove, AdminDisable
<1>7. CASE DropFinalizer
  <2>1. /\ UNCHANGED <<npm, creator>> /\ pc = "removeFinalizer"
        /\ orig' = IF api[req] # NoObj /\ api'[req] = NoObj /\ api[req].id # NoId
                   THEN [orig EXCEPT ![api[req].id] = NoHost] ELSE orig
    BY <1>7 DEF DropFinalizer
  <2>2. req \in Keys
    BY <2>1 DEF IInv, RequestInv
  <2>3. Records(api[req]) => api[req].id # i
    BY <2>2, RecordIsCreated
  <2> QED BY <1>0, <2>1, <2>3 DEF NpmInv, Records
<1>8. CASE \/ EnsureFinalizer \/ MarkReconciling \/ InitNginxPMClient \/ RefetchLatest
           \/ CheckDomains \/ FindHostByID \/ BindExisting \/ NothingToBind
           \/ PrepareInput \/ SaveStatus \/ MarkReady \/ MarkError \/ Return \/ Crash
           \/ (\E k \in Keys : Dequeue(k) \/ WatchEvent(k) \/ UserCreate(k) \/ UserEdit(k)
                                \/ UserDelete(k) \/ Trigger(k))
           \/ UNCHANGED vars
  <2>1. UNCHANGED npmVars
    BY <1>8
    DEF EnsureFinalizer, MarkReconciling, InitNginxPMClient, RefetchLatest,
        CheckDomains, FindHostByID, BindExisting, NothingToBind, PrepareInput, SaveStatus,
        MarkReady, MarkError, Return, Crash, Dequeue, WatchEvent, UserCreate, UserEdit,
        UserDelete, UserWrite, Trigger, vars
  <2> QED BY <1>1, <2>1
<1> QED BY <1>3, <1>4, <1>5, <1>6, <1>7, <1>8 DEF Next, Reconcile, Environment

\* A new host gets the next id and domains that no host has.
LEMMA NewHost ==
  ASSUME IInv, [Next]_vars, NEW i \in Ids, creator[i] = "none",
         npm'[i] # NoHost \/ creator'[i] # "none"
  PROVE  /\ i = nextId /\ (CreateHost \/ AdminCreate)
         /\ RejectDuplicates =>
              \A j \in Ids : j # i /\ Alive(j) => npm[j].doms \cap npm'[i].doms = {}
         /\ creator'[i] = "admin" => npm'[i] \in ForeignHosts
<1>0. NpmInv /\ ~Alive(i) /\ NoId \notin Ids
  BY NullsAssumption, MaxHostsAssumption DEF IInv, NpmInv, Ids
<1>1. CreateHost \/ AdminCreate
  BY <1>0, UnusedStays DEF Alive
<1>2. CASE CreateHost
  <2>1. ~UNCHANGED npmVars
    BY <1>0 DEF npmVars, Alive
  <2>2. ~Taken(CreateInput(obj).doms, NoId) /\ Post(CreateInput(obj))
    BY <1>2, <2>1 DEF CreateHost, CreateProxyHost
  <2>3. i = nextId /\ creator'[i] = "operator"
    BY <1>0, <2>2 DEF Post, NpmInv, Alive
  <2>4. npm'[i].doms = CreateInput(obj).doms
    BY <1>0, <2>2, <2>3 DEF Post, NpmInv
  <2> QED BY <1>0, <1>2, <2>2, <2>3, <2>4 DEF Taken, Alive
<1>3. CASE AdminCreate
  <2>1. PICK h \in ForeignHosts : ~Taken(h.doms, NoId) /\ npm' = [npm EXCEPT ![nextId] = h]
    BY <1>3 DEF AdminCreate
  <2>2. i = nextId /\ npm'[i] = h
    BY <1>0, <1>3, <2>1 DEF AdminCreate, NpmInv, Alive
  <2> QED BY <1>0, <1>3, <2>1, <2>2 DEF Taken, Alive
<1> QED BY <1>1, <1>2, <1>3

\* Hosts stay apart: new ones do not share, old ones keep their domains.
LEMMA DisjointKept ==
  ASSUME SharedInv, DisjointInv, [Next]_vars
  PROVE  DisjointInv'
<1>0. IInv /\ DomainsLast
  BY NextDomains DEF SharedInv, FInv
<1> SUFFICES ASSUME RejectDuplicates, NEW i \in Ids, NEW j \in Ids, i # j,
                    npm'[i] # NoHost, npm'[j] # NoHost
             PROVE  npm'[i].doms \cap npm'[j].doms = {}
  BY DEF DisjointInv, Alive
<1>1. ASSUME NEW m \in Ids, npm'[m] # NoHost, ~(Alive(m) /\ npm'[m].doms = npm[m].doms)
      PROVE  m = nextId /\ creator[m] = "none"
  BY <1>0, <1>1 DEF DomainsLast, Alive, IInv, NpmInv, Ids
<1>2. CASE Alive(i) /\ npm'[i].doms = npm[i].doms /\ Alive(j) /\ npm'[j].doms = npm[j].doms
  BY <1>2 DEF DisjointInv
<1>3. CASE i = nextId /\ creator[i] = "none"
  BY <1>0, <1>1, <1>3, NewHost
<1>4. CASE j = nextId /\ creator[j] = "none"
  BY <1>0, <1>1, <1>4, NewHost
<1> QED BY <1>1, <1>2, <1>3, <1>4

-----------------------------------------------------------------------------
(* The parts of the invariant are kept.                                     *)

\* A host that nobody recorded yet was not written.
LEMMA OrigOfNew ==
  ASSUME IInv, [Next]_vars, NEW i \in Ids, creator[i] = "none"
  PROVE  orig'[i] = orig[i]
BY UnusedStays DEF CreateHost, CreateProxyHost, Post, AdminCreate, npmVars

\* An administrator's host was one before, and there, or it is new.
LEMMA ForeignSince ==
  ASSUME Calm, IInv, WorkerInv, OriginInv, [Next]_vars, NEW i \in Ids, Foreign(i)'
  PROVE  /\ npm'[i] # NoHost
         /\ \/ Foreign(i) /\ Alive(i)
            \/ creator[i] = "none" /\ orig'[i] = NoHost
<1>1. CASE creator[i] = "none"
  <2>1. npm'[i] \in ForeignHosts
    BY <1>1, NewHost DEF Foreign
  <2>2. npm'[i] # NoHost
    BY <2>1, ConstantsAssumption, NullsAssumption
  <2> QED BY <1>1, <2>2, OrigOfNew DEF OriginInv
<1>2. CASE creator[i] # "none"
  <2>1. Foreign(i) /\ Alive(i)
    BY <1>2, CreatorStays DEF Foreign, OriginInv
  <2> QED BY <2>1, ForeignStays
<1> QED BY <1>1, <1>2

\* A resource that goes takes the memory of its host's first state along.
LEMMA RemovalResets ==
  ASSUME Calm, FInv, [Next]_vars, NEW k \in Keys, Records(api[k]), api'[k] = NoObj
  PROVE  orig'[api[k].id] = NoHost /\ UNCHANGED npm /\ Fresh(k) /\ pc = "removeFinalizer" /\ k = req
<1>1. IInv /\ ClusterStep /\ RecordedHostHasFinalizer
  BY NextWrites DEF FInv
<1>2. Writes(k, NoObj)
  BY <1>1, StoredSources DEF Records
<1>3. Fresh(k) /\ k = req /\ pc = "removeFinalizer"
  BY <1>1, <1>2 DEF Writes, Continues, Replaces, Records, Live, Finalized, RecordedHostHasFinalizer
<1>4. ASSUME NEW j \in Keys, UserCreate(j) \/ UserEdit(j) \/ UserDelete(j)
      PROVE  FALSE
  <2>1. PICK v : UserWrite(j, v) /\ (j = k => v = [api[k] EXCEPT !.deleting = TRUE])
    BY <1>1, <1>4
    DEF UserCreate, UserEdit, UserDelete, Op, Calm, Records, RecordedHostHasFinalizer, Live
  <2>2. j # k => api'[k] = api[k]
    BY <1>1, <2>1, ClusterTypes DEF UserWrite, Publish
  <2>3. j = k => api'[k] = v
    BY <1>1, <2>1, ClusterTypes DEF UserWrite, Publish
  <2>4. api[k] \in ProxyHost
    BY <1>1, ClusterTypes, VersionIsProxyHost DEF Records
  <2>5. [api[k] EXCEPT !.deleting = TRUE] \in ProxyHost
    BY <2>4 DEF ProxyHost
  <2> QED BY <2>1, <2>2, <2>3, <2>5, NullsAssumption DEF Records
<1>5. DropFinalizer
  <2>1. ~UNCHANGED api
    BY DEF Records
  <2> QED
    BY <1>3, <1>4, <2>1
    DEF Next, Reconcile, Environment, EnsureFinalizer, MarkReconciling, InitNginxPMClient,
        RestoreHost, ReenableHost, DisableHost, DeleteHost, RefetchLatest, CheckDomains,
        FindHostByID, BindExisting, NothingToBind, EnableHost, PrepareInput, UpdateHost,
        CreateHost, FollowUp, SaveStatus, MarkReady, MarkError, Return, Crash, Relist, Trigger,
        AdminCreate, AdminRemove, AdminDisable, Dequeue, WatchEvent, Deliver, vars, kubeVars
<1>6. api[k].id \in Ids /\ NpmInv
  BY <1>1, RecordIsCreated DEF IInv
<1> QED BY <1>3, <1>5, <1>6 DEF DropFinalizer, Records, NpmInv

\* How Reconcile comes to a place where it has looked for a host.
LEMMA HostMoves ==
  ASSUME IInv, WorkerInv, [Next]_vars, pc' \in HostPCs
  PROVE  \/ FindHostByID \/ BindExisting \/ NothingToBind
         \/ CreateHost
         \/ /\ pc \in HostPCs /\ UNCHANGED <<req, obj, marked, host, bound, captured>>
            /\ \/ pc' = pc
               \/ pc = "enable" /\ pc' = "prepare"
               \/ pc = "prepare" /\ pc' \in {"update", "create"}
               \/ pc \in {"update", "followUp"} /\ pc' = "save"
<1>1. CASE EnableHost \/ PrepareInput \/ UpdateHost \/ FollowUp
  BY <1>1 DEF EnableHost, PrepareInput, UpdateHost, FollowUp, HostPCs
<1>2. CASE \/ EnsureFinalizer \/ MarkReconciling \/ RestoreHost \/ ReenableHost
           \/ DisableHost \/ DeleteHost \/ RefetchLatest \/ DropFinalizer \/ CheckDomains
           \/ SaveStatus \/ MarkReady \/ MarkError \/ Return \/ Crash
           \/ (\E k \in Keys : Dequeue(k) /\ cache[k] # NoObj)
  BY <1>2
  DEF EnsureFinalizer, MarkReconciling, RestoreHost, ReenableHost, DisableHost, DeleteHost,
      RefetchLatest, DropFinalizer, CheckDomains, SaveStatus, MarkReady, MarkError, Return,
      Crash, Reset, Dequeue, HostPCs
<1>3. CASE InitNginxPMClient
  BY <1>3 DEF InitNginxPMClient, FinalizerOperation, HostPCs, Fault
<1>4. CASE \/ AdminCreate \/ (\E i \in Ids : AdminRemove(i) \/ AdminDisable(i))
           \/ (\E k \in Keys : Trigger(k) \/ WatchEvent(k) \/ UserCreate(k) \/ UserEdit(k)
                                \/ UserDelete(k) \/ (Dequeue(k) /\ cache[k] = NoObj))
           \/ UNCHANGED vars
  BY <1>4
  DEF AdminCreate, AdminRemove, AdminDisable, Trigger, WatchEvent, UserCreate, UserEdit,
      UserDelete, UserWrite, Dequeue, vars, helperVars, localVars, HostPCs
<1> QED BY <1>1, <1>2, <1>3, <1>4 DEF Next, Reconcile, Environment

\* Finalizing a resource that is gone but for the cache changes nothing.
LEMMA UndoneIsSettled ==
  ASSUME SharedInv, BranchInv, SettledInv, NEW i \in Ids, Foreign(i), Alive(i), Undoes(i),
         ~Records(api[req])
  PROVE  Agree(npm'[i], npm[i])
<1>1. npm[i] \in Host /\ NoId \notin Ids /\ obj # NoObj
  BY NullsAssumption, MaxHostsAssumption
  DEF SharedInv, FInv, IInv, NpmInv, Alive, Ids, RequestInv, Undoes
<1>2. Settled(obj) /\ npm'[i].doms = npm[i].doms
  BY <1>1 DEF SettledInv, MarkedPCs, Undoes, Records, Touched
<1>3. obj.id = i /\ (pc = "restore" => obj.init # NoInit)
  BY DEF Undoes, SharedInv, FInv, IInv, PcInv
<1> QED BY <1>1, <1>2, <1>3 DEF Undoes, Settled, BranchInv, Agree, SameForward, Host

\* Whoever holds an administrator's host goes on holding it, or records it, or
\* lets go of it when it is as it was.
LEMMA HeldLasts ==
  ASSUME Calm, AdoptInv, OriginInv, [Next]_vars, NEW i \in Ids, Foreign(i), Alive(i), Held(i),
         DisjointInv
  PROVE  Held(i)' \/ orig'[i] = NoHost \/ Agree(orig'[i], npm'[i])
<1>0. SharedInv /\ FInv /\ WorkerInv /\ HostInv /\ ReadInv /\ NoId \notin Ids /\ IInv
  BY NullsAssumption, MaxHostsAssumption DEF AdoptInv, SharedInv, FInv, Ids
<1>1. ASSUME NEW k \in Keys, Records(api[k]), api[k].id = i
      PROVE  Held(i)' \/ orig'[i] = NoHost
  <2>1. CASE Records(api'[k]) /\ api'[k].id = i
    BY <2>1 DEF Held, Records
  <2>2. CASE api'[k] = NoObj
    BY <1>0, <1>1, <2>2, RemovalResets
  <2> QED BY <1>0, <1>1, <2>1, <2>2, RecordEnds DEF Live
<1>2. CASE host = i /\ pc \in {"prepare", "update", "followUp", "save"}
  <2>0. ~marked /\ Engaged /\ req \in Keys
    BY <1>0, <1>2 DEF WorkerInv, CreatePCs, Engaged, Working, IInv, RequestInv
  <2>1. CASE host' = i /\ pc' \in {"prepare", "update", "followUp", "save"}
    BY <2>1 DEF Held
  <2>2. CASE SaveStatus
    <3>1. Records(api'[req]) /\ api'[req].id = host /\ UNCHANGED req
      BY <1>0, <2>2, SaveHost
    <3> QED BY <1>2, <2>0, <3>1 DEF Held, Records
  <2>3. CASE PrepareInput /\ pc' = "fail"
    <3>1. ~Steady /\ UNCHANGED <<npm, orig>>
      BY <1>2, <2>3 DEF PrepareInput, Fault, Steady, npmVars
    <3>2. \/ Records(api[req])
          \/ orig[i] = NoHost
          \/ SameForward(orig[i], npm[i])
      BY <1>0, <1>2, <2>3 DEF OriginInv, PrepareInput
    <3>3. Records(api[req]) => api[req].id = i
      BY <1>0, <1>2, <2>0, <2>3 DEF PrepareInput, ReadInv, SameRecord, Records, HostInv, HostPCs
    <3> QED BY <1>1, <2>0, <3>1, <3>2, <3>3 DEF Agree
  <2>4. CASE UpdateHost \/ FollowUp
    <3>1. pc' # "fail"
      BY <1>0, <2>4, UpdateSteps
    <3> QED BY <1>2, <2>1, <2>4, <3>1 DEF UpdateHost, FollowUp
  <2>5. CASE PrepareInput /\ pc' # "fail"
    BY <1>0, <1>2, <2>1, <2>5 DEF PrepareInput
  <2>6. CASE ~(SaveStatus \/ PrepareInput \/ UpdateHost \/ FollowUp)
    <3>1. ~Crash
      BY DEF Crash, Fault, Calm
    <3>2. UNCHANGED <<host, pc>>
      BY <1>2, <2>6, <3>1
      DEF Next, Reconcile, Environment, EnsureFinalizer, MarkReconciling, InitNginxPMClient,
          RestoreHost, ReenableHost, DisableHost, DeleteHost, RefetchLatest, DropFinalizer,
          CheckDomains, FindHostByID, BindExisting, NothingToBind, EnableHost, CreateHost,
          MarkReady, MarkError, Return, UserCreate, UserEdit, UserDelete, UserWrite, Trigger,
          AdminCreate, AdminRemove, AdminDisable, Dequeue, WatchEvent, vars, localVars
    <3> QED BY <1>2, <2>1, <3>2
  <2> QED BY <2>2, <2>3, <2>4, <2>5, <2>6
<1> QED BY <1>1, <1>2 DEF Held

\* The hosts of administrators that nobody holds stay as they were.
LEMMA OriginKept ==
  ASSUME Calm, AdoptInv, DisjointInv, OriginInv, BranchInv, SettledInv, [Next]_vars
  PROVE  OriginInv'
<1>0. /\ SharedInv /\ FInv /\ IInv /\ WorkerInv /\ HostInv /\ ReadInv
      /\ NoId \notin Ids
  BY NullsAssumption, MaxHostsAssumption DEF AdoptInv, SharedInv, FInv, Ids
<1>1. ASSUME NEW i \in Ids, creator'[i] = "none"
      PROVE  orig'[i] = NoHost
  <2>1. creator[i] = "none"
    BY <1>0, <1>1, CreatorStays
  <2> QED BY <1>0, <2>1, OrigOfNew DEF OriginInv
<1>2. ASSUME NEW i \in Ids, Foreign(i)'
      PROVE  npm'[i] # NoHost
  BY <1>0, <1>2, ForeignSince
<1>3. ASSUME NEW i \in Ids, Foreign(i)'
      PROVE  Held(i)' \/ orig'[i] = NoHost \/ Agree(orig'[i], npm'[i])
  <2>1. CASE creator[i] = "none" /\ orig'[i] = NoHost
    BY <2>1
  <2>2. CASE Foreign(i) /\ Alive(i)
    <3>1. CASE Held(i)
      BY <2>2, <3>1, HeldLasts
    <3>2. CASE ~Held(i)
      <4>1. /\ HostStep(i) /\ npm[i] # NoHost
            /\ orig[i] = NoHost \/ Agree(orig[i], npm[i])
        BY <1>0, <2>2, <3>2, HostSteps DEF OriginInv, Alive
      <4>2. CASE npm'[i] = npm[i] /\ orig'[i] = orig[i]
        BY <4>1, <4>2
      <4>3. CASE ~Steady /\ SameForward(npm'[i], npm[i]) /\ orig'[i] = orig[i]
        BY <4>1, <4>3 DEF Agree, SameForward
      <4>4. CASE Updates(i) /\ UNCHANGED host
        BY <4>4 DEF Updates, Held
      <4>5. CASE Undoes(i)
        <5>1. ~Records(api[req])
          <6>1. Records(api[req]) => SameRecord(obj, api[req])
            BY <4>5 DEF AdoptInv, OwnInv, RemovalInv, Undoes, MarkedPCs
          <6>2. req \in Keys /\ obj.id = i
            BY <1>0, <4>5 DEF Undoes, IInv, RequestInv
          <6> QED BY <3>2, <6>1, <6>2 DEF Held, SameRecord
        <5>2. Agree(npm'[i], npm[i]) /\ orig'[i] = Original(i)
          BY <1>0, <2>2, <4>5, <5>1, UndoneIsSettled DEF Undoes, Touched
        <5> QED BY <4>1, <5>2 DEF Agree, SameForward, Original
      <4> QED BY <4>1, <4>2, <4>3, <4>4, <4>5 DEF HostStep
    <3> QED BY <3>1, <3>2
  <2> QED BY <1>0, <1>3, <2>1, <2>2, ForeignSince
<1>4. ASSUME pc' \in {"enable", "prepare", "update"}, host' # NoId, Foreign(host)'
      PROVE  \/ Records(api'[req'])
             \/ orig'[host'] = NoHost
             \/ SameForward(orig'[host'], npm'[host'])
  <2>1. CASE FindHostByID
    <3>1. Engaged /\ pc = "find" /\ obj.id # NoId /\ UNCHANGED <<api, req>> /\ req \in Keys
      BY <1>0, <2>1
      DEF FindHostByID, Engaged, Working, CreatePCs, WorkerInv, kubeVars, IInv, RequestInv
    <3>2. SameRecord(obj, api[req]) /\ Finalized(api[req])
      BY <1>0, <3>1 DEF ReadInv, WorkerInv, CreatePCs, Engaged, Working
    <3> QED BY <3>1, <3>2 DEF SameRecord, Records, Finalized
  <2>2. CASE BindExisting
    <3>1. PICK i \in MatchingHosts(obj.spec.doms) : host' = i
      BY <2>2 DEF BindExisting
    <3>2. /\ i \in Ids /\ host = NoId /\ pc = "find" /\ obj.id = NoId
          /\ UNCHANGED <<npm, orig, creator>>
      BY <1>0, <2>2, <3>1 DEF BindExisting, MatchingHosts, IInv, PcInv, npmVars
    <3>3. ~Held(i)
      BY <1>0, <3>1, <3>2, FoundIsFree DEF Held
    <3> QED BY <1>4, <3>1, <3>2, <3>3 DEF OriginInv, Foreign, Agree
  <2>3. CASE NothingToBind \/ CreateHost
    BY <1>4, <2>3 DEF NothingToBind, CreateHost
  <2>4. CASE /\ pc \in HostPCs /\ UNCHANGED <<req, obj, marked, host, bound, captured>>
             /\ \/ pc' = pc
                \/ pc = "enable" /\ pc' = "prepare"
                \/ pc = "prepare" /\ pc' \in {"update", "create"}
                \/ pc \in {"update", "followUp"} /\ pc' = "save"
    <3>1. /\ pc \in {"enable", "prepare", "update"} /\ host \in Ids /\ req \in Keys
          /\ host # NoId /\ creator[host] # "none" /\ ~marked
      BY <1>0, <1>4, <2>4 DEF IInv, LocalInv, RequestInv, WorkerInv, CreatePCs
    <3>2. Foreign(host) /\ Alive(host)
      BY <1>0, <1>4, <2>4, <3>1, CreatorStays DEF Foreign, OriginInv
    <3>3. CASE Records(api[req])
      BY <1>0, <2>4, <3>1, <3>3, RecordEnds
    <3>4. CASE orig[host] = NoHost \/ SameForward(orig[host], npm[host])
      <4>1. HostStep(host) /\ npm[host] # NoHost
        BY <1>0, <3>1, <3>2, HostSteps DEF Alive
      <4>2. CASE \/ npm'[host] = npm[host] /\ orig'[host] = orig[host]
                 \/ SameForward(npm'[host], npm[host]) /\ orig'[host] = orig[host]
        BY <2>4, <3>4, <4>2 DEF SameForward
      <4>3. CASE Updates(host)
        BY <1>4, <2>4, <3>1, <3>4, <4>3 DEF Updates, Touched, Original, SameForward
      <4> QED BY <3>1, <4>1, <4>2, <4>3 DEF HostStep, Undoes
    <3> QED BY <1>4, <3>1, <3>2, <3>3, <3>4 DEF OriginInv
  <2> QED BY <1>0, <1>4, <2>1, <2>2, <2>3, <2>4, HostMoves DEF HostPCs
<1> QED BY <1>1, <1>2, <1>3, <1>4 DEF OriginInv, Alive, Records, Foreign, Held

\* What a host was before the operator wrote it does not change later.
LEMMA OriginalStays ==
  ASSUME Calm, SharedInv, DisjointInv, HostInv, [Next]_vars, NEW i \in Ids, Foreign(i), Alive(i),
         \A k \in Keys : Records(api[k]) /\ api[k].id = i => k # req \/ api'[k] # NoObj
  PROVE  Agree(Original(i), IF orig'[i] = NoHost THEN npm'[i] ELSE orig'[i])
<1>1. IInv /\ npm[i] # NoHost /\ (pc = "removeFinalizer" => req \in Keys)
  BY DEF SharedInv, FInv, IInv, RequestInv, Alive
<1>2. HostStep(i)
  BY HostSteps
<1>3. CASE npm'[i] = npm[i] /\ orig'[i] = orig[i]
  BY <1>3 DEF Agree, SameForward, Original
<1>4. CASE ~Steady /\ SameForward(npm'[i], npm[i]) /\ orig'[i] = orig[i]
  BY <1>4 DEF Agree, SameForward, Original
<1>5. CASE orig'[i] = Original(i)
  BY <1>1, <1>5 DEF Agree, SameForward, Original
<1> QED BY <1>1, <1>2, <1>3, <1>4, <1>5 DEF HostStep, Updates, Undoes, Touched

\* Originals are captured, and recorded as they were captured.
LEMMA InitialKept ==
  ASSUME Calm, AdoptInv, DisjointInv, OriginInv, InitialInv, [Next]_vars
  PROVE  InitialInv'
<1> DEFINE Later(j) == IF orig'[j] = NoHost THEN npm'[j] ELSE orig'[j]
<1>0. /\ SharedInv /\ FInv /\ IInv /\ WorkerInv /\ HostInv /\ ReadInv /\ ClusterStep
      /\ NoId \notin Ids
  BY NextWrites, NullsAssumption, MaxHostsAssumption DEF AdoptInv, SharedInv, FInv, Ids
<1>1. ASSUME NEW x, NEW y, NEW z, Agree(x, y), Agree(y, z)
      PROVE  Agree(x, z)
  BY <1>1 DEF Agree, SameForward
<1>2. ASSUME NEW k \in Keys, Records(api'[k]), api'[k].init # NoInit, creator'[api'[k].id] = "admin"
      PROVE  Agree(api'[k].init, Later(api'[k].id))
  <2> DEFINE i == api'[k].id
  <2>1. ASSUME i \in Ids, creator[i] # "none", Agree(api'[k].init, Original(i)),
               (k = req /\ pc = "save") \/ (Records(api[k]) /\ api[k].id = i)
        PROVE  Agree(api'[k].init, Later(i))
    <3>1. Foreign(i) /\ Alive(i)
      BY <1>0, <1>2, <2>1, CreatorStays DEF Foreign, OriginInv
    <3>2. ASSUME NEW j \in Keys, Records(api[j]), api[j].id = i, j = req, api'[j] = NoObj
          PROVE  FALSE
      <4>1. pc = "removeFinalizer" /\ k # j
        BY <1>0, <1>2, <3>2, RemovalResets DEF Records
      <4>2. Claims(j, i, api[j].spec.doms) /\ Claims(k, i, api[k].spec.doms)
        BY <1>0, <2>1, <3>2, <4>1, SeenTypes DEF Claims, Records
      <4> QED BY <1>0, <2>1, <4>1, <4>2 DEF SharedInv, ClaimInv
    <3>3. Agree(Original(i), Later(i))
      BY <1>0, <2>1, <3>1, <3>2, OriginalStays
    <3> QED BY <1>1, <2>1, <3>3 DEF Original
  <2>2. CASE Saves(k, api'[k])
    <3>1. i = host /\ pc = "save" /\ k = req /\ host \in Ids /\ creator[host] # "none" /\ host # NoId
      BY <1>0, <1>2, <2>2, SavedRecord DEF Saves, IInv, LocalInv, Records, SharedInv
    <3>2. api'[k].init = IF captured # NoInit THEN captured ELSE api[k].init
      <4>1. api[k] \in ProxyHost
        BY <1>0, <3>1, ClusterTypes, VersionIsProxyHost, WorkerAgrees, SeenTypes
        DEF CreatePCs, SharedInv
      <4> QED BY <2>2, <4>1 DEF Saves, Recorded, ProxyHost
    <3>3. Foreign(i)
      BY <1>0, <1>2, <3>1, CreatorStays DEF Foreign
    <3>4. CASE captured # NoInit
      <4>1. Agree(captured, Original(host))
        BY <3>1, <3>3, <3>4 DEF InitialInv, HostPCs
      <4> QED BY <2>1, <3>1, <3>2, <3>4, <4>1
    <3>5. CASE captured = NoInit
      <4>1. api[k] \in Seen(k) /\ Finalized(api[k])
        BY <1>0, <3>1, SeenTypes DEF WorkerInv, CreatePCs
      <4>2. Records(api[k])
        BY <1>2, <3>2, <3>5, <4>1 DEF AdoptInv, BareInv, Finalized, Records
      <4>3. api[k].id = i
        BY <1>0, <3>1, <4>2, RecordEnds
      <4>4. Agree(api[k].init, Original(i))
        BY <1>2, <3>2, <3>3, <3>5, <4>2, <4>3 DEF InitialInv
      <4> QED BY <2>1, <3>1, <3>2, <3>5, <4>2, <4>3, <4>4
    <3> QED BY <3>4, <3>5
  <2>3. CASE ~Saves(k, api'[k])
    <3>1. Records(api[k]) /\ SameRecord(api'[k], api[k])
      BY <1>0, <1>2, <2>3, RecordLasts
    <3>2. i \in Ids /\ creator[i] # "none"
      BY <1>0, <3>1, RecordIsCreated DEF SameRecord
    <3>3. Foreign(i)
      BY <1>0, <1>2, <3>2, CreatorStays DEF Foreign
    <3> QED BY <1>2, <2>1, <3>1, <3>2, <3>3 DEF InitialInv, SameRecord
  <2> QED BY <2>2, <2>3
<1>3. ASSUME pc' \in HostPCs, host' # NoId, captured' # NoInit, Foreign(host)'
      PROVE  Agree(captured', Later(host'))
  <2>1. CASE FindHostByID
    <3>1. /\ Engaged /\ pc = "find" /\ obj.id # NoId /\ req \in Keys
          /\ UNCHANGED <<api, req, npm, orig, creator>>
      BY <1>0, <2>1
      DEF FindHostByID, Engaged, Working, CreatePCs, WorkerInv, kubeVars, npmVars, IInv, RequestInv
    <3>2. SameRecord(obj, api[req]) /\ Finalized(api[req])
      BY <1>0, <3>1 DEF ReadInv, WorkerInv, CreatePCs, Engaged, Working
    <3>3. Records(api[req]) /\ api[req].init = obj.init /\ api[req].id = obj.id
      BY <3>1, <3>2 DEF Records, SameRecord, Finalized
    <3>4. host' = obj.id /\ captured' = obj.init
      BY <1>3, <2>1 DEF FindHostByID, HostPCs
    <3> QED BY <1>3, <3>1, <3>3, <3>4 DEF InitialInv, Foreign, Original
  <2>2. CASE BindExisting
    <3>1. PICK i \in MatchingHosts(obj.spec.doms) :
            /\ host' = i
            /\ captured' = IF ShouldCaptureInitialConfig(obj)
                           THEN CaptureInitialConfiguration(npm[i]) ELSE NoInit
      BY <2>2 DEF BindExisting
    <3>2. /\ i \in Ids /\ host = NoId /\ pc = "find" /\ obj.id = NoId
          /\ UNCHANGED <<npm, orig, creator>>
      BY <1>0, <2>2, <3>1 DEF BindExisting, MatchingHosts, IInv, PcInv, npmVars
    <3>3. ~Held(i)
      BY <1>0, <3>1, <3>2, FoundIsFree DEF Held
    <3>4. orig[i] = NoHost \/ Agree(orig[i], npm[i])
      BY <1>3, <3>1, <3>2, <3>3 DEF OriginInv, Foreign
    <3>5. Agree(captured', npm[i])
      BY <1>3, <3>1 DEF CaptureInitialConfiguration, Agree, SameForward
    <3> QED BY <3>1, <3>2, <3>4, <3>5 DEF Original, Agree, SameForward
  <2>3. CASE NothingToBind
    BY <1>3, <2>3 DEF NothingToBind
  <2>4. CASE CreateHost
    <3>1. host' = nextId /\ creator'[nextId] = "operator"
      BY <1>0, <1>3, <2>4
      DEF CreateHost, CreateProxyHost, Post, Fault, Calm, HostPCs, IInv, NpmInv
    <3> QED BY <1>3, <3>1 DEF Foreign
  <2>5. CASE /\ pc \in HostPCs /\ UNCHANGED <<req, obj, marked, host, bound, captured>>
    <3>1. host \in Ids /\ creator[host] # "none" /\ pc # "removeFinalizer"
      BY <1>0, <1>3, <2>5 DEF IInv, LocalInv, HostPCs
    <3>2. Foreign(host) /\ Alive(host)
      BY <1>0, <1>3, <2>5, <3>1, CreatorStays DEF Foreign, OriginInv
    <3>3. \A k \in Keys : Records(api[k]) => api'[k] # NoObj
      BY <1>0, <3>1, RemovalResets
    <3>4. Agree(Original(host), Later(host))
      BY <1>0, <3>1, <3>2, <3>3, OriginalStays
    <3>5. Agree(captured, Original(host))
      BY <1>3, <2>5, <3>2 DEF InitialInv
    <3> QED BY <1>1, <2>5, <3>4, <3>5 DEF Original
  <2> QED BY <1>0, <1>3, <2>1, <2>2, <2>3, <2>4, <2>5, HostMoves
<1> QED BY <1>2, <1>3 DEF InitialInv, Records, Foreign, Original

\* The choice of the finalizer lasts.
LEMMA BranchKept ==
  ASSUME IInv, BranchInv, [Next]_vars
  PROVE  BranchInv'
<1>1. CASE RestoreHost
  BY <1>1 DEF RestoreHost, BranchInv, IInv, PcInv
<1>2. CASE InitNginxPMClient
  <2>1. CASE pc' = FinalizerOperation(obj) /\ UNCHANGED obj
    <3>1. pc' # "reenable"
      BY <2>1 DEF FinalizerOperation
    <3>2. pc' = "disable" => obj.id # NoId /\ obj.init = NoInit
      BY <2>1 DEF FinalizerOperation, ShouldRestoreInitialConfig
    <3> QED BY <2>1, <3>1, <3>2 DEF BranchInv
  <2>2. CASE pc' \in {"done", "unique", "refetch", "fail"}
    BY <2>2 DEF BranchInv
  <2> QED BY <1>2, <2>1, <2>2 DEF InitNginxPMClient
<1>3. CASE pc' = pc /\ UNCHANGED obj
  BY <1>3 DEF BranchInv
<1>4. CASE pc' \notin {"reenable", "disable"}
  BY <1>4 DEF BranchInv
<1>5. CASE \/ EnsureFinalizer \/ MarkReconciling \/ ReenableHost \/ DisableHost \/ DeleteHost
           \/ RefetchLatest \/ DropFinalizer \/ CheckDomains \/ FindHostByID \/ BindExisting
           \/ NothingToBind \/ EnableHost \/ PrepareInput \/ UpdateHost \/ CreateHost
           \/ FollowUp \/ SaveStatus \/ MarkReady \/ MarkError \/ Return \/ Crash
           \/ (\E k \in Keys : Dequeue(k) /\ cache[k] # NoObj)
  BY <1>4, <1>5
  DEF EnsureFinalizer, MarkReconciling, ReenableHost, DisableHost, DeleteHost, RefetchLatest,
      DropFinalizer, CheckDomains, FindHostByID, BindExisting, NothingToBind, AfterFind,
      EnableHost, PrepareInput, UpdateHost, CreateHost, FollowUp, SaveStatus, MarkReady,
      MarkError, Return, Crash, Reset, Dequeue
<1>6. CASE \/ AdminCreate \/ (\E i \in Ids : AdminRemove(i) \/ AdminDisable(i))
           \/ (\E k \in Keys : Trigger(k) \/ WatchEvent(k) \/ UserCreate(k) \/ UserEdit(k)
                                \/ UserDelete(k) \/ (Dequeue(k) /\ cache[k] = NoObj))
           \/ UNCHANGED vars
  BY <1>3, <1>6
  DEF AdminCreate, AdminRemove, AdminDisable, Trigger, WatchEvent, UserCreate, UserEdit,
      UserDelete, UserWrite, Dequeue, vars, helperVars, localVars
<1> QED BY <1>1, <1>2, <1>5, <1>6 DEF Next, Reconcile, Environment

\* Nobody changes a host that is only recorded in versions of a resource that
\* is gone, nor, but to undo its work, the worker that finalizes one.
LEMMA QuietHost ==
  ASSUME Calm, AdoptInv, DisjointInv, BranchInv, SettledInv, [Next]_vars,
         NEW i \in Ids, Foreign(i), Alive(i), NEW k \in Keys, ~Records(api[k]),
         \/ \E x \in Seen(k) : Records(x) /\ x.id = i
         \/ k = req /\ marked /\ pc # "idle" /\ obj.id = i
  PROVE  Agree(npm'[i], npm[i])
<1>0. SharedInv /\ FInv /\ WorkerInv /\ HostInv /\ KeptInv /\ IInv
  BY DEF AdoptInv, SharedInv, FInv
<1>1. HostStep(i)
  BY <1>0, HostSteps
<1>2. \E d : Claims(k, i, d)
  BY DEF Claims, Records
<1>3. ASSUME Updates(i)
      PROVE  FALSE
  <2>1. host = i /\ ~marked /\ pc \in CreatePCs /\ pc # "idle" /\ req \in Keys
    BY <1>0, <1>3 DEF Updates, CreatePCs, IInv, RequestInv
  <2>2. Claims(req, i, obj.spec.doms)
    BY <2>1 DEF Claims
  <2>3. k = req
    BY <1>0, <1>2, <2>1, <2>2 DEF SharedInv, ClaimInv
  <2>4. Finalized(api[k])
    BY <1>0, <2>1, <2>3 DEF WorkerInv
  <2> QED BY <1>0, <2>1, <2>3, <2>4 DEF KeptInv
<1>4. CASE Undoes(i)
  <2>1. obj.id = i /\ pc # "idle" /\ req \in Keys
    BY <1>0, <1>4 DEF Undoes, IInv, RequestInv
  <2>2. Claims(req, i, obj.spec.doms)
    BY <2>1 DEF Claims
  <2>3. k = req
    BY <1>0, <1>2, <2>1, <2>2 DEF SharedInv, ClaimInv
  <2> QED BY <1>0, <1>4, <2>3, UndoneIsSettled
<1> QED BY <1>1, <1>3, <1>4 DEF HostStep, Agree, SameForward

\* The worker's copy while it finalizes: it stays, or is of a version around.
LEMMA MarkedCopy ==
  ASSUME SharedInv, CopyStep, marked', pc' \in MarkedPCs \cup {"finalizer", "reconciling", "client"},
         pc # "idle"
  PROVE  /\ UNCHANGED <<req, marked>>
         /\ \/ obj' = obj
            \/ \E x \in Seen(req) : x # NoObj /\ Similar(x, obj')
            \/ Similar(obj, obj') /\ obj = api[req] /\ obj' = api'[req]
<1>1. pc = "save" => ~marked
  BY DEF SharedInv, FInv, WorkerInv, CreatePCs
<1> QED BY <1>1 DEF CopyStep, CopyStays, MarkedPCs

\* The way of a resource through the finalizer.
LEMMA MarkedMoves ==
  ASSUME Calm, IInv, WorkerInv, [Next]_vars, pc # "idle", marked,
         pc' \in MarkedPCs \cup {"finalizer", "reconciling", "client"}
  PROVE  \/ pc' = pc /\ UNCHANGED obj
         \/ /\ pc \in {"finalizer", "reconciling", "client"}
            /\ pc' \in {"reconciling", "client", "restore", "disable", "delete"}
         \/ pc = "client" /\ pc' = "refetch" /\ obj.id = NoId
         \/ RestoreHost \/ ReenableHost \/ DisableHost \/ DeleteHost
         \/ RefetchLatest
<1>1. CASE EnsureFinalizer \/ MarkReconciling
  BY <1>1 DEF EnsureFinalizer, MarkReconciling, MarkedPCs
<1>2. CASE InitNginxPMClient
  <2>1. pc = "client" /\ (pc' = FinalizerOperation(obj) \/ pc' = "done")
    BY <1>2 DEF InitNginxPMClient, Fault, Calm
  <2>2. obj.bound \in BOOLEAN
    BY VersionIsProxyHost DEF IInv, RequestInv, ProxyHost
  <2> QED BY <2>1, <2>2 DEF FinalizerOperation, ShouldRestoreInitialConfig, MarkedPCs
<1>3. CASE \/ DropFinalizer \/ CheckDomains \/ FindHostByID \/ BindExisting \/ NothingToBind
           \/ EnableHost \/ PrepareInput \/ UpdateHost \/ CreateHost \/ FollowUp \/ SaveStatus
           \/ MarkReady \/ MarkError \/ Return \/ Crash \/ (\E k \in Keys : Dequeue(k))
  <2>1. pc' \notin MarkedPCs \cup {"finalizer", "reconciling", "client"}
    BY <1>3
    DEF DropFinalizer, CheckDomains, FindHostByID, BindExisting, NothingToBind, AfterFind,
        EnableHost, PrepareInput, UpdateHost, CreateHost, FollowUp, SaveStatus, MarkReady,
        MarkError, Return, Crash, Reset, Dequeue, MarkedPCs
  <2> QED BY <2>1
<1>4. CASE \/ AdminCreate \/ (\E i \in Ids : AdminRemove(i) \/ AdminDisable(i))
           \/ (\E k \in Keys : Trigger(k) \/ WatchEvent(k) \/ UserCreate(k) \/ UserEdit(k)
                                \/ UserDelete(k))
           \/ UNCHANGED vars
  BY <1>4
  DEF AdminCreate, AdminRemove, AdminDisable, Trigger, WatchEvent, UserCreate, UserEdit,
      UserDelete, UserWrite, vars, helperVars, localVars
<1> QED BY <1>1, <1>2, <1>3, <1>4 DEF Next, Reconcile, Environment

\* What the finalizer has settled stays settled.
LEMMA SettledKept ==
  ASSUME Calm, AdoptInv, DisjointInv, OriginInv, BranchInv, SettledInv, [Next]_vars, FInv'
  PROVE  SettledInv'
<1>0. /\ SharedInv /\ FInv /\ IInv /\ WorkerInv /\ HostInv /\ ReadInv /\ ClusterStep
      /\ CopyStep /\ RemovalInv /\ WorkerInv' /\ IInv' /\ NoId \notin Ids
  BY NextWrites, NextCopy, NullsAssumption, MaxHostsAssumption
  DEF AdoptInv, SharedInv, OwnInv, FInv, Ids
<1> DEFINE SettledNow(x) ==
      /\ x.init # NoInit => x.init.cfg = npm'[x.id].cfg
                            /\ (Steady /\ x.init.enabled => npm'[x.id].enabled)
      /\ x.init = NoInit /\ Steady => ~npm'[x.id].enabled
<1>1. ASSUME NEW x, NEW y, x.id = y.id, x.init = y.init, Settled(x), Agree(npm'[x.id], npm[x.id])
      PROVE  SettledNow(y)
  BY <1>1 DEF Settled, Agree, SameForward
<1>2. ASSUME NEW x \in Versions, Records(x), creator'[x.id] = "admin"
      PROVE  x.id \in Ids /\ Foreign(x.id) /\ Alive(x.id)
  <2>1. x.id \in Ids /\ creator[x.id] # "none"
    BY <1>2, VersionIsProxyHost DEF Records, Truthful, ProxyHost
  <2> QED BY <1>0, <1>2, <2>1, CreatorStays DEF Foreign, OriginInv
<1>3. ASSUME NEW k \in Keys, ~Records(api'[k]), NEW x \in Seen(k)', Records(x),
             creator'[x.id] = "admin"
      PROVE  SettledNow(x)
  <2>1. x \in Seen(k)
    BY <1>0, <1>3, NewIsStored
  <2>2. x.id \in Ids /\ Foreign(x.id) /\ Alive(x.id)
    BY <1>0, <1>2, <1>3, <2>1, SeenTypes
  <2>3. CASE Records(api[k])
    <3>1. api'[k] = NoObj
      BY <1>0, <1>3, <2>3, RecordEnds DEF Live
    <3>2. Fresh(k) /\ pc = "removeFinalizer" /\ k = req /\ UNCHANGED npm
      BY <1>0, <2>3, <3>1, RemovalResets
    <3>3. x = api[req]
      BY <1>0, <2>1, <3>2, SeenTypes
    <3>4. Settled(x)
      BY <2>2, <2>3, <3>2, <3>3 DEF SettledInv
    <3> QED BY <3>2, <3>4 DEF Settled
  <2>4. CASE ~Records(api[k])
    <3>1. Settled(x)
      BY <1>3, <2>1, <2>2, <2>4 DEF SettledInv
    <3>2. Agree(npm'[x.id], npm[x.id])
      BY <1>3, <2>1, <2>2, <2>4, QuietHost
    <3> QED BY <1>1, <3>1, <3>2
  <2> QED BY <2>3, <2>4
<1>4. ASSUME marked', ~Records(api'[req']), Records(obj'), creator'[obj'.id] = "admin",
             pc' \in (MarkedPCs \ {"refetch", "removeFinalizer"})
                       \cup {"finalizer", "reconciling", "client"}
      PROVE  SettledNow(obj')
  <2>1. CASE pc = "idle"
    <3>1. req' \in Keys /\ obj' = cache'[req']
      BY <1>0, <1>4, <2>1 DEF CopyStep, CopyStays, MarkedPCs
    <3>2. PICK k \in Keys : k = req'
      BY <3>1
    <3>3. obj' \in Seen(k)'
      BY <3>1, <3>2 DEF Seen
    <3> QED BY <1>3, <1>4, <3>2, <3>3
  <2>2. CASE pc # "idle"
    <3>1. UNCHANGED <<req, marked>> /\ marked /\ req \in Keys
      BY <1>0, <1>4, <2>2, MarkedCopy DEF IInv, RequestInv
    <3>2. pc \in (MarkedPCs \ {"refetch", "removeFinalizer"})
                   \cup {"finalizer", "reconciling", "client"}
      <4>1. \/ pc' = pc
            \/ pc \in {"finalizer", "reconciling", "client"}
            \/ RestoreHost \/ ReenableHost \/ DisableHost \/ DeleteHost \/ RefetchLatest
        BY <1>0, <1>4, <2>2, <3>1, MarkedMoves
      <4> QED BY <1>4, <4>1
              DEF MarkedPCs, RestoreHost, ReenableHost, DisableHost, DeleteHost, RefetchLatest
    <3>3. ~Records(api[req])
      BY <1>0, <1>4, <3>1, <3>2, RecordEnds DEF MarkedPCs
    <3>4. CASE obj' = obj
      <4>1. obj.id \in Ids /\ Foreign(obj.id) /\ Alive(obj.id)
        BY <1>0, <1>2, <1>4, <3>4 DEF IInv, RequestInv
      <4>2. Settled(obj)
        BY <1>4, <3>1, <3>2, <3>3, <3>4, <4>1 DEF SettledInv
      <4>3. Agree(npm'[obj.id], npm[obj.id])
        BY <2>2, <3>1, <3>3, <4>1, QuietHost
      <4> QED BY <1>1, <3>4, <4>2, <4>3
    <3>5. ASSUME NEW x \in Seen(req), x # NoObj, Similar(x, obj')
          PROVE  SettledNow(obj')
      <4>1. x.id = obj'.id /\ x.init = obj'.init /\ Records(x)
        BY <1>4, <3>5 DEF Similar, SameRecord, Records
      <4>2. x.id \in Ids /\ Foreign(x.id) /\ Alive(x.id)
        BY <1>0, <1>2, <1>4, <3>1, <3>5, <4>1, SeenTypes
      <4>3. Settled(x)
        BY <3>1, <3>3, <3>5, <4>1, <4>2 DEF SettledInv
      <4>4. Agree(npm'[x.id], npm[x.id])
        BY <3>1, <3>3, <3>5, <4>1, <4>2, QuietHost
      <4> QED BY <1>1, <4>1, <4>3, <4>4
    <3>6. ~(Similar(obj, obj') /\ obj = api[req] /\ obj' = api'[req])
      BY <1>4, <3>1
    <3> QED BY <1>0, <1>4, <2>2, <3>4, <3>5, <3>6, MarkedCopy
  <2> QED BY <2>1, <2>2
<1>5. ASSUME pc' = "reenable", creator'[obj'.id] = "admin"
      PROVE  obj'.init.cfg = npm'[obj'.id].cfg
  <2>1. pc # "idle" /\ marked' /\ UNCHANGED marked
    BY <1>0, <1>5, MarkedCopy DEF CopyStep, CopyStays, WorkerInv, MarkedPCs
  <2>2. RestoreHost \/ (pc = "reenable" /\ UNCHANGED obj)
    BY <1>0, <1>5, <2>1, MarkedMoves
    DEF MarkedPCs, ReenableHost, DisableHost, DeleteHost, RefetchLatest
  <2>3. UNCHANGED obj /\ obj \in Versions /\ Records(obj)
    BY <1>0, <2>1, <2>2 DEF RestoreHost, IInv, RequestInv, PcInv, BranchInv, Records
  <2>4. obj.id \in Ids /\ Foreign(obj.id) /\ Alive(obj.id)
    BY <1>2, <1>5, <2>3
  <2>5. CASE RestoreHost
    BY <1>0, <2>3, <2>4, <2>5, UndoSteps
  <2>6. CASE pc = "reenable"
    <3>1. HostStep(obj.id) /\ obj.init.cfg = npm[obj.id].cfg
      BY <1>0, <2>4, <2>6, HostSteps DEF SettledInv
    <3>2. npm'[obj.id].cfg = npm[obj.id].cfg
      BY <2>6, <3>1 DEF HostStep, SameForward, Updates, Undoes
    <3> QED BY <2>3, <3>1, <3>2
  <2> QED BY <2>2, <2>5, <2>6
<1>6. ASSUME pc' \in {"refetch", "removeFinalizer"}, Records(api'[req']),
             creator'[api'[req'].id] = "admin"
      PROVE  SettledNow(api'[req'])
  <2>1. pc # "idle" /\ marked' /\ UNCHANGED <<req, marked>> /\ marked /\ req \in Keys
    BY <1>0, <1>6, MarkedCopy DEF CopyStep, CopyStays, WorkerInv, MarkedPCs, IInv, RequestInv
  <2>2. pc \in MarkedPCs \cup {"client"}
    BY <1>0, <1>6, <2>1, MarkedMoves
    DEF MarkedPCs, RestoreHost, ReenableHost, DisableHost, DeleteHost, RefetchLatest
  <2>3. Records(api[req]) /\ SameRecord(api'[req], api[req])
    BY <1>0, <1>6, <2>1, <2>2, RecordLasts DEF Saves, MarkedPCs
  <2> DEFINE i == api[req].id
  <2>4. i \in Ids /\ Foreign(i) /\ Alive(i)
    BY <1>0, <1>2, <1>6, <2>1, <2>3, ClusterTypes DEF SameRecord
  <2>5. pc \notin {"refetch", "removeFinalizer"} => SameRecord(obj, api[req]) /\ obj.id = i
    BY <1>0, <2>1, <2>2, <2>3 DEF RemovalInv, MarkedPCs, SameRecord
  <2>6. CASE RestoreHost
    <3>1. /\ npm'[i].cfg = obj.init.cfg /\ ~obj.init.enabled /\ obj.init # NoInit
      BY <1>0, <1>6, <2>4, <2>5, <2>6, UndoSteps DEF RestoreHost, IInv, PcInv
    <3> QED BY <2>1, <2>3, <2>5, <2>6, <3>1 DEF SameRecord, RestoreHost
  <2>7. CASE ReenableHost
    <3>1. /\ npm'[i].cfg = npm[i].cfg /\ npm'[i].enabled = TRUE
          /\ obj.init # NoInit /\ obj.init.cfg = npm[i].cfg
      BY <1>0, <2>4, <2>5, <2>7, UndoSteps DEF ReenableHost, BranchInv, SettledInv
    <3> QED BY <2>1, <2>3, <2>5, <2>7, <3>1 DEF SameRecord, ReenableHost
  <2>8. CASE DisableHost
    <3>1. npm'[i].enabled = FALSE /\ obj.init = NoInit
      BY <1>0, <2>4, <2>5, <2>8, UndoSteps DEF DisableHost, BranchInv
    <3> QED BY <2>1, <2>3, <2>5, <2>8, <3>1 DEF SameRecord, DisableHost
  <2>9. ~DeleteHost
    <3>1. api[req].bound
      BY <1>0, <2>1, <2>3, <2>4, ClusterTypes, VersionIsProxyHost DEF Truthful, Records, Foreign
    <3> QED BY <1>0, <2>5, <3>1 DEF DeleteHost, IInv, PcInv, SameRecord
  <2>10. CASE pc \in {"refetch", "removeFinalizer"}
    <3>1. Settled(api[req]) /\ HostStep(i)
      BY <1>0, <2>3, <2>4, <2>10, HostSteps DEF SettledInv
    <3>2. Agree(npm'[i], npm[i])
      BY <1>6, <2>1, <2>10, <3>1
      DEF HostStep, Agree, SameForward, Updates, Undoes, Records
    <3> QED BY <1>1, <2>1, <2>3, <3>1, <3>2 DEF SameRecord
  <2>11. ~(pc = "client" /\ obj.id = NoId)
    BY <1>0, <2>4, <2>5
  <2> QED
    BY <1>0, <1>6, <2>1, <2>6, <2>7, <2>8, <2>9, <2>10, <2>11, MarkedMoves
    DEF MarkedPCs, RefetchLatest
<1> QED BY <1>3, <1>4, <1>5, <1>6 DEF SettledInv, Settled, Records, Foreign

\* At first a legacy resource records the one host there is.
LEMMA InitRestoreInv ==
  ASSUME Init, \A s \in Specs : s.doms # {}
  PROVE  RestoreInv
<1>1. AdoptInv /\ IInv
  BY InitAdoptInv DEF AdoptInv, SharedInv, FInv
<1>0. 1 \in Ids /\ NoId \notin Ids
  BY MaxHostsAssumption, NullsAssumption DEF Ids
<1>2. pc = "idle" /\ watch = [k \in Keys |-> << >>]
  BY DEF Init, InitCluster
<1>3. \A k \in Keys : Seen(k) = {api[k]}
  BY <1>1, <1>2, SeenTypes DEF Fresh
<1>4. BranchInv /\ SettledInv
  BY <1>2, <1>3 DEF BranchInv, SettledInv, MarkedPCs
<1>5. CASE LegacyKey = NoKey
  BY <1>1, <1>2, <1>4, <1>5
  DEF Init, InitCluster, RestoreInv, DisjointInv, Alive, OriginInv, Foreign, InitialInv, HostPCs,
      Records
<1>6. CASE LegacyKey # NoKey
  <2>1. PICK s \in Specs, h \in ForeignHosts :
          /\ api = [k \in Keys |-> IF k = LegacyKey THEN LegacyObject(s) ELSE NoObj]
          /\ npm = [i \in Ids |-> IF i = 1 THEN [h EXCEPT !.doms = s.doms, !.cfg = s.cfg]
                                  ELSE NoHost]
          /\ orig = [i \in Ids |-> IF i = 1 THEN h ELSE NoHost]
          /\ creator = [i \in Ids |-> IF i = 1 THEN "admin" ELSE "none"]
    BY <1>6 DEF Init, InitCluster
  <2>2. npm[1] \in Host
    <3>1. h \in Host /\ s \in ProxyHostSpec /\ npm[1] = [h EXCEPT !.doms = s.doms, !.cfg = s.cfg]
      BY <1>0, <2>1, ConstantsAssumption
    <3> QED BY <3>1 DEF Host, ProxyHostSpec
  <2>3. \A i \in Ids : (Alive(i) => i = 1) /\ (Foreign(i) <=> i = 1) /\ (orig[i] # NoHost => i = 1)
    BY <2>1 DEF Alive, Foreign
  <2>4. Alive(1) /\ creator[1] # "none"
    BY <1>0, <2>1, <2>2, NullsAssumption DEF Alive
  <2>5. LegacyKey \in Keys /\ Records(api[LegacyKey]) /\ api[LegacyKey].id = 1
    <3>1. LegacyKey \in Keys
      BY <1>6, ConstantsAssumption
    <3>2. api[LegacyKey] \in Versions /\ api[LegacyKey].id = 1
      BY <1>1, <2>1, <3>1, ClusterTypes DEF LegacyObject
    <3>3. api[LegacyKey] # NoObj
      <4>1. LegacyObject(s) \in ProxyHost
        BY <1>0, ConstantsAssumption DEF LegacyObject, ProxyHost, ConditionTypes
      <4> QED BY <2>1, <3>1, <4>1, NullsAssumption
    <3> QED BY <1>0, <3>1, <3>2, <3>3 DEF Records
  <2>6. DisjointInv
    BY <2>3 DEF DisjointInv
  <2>7. OriginInv
    BY <1>2, <2>3, <2>4, <2>5 DEF OriginInv, Held
  <2>8. InitialInv
    BY <1>2, <2>1 DEF InitialInv, HostPCs, Records, LegacyObject
  <2> QED BY <1>1, <1>4, <2>6, <2>7, <2>8 DEF RestoreInv
<1> QED BY <1>5, <1>6

\* Every step keeps the invariant.
LEMMA NextRestoreInv ==
  ASSUME Calm, \A s \in Specs : s.doms # {}, RestoreInv, [Next]_vars
  PROVE  RestoreInv'
<1>1. AdoptInv' /\ FInv' /\ SharedInv
  BY NextAdoptInv DEF RestoreInv, AdoptInv, SharedInv
<1>2. DisjointInv' /\ BranchInv'
  BY <1>1, DisjointKept, BranchKept DEF RestoreInv, SharedInv, FInv
<1>3. OriginInv' /\ InitialInv' /\ SettledInv'
  BY <1>1, OriginKept, InitialKept, SettledKept DEF RestoreInv
<1> QED BY <1>1, <1>2, <1>3 DEF RestoreInv

\* The initial configuration in a status is what the administrator's host was
\* before the operator wrote to it, whichever resource had adopted the host
\* before and whatever is stale, as long as nothing disturbs a host between its
\* look-up and its first update.  createOrUpdateProxyHost switches the host on
\* before it prepares the update, so that a missing Service makes the retry
\* capture an enabled host; an administrator who switches the host off after
\* the look-up makes the captured value stale.
THEOREM OriginalIsRecorded ==
  ASSUME Calm, Steady, \A s \in Specs : s.doms # {}
  PROVE  Spec => []InitialConfigIsOriginal
<1>1. Init => RestoreInv
  BY InitRestoreInv
<1>2. RestoreInv /\ [Next]_vars => RestoreInv'
  BY NextRestoreInv
<1>3. RestoreInv => InitialConfigIsOriginal
  <2> SUFFICES ASSUME RestoreInv, NEW k \in Keys, Records(api[k]), api[k].init # NoInit,
                      Foreign(api[k].id), orig[api[k].id] # NoHost
               PROVE  api[k].init = CaptureInitialConfiguration(orig[api[k].id])
    BY DEF InitialConfigIsOriginal, Records, Live, Foreign
  <2>1. Agree(api[k].init, orig[api[k].id])
    BY DEF RestoreInv, InitialInv, Original
  <2>2. api[k].init \in InitialConfiguration
    BY ClusterTypes, VersionIsProxyHost
    DEF RestoreInv, AdoptInv, SharedInv, FInv, Records, ProxyHost
  <2> QED BY <2>1, <2>2
          DEF Agree, SameForward, CaptureInitialConfiguration, InitialConfiguration
<1> QED BY <1>1, <1>2, <1>3, PTL DEF Spec

\* When a resource goes that bound a host, with its initial configuration
\* stored, the host forwards as it did before the operator wrote to it.  The
\* finalizer that starts over, since the cache still shows a resource that is
\* gone, writes what is there already.  If an answer of NPM is lost, or the
\* process dies, between the first update and the status write, the retry
\* captures what the operator wrote, and the finalizer gives that back.
THEOREM ForwardIsRestored ==
  ASSUME Calm, \A s \in Specs : s.doms # {}
  PROVE  Spec => OriginalForwardRestored
<1>1. Init => RestoreInv
  BY InitRestoreInv
<1>2. RestoreInv /\ [Next]_vars => RestoreInv'
  BY NextRestoreInv
<1>3. RestoreInv /\ [Next]_vars =>
        [\A k \in Keys :
           Live(k) /\ api'[k] = NoObj /\ api[k].id # NoId /\ api[k].bound /\ api[k].init # NoInit =>
             LET i == api[k].id
             IN  Alive(i) /\ orig[i] # NoHost =>
                   npm[i].doms = orig[i].doms /\ npm[i].cfg = orig[i].cfg]_vars
  <2> SUFFICES ASSUME RestoreInv, [Next]_vars, NEW k \in Keys, Live(k), api'[k] = NoObj,
                      api[k].id # NoId, api[k].bound, api[k].init # NoInit,
                      Alive(api[k].id), orig[api[k].id] # NoHost
               PROVE  LET i == api[k].id
                      IN  npm[i].doms = orig[i].doms /\ npm[i].cfg = orig[i].cfg
    OBVIOUS
  <2> DEFINE i == api[k].id
  <2>0. SharedInv /\ FInv /\ IInv /\ Records(api[k]) /\ BoundMeansAdopted
    BY DEF RestoreInv, AdoptInv, SharedInv, FInv, Records, Live
  <2>1. i \in Ids /\ Foreign(i) /\ api[k] \in Seen(k)
    BY <2>0, RecordIsCreated, SeenTypes DEF BoundMeansAdopted, Foreign, Live
  <2>2. pc = "removeFinalizer" /\ k = req
    BY <2>0, OnlyFinalizerRemoves
  <2>3. Agree(api[k].init, orig[i])
    BY <2>0, <2>1 DEF RestoreInv, InitialInv, Original
  <2>4. api[k].init.cfg = npm[i].cfg
    BY <2>0, <2>1, <2>2 DEF RestoreInv, SettledInv, Settled
  <2>5. api[k].init.doms = npm[i].doms
    BY <2>0, <2>1 DEF SharedInv, CaptureInv, ClaimInv, Claims, Records
  <2> QED BY <2>3, <2>4, <2>5 DEF Agree, SameForward
<1> QED BY <1>1, <1>2, <1>3, PTL DEF Spec, OriginalForwardRestored
==============================================================================
