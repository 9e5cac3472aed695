--------------------------- MODULE ProxyHostController ---------------------------
(***************************************************************************)
(* internal/controller/proxyhost: one worker goroutine that drives the     *)
(* proxy hosts of a Nginx Proxy Manager (NPM) instance towards the         *)
(* ProxyHost resources of the cluster.  Reconcile is a sequence of calls   *)
(* to the API server and to NPM; each call is one action here, so that     *)
(* users, NPM administrators, the watch and a crash interleave with it.    *)
(***************************************************************************)
EXTENDS ControllerHelpers, FiniteSets

CONSTANTS Domains,            \* domain names
          Cfgs,               \* forward, TLS, location... settings of a host
          Upstreams,          \* upstream blocks (unscoped_config), one is "none"
          Specs,              \* the specs users may write
          ForeignHosts,       \* the hosts an administrator may create in NPM
          NoId, NoHost, NoInit,
          MaxHosts,           \* bound: hosts ever created in NPM
          MaxOps,             \* bound: user and administrator operations
          UserOps,            \* the kinds of operations of an instance
          RejectDuplicates,   \* NPM refuses a host whose domain is taken
          UnscopedSupported,  \* NPM reports the unscoped_config field
          DefaultCfg,         \* the CRD's defaults put in place of false flags
          LegacyKey           \* a ProxyHost bound by an older release, or NoKey

ASSUME MaxHostsAssumption == MaxHosts \in Nat \ {0}

ASSUME MaxOpsAssumption == MaxOps \in Nat

Ids == 1 .. MaxHosts

ProxyHostSpec == [doms: SUBSET Domains, cfg: Cfgs, upstream: Upstreams, bindExisting: BOOLEAN]

Host == [doms: SUBSET Domains, cfg: Cfgs, unscoped: Upstreams, enabled: BOOLEAN]

InitialConfiguration == [doms: SUBSET Domains, cfg: Cfgs, enabled: BOOLEAN]

ConditionTypes == {"Reconciling", "Error", "Ready"}

ProxyHost ==
  [spec: ProxyHostSpec, deleting: BOOLEAN, fin: BOOLEAN, id: Ids \cup {NoId}, bound: BOOLEAN,
   init: InitialConfiguration \cup {NoInit}, conds: SUBSET ConditionTypes]

ASSUME ConstantsAssumption ==
  /\ Specs \subseteq ProxyHostSpec
  /\ ForeignHosts \subseteq Host
  /\ "none" \in Upstreams
  /\ DefaultCfg \in [Cfgs -> Cfgs]
  /\ RejectDuplicates \in BOOLEAN
  /\ UnscopedSupported \in BOOLEAN
  /\ LegacyKey \in Keys \cup {NoKey}

ASSUME NullsAssumption ==
  /\ NoObj \notin ProxyHost
  /\ NoHost \notin Host
  /\ NoInit \notin InitialConfiguration
  /\ NoId \notin Nat

VARIABLES pc,        \* where Reconcile is
          marked,    \* isMarkedToBeDeleted
          host,      \* proxyHost.ID found in or created by NPM, or NoId
          bound,     \* the local variable bound
          captured,  \* capturedInitialConfig
          npm,       \* npm[i]: the proxy host with id i in NPM, or NoHost
          nextId,    \* NPM never reuses an id
          ops,       \* user and administrator operations so far
          creator,   \* history: who created host i
          orig       \* history: host i before the first write of the operator
                     \* since the last resource that recorded it was removed

localVars == <<pc, marked, host, bound, captured>>
npmVars   == <<npm, nextId, creator, orig>>
vars == <<kubeVars, helperVars, localVars, npmVars, ops>>

PCs == {"idle", "finalizer", "reconciling", "client", "restore", "reenable", "disable",
        "delete", "refetch", "removeFinalizer", "unique", "find", "enable", "prepare",
        "update", "create", "followUp", "save", "ready", "fail", "done", "requeue"}

Creators == {"none", "admin", "operator"}
-----------------------------------------------------------------------------
(* NPM's REST interface, as pkg/nginxpm/proxy_host.go calls it.             *)

Alive(i) == npm[i] # NoHost

\* NPM answers 4xx when another host already serves one of the domains.
Taken(doms, i) ==
  RejectDuplicates /\ \E j \in Ids \ {i} : Alive(j) /\ npm[j].doms \cap doms # {}

\* The operator is about to write host i: remember what it was before.
Touch(i) == orig' = [orig EXCEPT ![i] = IF @ = NoHost THEN npm[i] ELSE @]

\* buildProxyHostRequestBody: unscoped_config is only part of the body when
\* the caller found the field supported; "enabled" never is.
Body(doms, cfg, unscoped) == [doms |-> doms, cfg |-> cfg, unscoped |-> unscoped]

Put(i, body) ==
  /\ npm' = [npm EXCEPT ![i] = [@ EXCEPT !.doms = body.doms, !.cfg = body.cfg,
                                         !.unscoped = body.unscoped]]
  /\ Touch(i)
  /\ UNCHANGED <<nextId, creator>>

\* UpdateProxyHost: accepted; refused (404 or a taken domain); the request
\* fails; or it is applied and the answer is lost.
UpdateProxyHost(i, body, ok) ==
  \/ ok /\ Alive(i) /\ ~Taken(body.doms, i) /\ Put(i, body) /\ UNCHANGED faults
  \/ ~ok /\ (~Alive(i) \/ Taken(body.doms, i)) /\ UNCHANGED <<npmVars, faults>>
  \/ ~ok /\ Fault("npm") /\ UNCHANGED npmVars
  \/ ~ok /\ Alive(i) /\ ~Taken(body.doms, i) /\ Put(i, body) /\ Fault("lost")

Post(body) ==
  /\ nextId \in Ids
  /\ npm' = [npm EXCEPT ![nextId] = [doms |-> body.doms, cfg |-> body.cfg,
                                     unscoped |-> body.unscoped, enabled |-> TRUE]]
  /\ nextId' = nextId + 1
  /\ creator' = [creator EXCEPT ![nextId] = "operator"]
  /\ UNCHANGED orig

CreateProxyHost(body, ok) ==
  \/ ok /\ ~Taken(body.doms, NoId) /\ Post(body) /\ UNCHANGED faults
  \/ ~ok /\ Taken(body.doms, NoId) /\ UNCHANGED <<npmVars, faults>>
  \/ ~ok /\ Fault("npm") /\ UNCHANGED npmVars
  \/ ~ok /\ ~Taken(body.doms, NoId) /\ Post(body) /\ Fault("lost")

SetEnabled(i, b) ==
  IF npm[i].enabled = b
  THEN UNCHANGED npmVars
  ELSE /\ npm' = [npm EXCEPT ![i].enabled = b]
       /\ Touch(i)
       /\ UNCHANGED <<nextId, creator>>

\* EnableProxyHost and DisableProxyHost look the host up first and
\* dereference the result: a host that is gone makes them panic.  Their
\* errors are ignored by every caller.
EnableProxyHost(i, panics) ==
  \/ ~panics /\ Alive(i) /\ SetEnabled(i, TRUE) /\ UNCHANGED faults
  \/ ~panics /\ Fault("npm") /\ UNCHANGED npmVars
  \/ panics /\ ~Alive(i) /\ UNCHANGED <<npmVars, faults>>

DisableProxyHost(i, panics) ==
  \/ ~panics /\ Alive(i) /\ SetEnabled(i, FALSE) /\ UNCHANGED faults
  \/ ~panics /\ Fault("npm") /\ UNCHANGED npmVars
  \/ panics /\ ~Alive(i) /\ UNCHANGED <<npmVars, faults>>

\* Mutant: the host is switched off, not deleted.
DeleteProxyHostKeeps(i) ==
  /\ IF Alive(i) THEN SetEnabled(i, FALSE) ELSE UNCHANGED npmVars
  /\ UNCHANGED faults

\* DeleteProxyHost: a host that is gone is not an error, and the caller only
\* logs errors.
DeleteProxyHost(i) ==
  \/ /\ npm' = [npm EXCEPT ![i] = NoHost]
     /\ UNCHANGED <<nextId, creator, orig, faults>>
  \/ Fault("npm") /\ UNCHANGED npmVars
-----------------------------------------------------------------------------
(* initial_config.go                                                        *)

\* Mutant: NPM's record is stored as it is.
CaptureWholeHost(h) == h

CaptureInitialConfiguration(h) == [doms |-> h.doms, cfg |-> h.cfg, enabled |-> h.enabled]

ShouldCaptureInitialConfig(o) == o.spec.bindExisting /\ o.init = NoInit

ShouldRestoreInitialConfig(o) == o.bound /\ o.init # NoInit

\* Mutant: the domains are given back, the settings are not.
RestoreDomainsOnly(init, i) ==
  Body(init.doms, IF Alive(i) THEN npm[i].cfg ELSE init.cfg,
       IF Alive(i) THEN npm[i].unscoped ELSE "none")

\* Nothing is sent for unscoped_config: NPM keeps what the host has.
BuildRestorationInput(init, i) ==
  Body(init.doms, init.cfg, IF Alive(i) THEN npm[i].unscoped ELSE "none")
-----------------------------------------------------------------------------
(* Reconcile                                                                *)

SetCondition(o, type) == [o EXCEPT !.conds = @ \cup {type}]

\* A ProxyHost that r.Update sends: bindExisting, blockExploits, sslForced...
\* are encoded with omitempty, so a false one is left out and the server puts
\* the CRD's default, true, in its place.
Encoded(o) == [o EXCEPT !.spec.bindExisting = TRUE, !.spec.cfg = DefaultCfg[@]]

\* r.Get: a key whose object is not in the cache is dropped.
Dequeue(k) ==
  /\ pc = "idle"
  /\ k \in queue
  /\ queue' = queue \ {k}
  /\ IF cache[k] = NoObj
     THEN UNCHANGED <<req, obj, fresh, marked, pc>>
     ELSE /\ GetObject(k)
          /\ req' = k
          /\ marked' = cache[k].deleting
          /\ pc' = "finalizer"
  /\ UNCHANGED <<api, cache, watch, faults, host, bound, captured, npmVars, ops>>

EnsureFinalizer ==
  /\ pc = "finalizer"
  /\ \/ /\ marked
        /\ pc' = "reconciling"
        /\ UNCHANGED <<api, watch, obj, fresh, faults>>
     \/ /\ ~marked
        /\ \E ok \in BOOLEAN :
             /\ AddFinalizer(Encoded(api[req]), ok)
             /\ pc' = IF ok THEN "reconciling" ELSE "requeue"
  /\ UNCHANGED <<cache, queue, req, marked, host, bound, captured, npmVars, ops>>

MarkReconciling ==
  /\ pc = "reconciling"
  /\ pc' = "client"
  /\ IF obj.conds = {}
     THEN \E ok \in BOOLEAN : UpdateStatus(SetCondition(cache[req], "Reconciling"), ok)
     ELSE UNCHANGED <<api, watch, obj, fresh, faults>>
  /\ UNCHANGED <<cache, queue, req, marked, host, bound, captured, npmVars, ops>>

\* Mutant: a resource that asked for binding never deletes its host.
FinalizerTrustsSpec(o) ==
  CASE o.id = NoId -> "refetch"
    [] o.id # NoId /\ ShouldRestoreInitialConfig(o) -> "restore"
    [] o.id # NoId /\ ~ShouldRestoreInitialConfig(o) /\ o.spec.bindExisting -> "disable"
    [] o.id # NoId /\ ~ShouldRestoreInitialConfig(o) /\ ~o.spec.bindExisting -> "delete"

\* What the finalizer does to the host in NPM.
FinalizerOperation(o) ==
  CASE o.id = NoId -> "refetch"
    [] o.id # NoId /\ ShouldRestoreInitialConfig(o) -> "restore"
    [] o.id # NoId /\ ~ShouldRestoreInitialConfig(o) /\ o.bound -> "disable"
    [] o.id # NoId /\ ~o.bound -> "delete"

\* Without a client a marked resource goes straight to the finalizer removal.
InitNginxPMClient ==
  /\ pc = "client"
  /\ \/ /\ marked
        /\ pc' = IF obj.fin THEN FinalizerOperation(obj) ELSE "done"
        /\ UNCHANGED faults
     \/ ~marked /\ pc' = "unique" /\ UNCHANGED faults
     \/ marked /\ Fault("token") /\ pc' = "refetch"
     \/ ~marked /\ Fault("token") /\ pc' = "fail"
  /\ UNCHANGED <<kubeVars, req, obj, fresh, marked, host, bound, captured, npmVars, ops>>

RestoreHost ==
  /\ pc = "restore"
  /\ \E ok \in BOOLEAN : UpdateProxyHost(obj.id, BuildRestorationInput(obj.init, obj.id), ok)
  /\ pc' = IF obj.init.enabled THEN "reenable" ELSE "refetch"
  /\ UNCHANGED <<kubeVars, req, obj, fresh, marked, host, bound, captured, ops>>

ReenableHost ==
  /\ pc = "reenable"
  /\ \E panics \in BOOLEAN :
       /\ EnableProxyHost(obj.id, panics)
       /\ pc' = IF panics THEN "requeue" ELSE "refetch"
  /\ UNCHANGED <<kubeVars, req, obj, fresh, marked, host, bound, captured, ops>>

DisableHost ==
  /\ pc = "disable"
  /\ \E panics \in BOOLEAN :
       /\ DisableProxyHost(obj.id, panics)
       /\ pc' = IF panics THEN "requeue" ELSE "refetch"
  /\ UNCHANGED <<kubeVars, req, obj, fresh, marked, host, bound, captured, ops>>

DeleteHost ==
  /\ pc = "delete"
  /\ DeleteProxyHost(obj.id)
  /\ pc' = "refetch"
  /\ UNCHANGED <<kubeVars, req, obj, fresh, marked, host, bound, captured, ops>>

\* latestPh is read again just before the finalizer is removed.
RefetchLatest ==
  /\ pc = "refetch"
  /\ IF cache[req] = NoObj
     THEN pc' = "done" /\ UNCHANGED <<obj, fresh>>
     ELSE pc' = "removeFinalizer" /\ GetObject(req)
  /\ UNCHANGED <<kubeVars, req, faults, marked, host, bound, captured, npmVars, ops>>

DropFinalizer ==
  /\ pc = "removeFinalizer"
  /\ \E ok \in BOOLEAN :
       /\ RemoveFinalizer(Encoded(api[req]), ok)
       /\ pc' = IF ok THEN "done" ELSE "requeue"
  /\ orig' = IF api[req] # NoObj /\ api'[req] = NoObj /\ api[req].id # NoId
             THEN [orig EXCEPT ![api[req].id] = NoHost] ELSE orig
  /\ UNCHANGED <<cache, queue, req, marked, host, bound, captured, npm, nextId, creator, ops>>

\* Mutant: a resource that is being deleted is not in the way.
DomainsUniqueAmongKept(k, o) ==
  \A j \in Keys \ {k} :
    cache[j] # NoObj /\ ~cache[j].deleting => cache[j].spec.doms \cap o.spec.doms = {}

\* domainsShouldBeUnique: no other resource in the cache has one of the domains.
DomainsUnique(k, o) ==
  \A j \in Keys \ {k} : cache[j] # NoObj => cache[j].spec.doms \cap o.spec.doms = {}

CheckDomains ==
  /\ pc = "unique"
  /\ pc' = IF DomainsUnique(req, obj) THEN "find" ELSE "fail"
  /\ UNCHANGED <<kubeVars, req, obj, fresh, faults, marked, host, bound, captured,
                 npmVars, ops>>

\* The next step of createOrUpdateProxyHost once it has looked for host i.
AfterFind(i) == IF i # NoId /\ ~npm[i].enabled THEN "enable" ELSE "prepare"

\* Mutant: the initial configuration is captured again at every look-up.
FindHostByIDRecaptures ==
  /\ pc = "find"
  /\ obj.id # NoId
  /\ bound' = obj.bound
  /\ host' = IF Alive(obj.id) THEN obj.id ELSE NoId
  /\ captured' = IF Alive(obj.id) /\ obj.bound
                 THEN CaptureInitialConfiguration(npm[obj.id]) ELSE obj.init
  /\ pc' = AfterFind(host')
  /\ UNCHANGED <<kubeVars, req, obj, fresh, faults, marked, npmVars, ops>>

\* FindProxyHostByID when the status records an id.
FindHostByID ==
  /\ pc = "find"
  /\ obj.id # NoId
  /\ bound' = obj.bound
  /\ \/ /\ host' = IF Alive(obj.id) THEN obj.id ELSE NoId
        /\ captured' = obj.init
        /\ pc' = AfterFind(host')
        /\ UNCHANGED faults
     \/ /\ Fault("npm")
        /\ pc' = "fail"
        /\ UNCHANGED <<host, captured>>
  /\ UNCHANGED <<kubeVars, req, obj, fresh, marked, npmVars, ops>>

\* domainsMatch: FindProxyHostByDomain wants the same domains.
MatchingHosts(doms) == {i \in Ids : Alive(i) /\ npm[i].doms = doms}

\* Mutant: bound keeps the value of the status.
BindExistingUnmarked ==
  /\ pc = "find"
  /\ obj.id = NoId
  /\ obj.spec.bindExisting
  /\ \E i \in MatchingHosts(obj.spec.doms) :
       /\ host' = i
       /\ captured' = CaptureInitialConfiguration(npm[i])
       /\ pc' = AfterFind(i)
  /\ bound' = obj.bound
  /\ UNCHANGED <<kubeVars, req, obj, fresh, faults, marked, npmVars, ops>>

\* Binding: the host is adopted and its configuration captured.
BindExisting ==
  /\ pc = "find"
  /\ obj.id = NoId
  /\ obj.spec.bindExisting
  /\ \E i \in MatchingHosts(obj.spec.doms) :
       /\ host' = i
       /\ bound' = TRUE
       /\ captured' = IF ShouldCaptureInitialConfig(obj)
                      THEN CaptureInitialConfiguration(npm[i]) ELSE NoInit
       /\ pc' = AfterFind(i)
  /\ UNCHANGED <<kubeVars, req, obj, fresh, faults, marked, npmVars, ops>>

\* Nothing to bind to: not asked for, no match, or the search failed (its
\* error is ignored).
NothingToBind ==
  /\ pc = "find"
  /\ obj.id = NoId
  /\ host' = NoId
  /\ bound' = obj.bound
  /\ captured' = NoInit
  /\ pc' = "prepare"
  /\ \/ (~obj.spec.bindExisting \/ MatchingHosts(obj.spec.doms) = {}) /\ UNCHANGED faults
     \/ obj.spec.bindExisting /\ Fault("npm")
  /\ UNCHANGED <<kubeVars, req, obj, fresh, marked, npmVars, ops>>

EnableHost ==
  /\ pc = "enable"
  /\ \E panics \in BOOLEAN :
       /\ EnableProxyHost(host, panics)
       /\ pc' = IF panics THEN "requeue" ELSE "prepare"
  /\ UNCHANGED <<kubeVars, req, obj, fresh, marked, host, bound, captured, ops>>

\* makeForward, makeCertificate, getAccessListByReference and
\* constructCustomLocation only read, and each may fail (specs with
\* autoCertificateRequest, which request a certificate here, are left out).
PrepareInput ==
  /\ pc = "prepare"
  /\ \/ pc' = (IF host # NoId THEN "update" ELSE "create") /\ UNCHANGED faults
     \/ pc' = "fail" /\ Fault("prepare")
  /\ UNCHANGED <<kubeVars, req, obj, fresh, marked, host, bound, captured, npmVars, ops>>

\* Mutant: the update sends what the creation sent.
UpdateInputWithoutUpstream(o, i) == Body(o.spec.doms, o.spec.cfg, "none")

\* The upstream block needs the unscoped_config field, which NPM reports only
\* on a host that exists: the input of a creation never has it.
UpdateInput(o, i) ==
  Body(o.spec.doms, o.spec.cfg,
       IF UnscopedSupported THEN o.spec.upstream ELSE IF Alive(i) THEN npm[i].unscoped ELSE "none")

CreateInput(o) == Body(o.spec.doms, o.spec.cfg, "none")

UpdateHost ==
  /\ pc = "update"
  /\ \E ok \in BOOLEAN :
       /\ UpdateProxyHost(host, UpdateInput(obj, host), ok)
       /\ pc' = IF ok THEN "save" ELSE "fail"
  /\ UNCHANGED <<kubeVars, req, obj, fresh, marked, host, bound, captured, ops>>

CreateHost ==
  /\ pc = "create"
  /\ \E ok \in BOOLEAN :
       /\ CreateProxyHost(CreateInput(obj), ok)
       /\ pc' = IF ok THEN "followUp" ELSE "fail"
       /\ host' = IF ok THEN nextId ELSE NoId
  /\ UNCHANGED <<kubeVars, req, obj, fresh, marked, bound, captured, ops>>

\* The update that follows every creation sends the same input; its result
\* is ignored.
FollowUp ==
  /\ pc = "followUp"
  /\ \E ok \in BOOLEAN : UpdateProxyHost(host, CreateInput(obj), ok)
  /\ pc' = "save"
  /\ UNCHANGED <<kubeVars, req, obj, fresh, marked, host, bound, captured, ops>>

\* Mutant: Bound is not written.
RecordedWithoutBound(o) == [o EXCEPT !.id = host,
                                     !.init = IF captured # NoInit THEN captured ELSE @]

\* The status written at the end of createOrUpdateProxyHost.
Recorded(o) == [o EXCEPT !.id = host, !.bound = bound,
                         !.init = IF captured # NoInit THEN captured ELSE @]

SaveStatus ==
  /\ pc = "save"
  /\ \E ok \in BOOLEAN :
       /\ UpdateStatus(Recorded(cache[req]), ok)
       /\ pc' = IF ok THEN "ready" ELSE "fail"
  /\ UNCHANGED <<cache, queue, req, marked, host, bound, captured, npmVars, ops>>

\* The last status write of a reconciliation; its result is ignored.
MarkReady ==
  /\ pc = "ready"
  /\ \E ok \in BOOLEAN : UpdateStatus(SetCondition(cache[req], "Ready"), ok)
  /\ pc' = "done"
  /\ UNCHANGED <<cache, queue, req, marked, host, bound, captured, npmVars, ops>>

MarkError ==
  /\ pc = "fail"
  /\ \E ok \in BOOLEAN : UpdateStatus(SetCondition(cache[req], "Error"), ok)
  /\ pc' = "requeue"
  /\ UNCHANGED <<cache, queue, req, marked, host, bound, captured, npmVars, ops>>

Reset ==
  /\ pc' = "idle"
  /\ req' = NoKey
  /\ obj' = NoObj
  /\ fresh' = FALSE
  /\ marked' = FALSE
  /\ host' = NoId
  /\ bound' = FALSE
  /\ captured' = NoInit

\* Mutant: only watch events queue a key again.
ReturnWithoutRequeue ==
  /\ pc \in {"done", "requeue"}
  /\ Reset
  /\ UNCHANGED <<api, cache, watch, queue, faults, npmVars, ops>>

\* Reconcile returns; an error, a panic or RequeueAfter queues the key again.
Return ==
  /\ pc \in {"done", "requeue"}
  /\ queue' = IF pc = "requeue" THEN queue \cup {req} ELSE queue
  /\ Reset
  /\ UNCHANGED <<api, cache, watch, faults, npmVars, ops>>
-----------------------------------------------------------------------------
(* The environment                                                          *)

Op(kind) ==
  /\ kind \in UserOps
  /\ ops < MaxOps
  /\ ops' = ops + 1

NewObject(s) ==
  [spec |-> s, deleting |-> FALSE, fin |-> FALSE, id |-> NoId, bound |-> FALSE,
   init |-> NoInit, conds |-> {}]

\* A user's write makes the copy the worker holds of that key stale.
UserWrite(k, v) ==
  /\ v # api[k]
  /\ Publish(k, v)
  /\ fresh' = (fresh /\ req # k)
  /\ UNCHANGED <<cache, queue, req, obj, faults, localVars, npmVars>>

UserCreate(k) ==
  /\ Op("create")
  /\ api[k] = NoObj
  /\ \E s \in Specs : UserWrite(k, NewObject(s))

UserEdit(k) ==
  /\ Op("edit")
  /\ api[k] # NoObj
  /\ \E s \in Specs : UserWrite(k, [api[k] EXCEPT !.spec = s])

UserDelete(k) ==
  /\ Op("delete")
  /\ api[k] # NoObj
  /\ ~api[k].deleting
  /\ UserWrite(k, IF api[k].fin THEN [api[k] EXCEPT !.deleting = TRUE] ELSE NoObj)

\* A watched Service, Pod, certificate or access list changed, or the cache
\* was resynchronised: findObjectsForMap queues the resource again.
Trigger(k) ==
  /\ "trigger" \in UserOps
  /\ cache[k] # NoObj
  /\ queue' = queue \cup {k}
  /\ UNCHANGED <<api, cache, watch, helperVars, localVars, npmVars, ops>>

AdminCreate ==
  /\ Op("adminCreate")
  /\ nextId \in Ids
  /\ \E h \in ForeignHosts :
       /\ ~Taken(h.doms, NoId)
       /\ npm' = [npm EXCEPT ![nextId] = h]
  /\ nextId' = nextId + 1
  /\ creator' = [creator EXCEPT ![nextId] = "admin"]
  /\ UNCHANGED <<kubeVars, helperVars, localVars, orig>>

AdminRemove(i) ==
  /\ Op("adminRemove")
  /\ Alive(i)
  /\ npm' = [npm EXCEPT ![i] = NoHost]
  /\ UNCHANGED <<kubeVars, helperVars, localVars, nextId, creator, orig>>

AdminDisable(i) ==
  /\ Op("adminDisable")
  /\ Alive(i)
  /\ npm[i].enabled
  /\ npm' = [npm EXCEPT ![i].enabled = FALSE]
  /\ UNCHANGED <<kubeVars, helperVars, localVars, nextId, creator, orig>>

\* The operator's process ends and another one starts.
Crash ==
  /\ Fault("crash")
  /\ Relist
  /\ Reset
  /\ UNCHANGED <<npmVars, ops>>

WatchEvent(k) ==
  /\ Deliver(k)
  /\ UNCHANGED <<helperVars, localVars, npmVars, ops>>
-----------------------------------------------------------------------------
\* A resource an older release bound: no initial configuration was stored.
LegacyObject(s) ==
  [spec |-> s, deleting |-> FALSE, fin |-> TRUE, id |-> 1, bound |-> TRUE,
   init |-> NoInit, conds |-> {"Ready"}]

InitCluster(a, n, o, c, next) ==
  /\ api = a
  /\ cache = a
  /\ watch = [k \in Keys |-> << >>]
  /\ queue = {k \in Keys : a[k] # NoObj}
  /\ npm = n
  /\ orig = o
  /\ creator = c
  /\ nextId = next

Init ==
  /\ \/ /\ LegacyKey = NoKey
        /\ InitCluster([k \in Keys |-> NoObj], [i \in Ids |-> NoHost],
                       [i \in Ids |-> NoHost], [i \in Ids |-> "none"], 1)
     \/ /\ LegacyKey # NoKey
        /\ \E s \in Specs, h \in ForeignHosts :
             InitCluster(
               [k \in Keys |-> IF k = LegacyKey THEN LegacyObject(s) ELSE NoObj],
               [i \in Ids |-> IF i = 1 THEN [h EXCEPT !.doms = s.doms, !.cfg = s.cfg]
                                       ELSE NoHost],
               [i \in Ids |-> IF i = 1 THEN h ELSE NoHost],
               [i \in Ids |-> IF i = 1 THEN "admin" ELSE "none"], 2)
  /\ pc = "idle" /\ req = NoKey /\ obj = NoObj /\ fresh = FALSE /\ marked = FALSE
  /\ host = NoId /\ bound = FALSE /\ captured = NoInit
  /\ faults = 0 /\ ops = 0

Reconcile ==
  \/ EnsureFinalizer \/ MarkReconciling \/ InitNginxPMClient
  \/ RestoreHost \/ ReenableHost \/ DisableHost \/ DeleteHost \/ RefetchLatest \/ DropFinalizer
  \/ CheckDomains \/ FindHostByID \/ BindExisting \/ NothingToBind \/ EnableHost
  \/ PrepareInput \/ UpdateHost \/ CreateHost \/ FollowUp
  \/ SaveStatus \/ MarkReady \/ MarkError \/ Return

Environment ==
  \/ \E k \in Keys : UserCreate(k) \/ UserEdit(k) \/ UserDelete(k) \/ Trigger(k)
  \/ AdminCreate
  \/ \E i \in Ids : AdminRemove(i) \/ AdminDisable(i)
  \/ Crash

Next ==
  \/ \E k \in Keys : Dequeue(k) \/ WatchEvent(k)
  \/ Reconcile
  \/ Environment

Spec == Init /\ [][Next]_vars

(* The goroutine of the worker runs, watch events arrive, and the work queue *)
(* is first in first out, so no queued key is passed over for ever.  Nothing *)
(* is assumed of users, administrators or Trigger, and faults are finitely   *)
(* many by MaxFaults.                                                        *)
Fairness ==
  /\ WF_vars(Reconcile)
  /\ \A k \in Keys : WF_vars(WatchEvent(k)) /\ SF_vars(Dequeue(k))

FairSpec == Spec /\ Fairness
-----------------------------------------------------------------------------
Live(k) == api[k] # NoObj

\* Every object a client can see is a ProxyHost, and the worker's variables
\* have the types of the Go variables they stand for.
TypeOK ==
  /\ api \in [Keys -> ProxyHost \cup {NoObj}]
  /\ cache \in [Keys -> ProxyHost \cup {NoObj}]
  /\ watch \in [Keys -> Seq(ProxyHost \cup {NoObj})]
  /\ queue \subseteq Keys
  /\ req \in Keys \cup {NoKey}
  /\ obj \in ProxyHost \cup {NoObj}
  /\ fresh \in BOOLEAN
  /\ faults \in Nat
  /\ pc \in PCs
  /\ marked \in BOOLEAN
  /\ host \in Ids \cup {NoId}
  /\ bound \in BOOLEAN
  /\ captured \in InitialConfiguration \cup {NoInit}
  /\ npm \in [Ids -> Host \cup {NoHost}]
  /\ nextId \in 1 .. MaxHosts + 1
  /\ ops \in Nat
  /\ creator \in [Ids -> Creators]
  /\ orig \in [Ids -> Host \cup {NoHost}]

\* A host an administrator created in NPM is never deleted by the operator,
\* whatever is lost, stale or repeated: only an administrator removes it.
ForeignHostsSurvive ==
  [][\A i \in Ids : creator[i] = "admin" /\ Alive(i) /\ npm'[i] = NoHost
                      => AdminRemove(i)]_vars

\* A resource that records a host in NPM carries the finalizer, so it cannot
\* vanish without the finalizer's reconciliation.
RecordedHostHasFinalizer ==
  \A k \in Keys : Live(k) /\ api[k].id # NoId => api[k].fin

\* A resource that recorded a host it created only disappears once that host
\* is gone from NPM (Reconcile's delete branch).
OwnHostRemovedFirst ==
  [][\A k \in Keys : Live(k) /\ api'[k] = NoObj /\ api[k].id # NoId /\ ~api[k].bound
                       => ~Alive(api[k].id)]_vars

\* Every host the operator created is recorded in some resource, or is held by
\* the worker that is about to record it.
NoOrphanHost ==
  \A i \in Ids : creator[i] = "operator" /\ Alive(i)
                   => host = i \/ \E k \in Keys : Live(k) /\ api[k].id = i

\* Two resources never record the same host (domainsShouldBeUnique).
NoSharedHost ==
  \A j, k \in Keys : j # k /\ Live(j) /\ Live(k) /\ api[j].id # NoId
                       => api[j].id # api[k].id

\* The stored initial configuration is the one the host had before the
\* operator's first write to it (CaptureInitialConfiguration).
InitialConfigIsOriginal ==
  \A k \in Keys :
    Live(k) /\ api[k].id # NoId /\ api[k].init # NoInit =>
      LET i == api[k].id
      IN  creator[i] = "admin" /\ orig[i] # NoHost
            => api[k].init = CaptureInitialConfiguration(orig[i])

\* Bound says whether the host was found or created.
BoundMeansAdopted ==
  \A k \in Keys : Live(k) /\ api[k].id # NoId => (api[k].bound <=> creator[api[k].id] = "admin")

\* When a bound resource disappears, the host is forwarding as it did before.
OriginalForwardRestored ==
  [][\A k \in Keys :
       Live(k) /\ api'[k] = NoObj /\ api[k].id # NoId /\ api[k].bound /\ api[k].init # NoInit =>
         LET i == api[k].id
         IN  Alive(i) /\ orig[i] # NoHost =>
               npm[i].doms = orig[i].doms /\ npm[i].cfg = orig[i].cfg]_vars

\* A resource marked for deletion eventually disappears.
DeletionCompletes ==
  \A k \in Keys : (Live(k) /\ api[k].deleting) ~> ~Live(k)

\* The resource has its domains for itself and is not being deleted.
Unopposed(k) ==
  /\ Live(k)
  /\ ~api[k].deleting
  /\ \A j \in Keys \ {k} : Live(j) => api[j].spec.doms \cap api[k].spec.doms = {}

\* NPM serves what the resource asks for and the status says so.
Converged(k) ==
  /\ Live(k)
  /\ "Ready" \in api[k].conds
  /\ api[k].id # NoId
  /\ Alive(api[k].id)
  /\ LET h == npm[api[k].id]
     IN  /\ h.enabled
         /\ h.doms = api[k].spec.doms
         /\ h.cfg = api[k].spec.cfg
         /\ UnscopedSupported => h.unscoped = api[k].spec.upstream

\* Once users leave a resource alone and nobody contests its domains, NPM
\* serves it, upstream block included, and keeps serving it.
Converges ==
  \A k \in Keys : (<>[]Unopposed(k)) => (<>[]Converged(k))
==============================================================================
