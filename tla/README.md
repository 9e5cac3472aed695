# TLA+ models of nginxpm-operator

nginxpm-operator is a Kubernetes operator (controller-runtime 0.19) that drives
a [Nginx Proxy Manager](https://nginxproxymanager.com) (NPM) instance from
custom resources.  This directory models the part of it that is hard to test:
reconcilers that read a cache which lags, write to two systems that share no
transaction, and are retried, restarted and interleaved with users and with
NPM's administrators.

## 1. Inventory

| Component | Source | State it keeps | Operations |
|---|---|---|---|
| API server, informer cache, work queue | controller-runtime, client-go (external) | stored objects, cached objects, undelivered watch events, queued keys | Get, List (cache); Update, Status().Update (server, optimistic lock); watch; requeue |
| Controller helpers | `internal/controller/helpers.go` | none | `AddFinalizer`, `RemoveFinalizer`, `UpdateStatus` (retry on conflict), `InitNginxPMClient` (token look-up), `JsonFieldExists` |
| ProxyHost reconciler | `internal/controller/proxyhost/` | status: Id, Bound, InitialConfiguration, CertificateId, Conditions | `Reconcile`, `domainsShouldBeUnique`, `createOrUpdateProxyHost`, `makeForward`, `makeCertificate`, `getAccessListByReference`, `constructCustomLocation`, capture and restoration of the initial configuration |
| Stream reconciler | `internal/controller/stream/` | status: Id, Online, Conditions | `Reconcile`, `createOrUpdateStream`, `makeForward` |
| AccessList reconciler | `internal/controller/accesslist/` | status: Id, counts, Conditions | `Reconcile`, `createOrUpdateAccessList` |
| LetsEncryptCertificate reconciler | `internal/controller/letsencryptcertificate/` | status: Id, Bound, DomainNames, ExpiresOn | `Reconcile`, `createCertificate` |
| CustomCertificate reconciler | `internal/controller/customcertificate/` | status: Id, ExpiresOn, Status | `Reconcile`, `createCertificate` (create, then upload) |
| Token reconciler | `internal/controller/token/` | status: Token, Expires | `Reconcile` (create or refresh, requeue at expiry) |
| NPM client | `pkg/nginxpm/` | token | REST calls: list, create, update, delete, enable, disable; search by domain and by id |
| Manager | `cmd/main.go` | none | starts one worker per kind |

How they interact.  A watch event puts a key on the work queue of its kind; a
single worker per kind (MaxConcurrentReconciles is 1) takes the key, reads the
object from the cache and makes a sequence of calls to the API server and to
NPM.  An error, a panic (recovered by controller-runtime) or `RequeueAfter`
queues the key again.  Kinds depend on each other only through the cache: a
ProxyHost reads Services, Pods, certificates, access lists and the Token, and
the watches of those kinds queue it again.

What is hard here:

* the cache is stale when `Reconcile` decides and again when it writes;
* a host is written in NPM before its id, its Bound flag and its initial
  configuration are recorded in the status, so a crash, a conflict or a lost
  answer in between loses what was learnt;
* users delete and edit, and administrators add, remove and switch off hosts,
  between any two calls;
* deletion must undo the right thing: delete what the operator created, restore
  what it adopted, and only then let the resource go;
* errors of some calls are ignored, of others reported, of others retried.

What makes each part correct:

* ProxyHost: a host that is not the operator's is never deleted; a resource that
  records a host cannot vanish without its finalizer's reconciliation; an own
  host goes before its resource; an adopted host gets its original settings
  back; two resources never own one host; deletion ends; NPM converges to the
  spec;
* AccessList, Stream, CustomCertificate, LetsEncryptCertificate: an object in NPM
  is removed only for the resource it was created for, and a resource goes only
  after its object or after a deletion that was tried in vain; what a quiet
  operator has recorded is what NPM has; an object that an administrator removes
  comes back;
* Token: the resource is not abandoned, and its token is valid or about to be
  replaced;
* forwarding: whatever the order of events, NPM forwards to where the services
  are now;
* the choices (certificate, port, token, host): the one that the documentation
  gives priority to.

`PROJECT.json` lists the components and, under "hazards", the dangers of this
code at their lines.

## 2. Modules

| Module | Models |
|---|---|
| `KubeApi` | API server, informer cache, watch and work queue of one kind (external; from how the reconcilers use them) |
| `ControllerHelpers` | `helpers.go`: the calls on a custom resource and their four outcomes (done, refused, failed, done with the answer lost) |
| `ProxyHostController` | the ProxyHost reconciler, `initial_config.go`, the proxy host calls of the NPM client, users, administrators, crashes |
| `ResourceReconciler` | the frame that the next four reconcilers share |
| `AccessListController` | the AccessList reconciler and `access_list.go` |
| `AccessListUse` | `AccessListController` composed with a proxy host that names the list |
| `StreamController` | the Stream reconciler and `stream.go` |
| `CustomCertificateController` | the CustomCertificate reconciler and `custom_certificate.go` |
| `LetsEncryptCertificateController` | the LetsEncryptCertificate reconciler and `letsencrypt_certificate.go` |
| `RemoteLedger` | abstract: what a reconciler promises about its objects in NPM |
| `TokenController` | the Token reconciler, with a clock |
| `ServiceForwarding` | `makeForward`, `GetPodsHostIPS` and the watches on services and pods |
| `CertificateSearch`, `CertificateSelection` | functions: which certificate |
| `ServicePorts` | functions: which port of a service |
| `TokenLookup` | functions: which Token |
| `DomainMatching` | functions: which host of NPM has the domains |
| `Selection` | the questions that are put to these functions, and what their answers should be |
| `MC*` | instances for TLC, with their `.cfg` files |
| `HelperProofs` | lemmas about `KubeApi` and `ControllerHelpers` |
| `ProxyHostProofs` | the inductive invariants of `ProxyHostController` and its theorems |
| `FrameProofs` | what `ResourceReconciler` guarantees to every kind of resource, as lemmas |
| `AccessListProofs` | theorems about `AccessListController` and `AccessListUse` |
| `StreamProofs`, `CustomCertificateProofs`, `LetsEncryptProofs` | theorems about the controllers of these kinds; the first also about `ServiceForwarding`, where a Stream and a ProxyHost forward to, the last also about `Selection` |
| `TokenProofs` | theorems about `TokenController` |

`ControllerHelpers` extends `KubeApi`; `ProxyHostController`,
`ResourceReconciler` and `TokenController` extend `ControllerHelpers`; the four
controllers extend `ResourceReconciler`, and each is shown to implement
`RemoteLedger` under a refinement mapping.

### KubeApi and ControllerHelpers

`api[k]` is the stored object, `cache[k]` what `r.Get` and `r.List` return, and
`watch[k]` the versions in between, in order.  The optimistic lock is modelled
without version numbers: a cached object carries the current resourceVersion
exactly when `watch[k]` is empty, and `fresh` follows that for the worker's copy
until somebody writes.  `Update` with a stale copy is refused.  `UpdateStatus`
re-reads the cache on every conflict, up to five times; its five attempts are
one action that ends when the cache has caught up, and the case that all five
conflict is the fault "lag".  `MaxLag` bounds the undelivered versions.

`r.Update` sends the worker's typed object.  `bindExisting`, `blockExploits`,
`websocketSupport`, `sslForced`, `http2Support` and `nginxKeepalive` are encoded
with `omitempty` and have the CRD default true, so a false value does not
survive the trip; `Encoded` is that conversion (`DefaultCfg` is its effect on the
flags among the settings).  The status endpoint leaves the spec alone.

### ProxyHostController

One action per call of `Reconcile` and `createOrUpdateProxyHost`; `pc` says which
call is next, and the local variables of the Go functions are variables
(`marked`, `host`, `bound`, `captured`).  `req`, `obj` and `fresh` are the
request, the reconciler's copy `ph` and whether its resourceVersion is current.

| pc | Action | Code (`proxyhost_controller.go`) |
|---|---|---|
| idle | `Dequeue` | 111-129, r.Get |
| finalizer | `EnsureFinalizer` | 131-137 |
| reconciling | `MarkReconciling` | 139-150 |
| client | `InitNginxPMClient` | 152-206, and the choice among the finalizer operations |
| restore, reenable, disable, delete | `RestoreHost`, `ReenableHost`, `DisableHost`, `DeleteHost` | 208-250 |
| refetch, removeFinalizer | `RefetchLatest`, `DropFinalizer` | 252-269 (also 156-180) |
| unique | `CheckDomains` | 275-289, 322-361 |
| find | `FindHostByID`, `BindExisting`, `NothingToBind` | 369-406 |
| enable, prepare | `EnableHost`, `PrepareInput` | 408-483 |
| update, create, followUp | `UpdateHost`, `CreateHost`, `FollowUp` | 485-574 |
| save | `SaveStatus` | 576-585 |
| ready, fail | `MarkReady`, `MarkError` | 308-317; 182-199, 278-288, 294-305 |
| done, requeue | `Return` | the returns of Reconcile |

What is abstracted: the forwarding, TLS, location and flag settings of a host are
one value (`cfg`), because the code always writes and restores them together;
`enabled`, the domains and the upstream block (`unscoped_config`) are kept apart
because it does not.  Domains are sets.  `makeForward`, `RetrieveCertificate`,
`getAccessListByReference` and `constructCustomLocation` only read and are one
step that succeeds or fails (fault "prepare"); specs with
`autoCertificateRequest`, which create a certificate there, are left out.
Conditions are the set of types ever set, which is what the code's decision
(`len(Conditions) == 0`) and the Ready report depend on.  Events and logs are
left out.

NPM (external) gives ids that it never reuses, refuses a domain another host
serves (`RejectDuplicates`), creates hosts enabled, keeps a field that an update
does not send, and reports `unscoped_config` or does not (`UnscopedSupported`).
Two history variables state the properties: `creator[i]`, who created host i, and
`orig[i]`, the host before the operator's first write since no resource has
recorded it.

Faults: "api" and "apiLost" (a write to the API server fails, or succeeds and the
answer is lost), "lag", "npm" and "lost" (the same for NPM), "token" (no client),
"prepare", "crash" (the process restarts: local variables and watch are gone, the
cache is listed anew).  `MaxFaults` and `MaxOps` bound faults and the operations
of users and administrators.  `Trigger` stands for the dependency watches and
the periodic resynchronisation and is unbounded.

### ResourceReconciler and its four controllers

The four reconcilers make the same calls in the same order until they know
whether to finalize: take the key, add the finalizer, mark the resource, build
the client.  The frame has these as actions, and the end (`DeleteRemote`,
`DropFinalizer`, `StatusWrite`, `Return`, `Crash`); what differs (the new
object, the request body, what is recorded) is a parameter of the frame's
operator, and the controllers add the calls that are their own:

* `AccessListController`: search by the recorded id, create or update, record.
  A list is always sent as a whole, so that its content is one value.
* `StreamController`: `makeForward` reads a destination that changes under the
  worker; an upstream block can only be sent once NPM has reported the field, so
  a new stream gets it by a second request whose failure is ignored, or by the
  next reconciliation.
* `CustomCertificateController`: the four requests of `CreateCustomCertificate`
  (create, validate, upload, read back), one by one.  A failure in between leaves
  an empty certificate in NPM.
* `LetsEncryptCertificateController`: search by the domains, adopt (Bound) or
  request.  The CRD requires `status.domainNames`, which the status of the model
  keeps: the API server refuses a status without them (`ValidStatus`), conditions
  included.  That they are recorded with the id of the certificate they belong to
  is what `ReadyMeansIssued` says.

`RemoteLedger` is the specification that a user of the operator has in mind,
without caches, queues, retries and program counters: an object is created for a
resource that exists, recorded by the resource it was created for, removed for
it alone, and the resource goes only when its object is gone or its deletion
failed.  The mapping reads `present`, `leaving` and `held` from the API server and
`alive` from NPM.  `owner` and `abandoned` are history variables of the frame:
`abandoned` are the objects whose deletion failed or could not be attempted,
because the code then gives up the object but lets the resource go, which is what
it means to do.  `turns` counts the acts of users and administrators so that a
step of the operator cannot pass for one of theirs.  With `MayDisown` (only
LetsEncryptCertificate) a resource may come to treat its own object as
somebody else's.

Other history variables mark the paths on which the code gives up by itself, so
that the properties can excuse exactly these: `givenUp` (a reconciliation of a
certificate ended in a failure of NPM or of the process and without a retry),
`dropped` (a Token's reconciliation ended without a timer because its status
write failed or its token expired meanwhile) and `missed` (a change of the
cluster that no watch reports).

`AccessListUse` adds the second worker: the host reads the status of the list in
the cache, asks NPM whether it has that id, and writes the host; the list's
events queue the host; NPM takes a removed list off the hosts that use it.

### TokenController

`now` advances at any time (`Prompt` FALSE, also while `Reconcile` runs), and
`AddAfter` is the delaying queue of `RequeueAfter`: zero or less means never.  A
token is the number of its request; `expiry` and `issuer` are what NPM knows
about it.  `secret` is what the Secret of credentials holds now.

### ServiceForwarding and the functions

`world` holds services, pods and node addresses as they are, `cache` what the
operator reads, `watch` the events in between, per object.  `Deliver` queues the
resource by the rules of the index on services and of `findProxyHostsForPod`
(`PodEvent`); node events queue nothing.  The worker reads one service
after another, the cluster changing in between, and writes all in one request.
Status writes of the resource itself are left out: they can only add
reconciliations.

The functions have no state.  `Selection` puts every question within its bounds to
them, one state per question and one step for the answer; which names, references
and numbers the questions have are its constants.  Domain
names are sequences of labels and port names sets of words, because the code cuts
and searches exactly these.  `DomainMatching` has lists where
`ProxyHostController` has sets: `MatchIsFound` says that the two agree when no
list has a domain twice.

## 3. Runs

All runs have `CHECK_DEADLOCK FALSE`: an operator with an empty work queue waits
for the next event, and with bounded users it may wait for ever.

| Run | Instance | Shows |
|---|---|---|
| `proxyhost_faults` | 1 resource, new or bound by an older release (`UpgradeSpec`), 3 hosts, 4 operations, any 2 faults | `TypeOK`, `RecordedHostHasFinalizer`, `ForeignHostsSurvive` |
| `proxyhost_pair` | 2 resources whose domains overlap, an administrator's host, 5 operations, no faults | `NoSharedHost`, `NoOrphanHost`, `InitialConfigIsOriginal`, `BoundMeansAdopted`, `OwnHostRemovedFirst`, `OriginalForwardRestored` |
| `proxyhost_live` | 1 resource, edits, 1 fault of any kind; or 2 that contest a domain (`contested`) without faults | `DeletionCompletes`, `Converges` |
| `accesslist` | 1 list and 1 host that names it, 3 operations, 1 fault | `QuietMeansServed`, `QuietMeansGuarded`, `ImplementsLedger`, `StaysServed` |
| `stream` | 1 stream, 2 specs, 2 destinations, 3 operations, 1 fault | `TypeOK`, `QuietMeansServed`, `ImplementsLedger`, `StaysServed` |
| `customcertificate` | 1 resource, good, bad and missing Secrets, 3 operations, 1 fault | `TypeOK`, `RecordedIsUploaded`, `ImplementsLedger`, `GoodSecretIsServed`, `DeletionCompletes` |
| `letsencrypt` | 2 resources for one domain, an administrator's certificate for that and another domain, 3 operations, 1 fault | `TypeOK`, `ReadyMeansIssued`, `ImplementsLedger`, `GetsCertificate` |
| `token` | 1 Token, 2 endpoints, clock to 4, 2 operations, 1 fault | `TypeOK`, `RefreshIsScheduled`, `ExpiryIsTheTokens`, `StaysValid` |
| `forwarding` | 2 services, 1 pod, 2 nodes, 2 changes of any kind, 1 fault | `QuietMeansCurrent`, `BecomesCurrent` |
| `selection` | every question within its bounds | `UnanimousOrNew`, `PriorityHonoured`, `FoundIsValid`, `PortAsAsked`, `NearestToken`, `MatchIsFound` |

Bounds of `proxyhost_*`.  One resource and one foreign host are enough for every path of
`Reconcile`; two faults let one fault hit the retry of another; two resources are
what `domainsShouldBeUnique` is about; three host ids allow an adopted host, a
created one and a re-created one; four or five operations allow create, delete
and create again with an administrator in between.  The liveness instances never
use up their host ids, so convergence is not blocked by the bound.

Bounds of the others.  Resources of the kinds with an object of their own do not
interact, so that one is enough; LetsEncryptCertificates share certificates, so
there are two.  Three operations are create, change or remove, and delete (or
create again).  `MaxRemote` is more than the objects a run can create before its
faults are used up: no action that NPM should allow is blocked by it in the runs
with a liveness property.  One fault of every kind at every point is what the
code's retries are for; two faults are tried on ProxyHost, which has the most to
lose.  The clock of `token` is as long as the lives of two tokens, so that a
refresh meets a fault and the next one has to repair it; when the clock stops at
`MaxTime` the last timer no longer fires, which `StaysValid` allows for by asking
for a valid token or a timer in the future.  Two cluster changes let one come
between the worker's reads or between the two watches.

Fairness (`FairSpec`): the worker's goroutine runs (WF of `Reconcile`), watch
events arrive (WF of `WatchEvent`), timers fire (WF of `TimerFires`), and the work
queue is first in, first out, so a queued key is not passed over for ever (SF of
`Dequeue`).  Nothing is assumed of users, administrators, the cluster, `Trigger`
or the clock; faults are finitely many, which stands for "faults stop".  An
object that an administrator removes in NPM sends no event to the operator.
`StaysServed` therefore has the premise that the resource is queued again and
again, which the periodic resynchronisation of the informers (10 hours) and the
dependency watches provide; no other liveness property needs it.

`contested` in `MCProxyHostLive` chooses the instance in the initial state: an
instance with edits and faults and one with two resources, each small, in place
of their product.  `UpgradeSpec` adds initial states in which an older release has
bound a host without storing a configuration.

Some properties are checked where the faults or operations that the code does
not survive are absent.  `proxyhost_pair` has none: its properties hold in every
interleaving of users, administrators and stale caches.  Four of them hold beyond
that, by the theorems below: `NoSharedHost` under every fault as long as nobody edits,
`OwnHostRemovedFirst` under crashes, lost answers and failed preparations,
`NoOrphanHost` and `BoundMeansAdopted` under status writes whose answer is lost, failed
preparations and administrators who disable hosts.  Beyond these conditions the
code breaks them, and the other two break with one crash or one status write that
fails or comes too late.  `Converges` is about resources that have their domains for
themselves; `GoodSecretIsServed`, `GetsCertificate`, `RefreshIsScheduled`,
`StaysValid`, `QuietMeansCurrent` and `BecomesCurrent` excuse the history variables
above.  What lies beyond is in the list below.

Runs in which TLC finds what a comment or document of the repository says to be
violated (the findings of `PROJECT.json` quote it):

| Run | What happens |
|---|---|
| `proxyhost_stuck` | the adopted host was removed in NPM: `EnableProxyHost` dereferences nil, the deletion never ends |
| `letsencrypt_shared` | the resource that requested a certificate is deleted and the certificate goes under the other resource that adopted it, which stays Ready |

### Divergences found while modelling

Each was met as a counterexample or while translating; the properties above are
stated so that they do not claim the contrary.  They are not kept as runs.

ProxyHost (`proxyhost_controller.go` unless another file is given):

* `bindExisting: false` becomes true when the finalizer is added, because the
  flag has `omitempty` and the default true (`helpers.go:143`); the same happens
  to `tcpForwarding: false` of a Stream.
* A crash after the creation of a host: the retry finds it by its domains and
  records the operator's own host as adopted (398).
* A crash after the first update of an adopted host: the operator's settings are
  captured as the initial ones (402); a failure after `EnableProxyHost`: the retry
  records a disabled host as originally enabled (411).
* Restoration never disables a host and never restores the upstream block (226).
* The finalizer decides by the cached status: a copy without the id lets the
  resource go and its host stays (252).
* A host created anew after an administrator removed the adopted one keeps
  Bound and the old initial configuration (378).
* After an edit of its domains a resource still records its host by id, while
  another one adopts it by its new domains (372).
* Events of a pod do not queue a host whose services are all in custom locations
  (1051) or in another namespace (1059).
* `domainsMatch` takes [a, a] for [a, b] (`proxy_host.go:286`).

Certificates:

* CustomCertificate reports Ready after a failed creation and does not repeat it
  (`customcertificate_controller.go:288`); a renewed Secret is never uploaded, nor
  the expiry changed (237).
* LetsEncryptCertificate: a failed request is not repeated either
  (`letsencryptcertificate_controller.go:284`); an edit of the domains has no effect
  once an id is recorded (227); after a lost record a resource is bound to its own certificate
  and will not delete it (293).
* The search over several domains drops a domain without a certificate, so an
  adopted certificate need not cover all domains (`letsencrypt_certificate.go:133`);
  the wildcard of a domain of two labels is built from the whole domain
  (`util.go:9`).
* `certificateId` has the highest priority, but another reference that is not
  resolved yet is an error before it is looked at (`certificate.go:36`); a referenced
  certificate that NPM no longer has counts as none and is replaced by an
  automatic one (703); without an Ssl section none is requested (682).

Token (`token_controller.go`): a failed status write (129) or a token that expires
before the delay is computed (137) ends the refreshing of the Token; the refresh is
due at the expiry, not before it (137); after a change of the endpoint the token of
the old one is used until it expires (186).  A resource whose reference fell back
on the default name is not queued by the events of that token (`helpers.go:68`).

Forwarding: a pod that is being deleted still counts as a host of the service
while its end is not reported (`proxy_helpers.go:138`); nodes are not watched
(113) and one without an InternalIP gives an empty address (127); a port name is
preferred to a given port number (`proxy_forward.go:234`), although the number
"overrides the Service port selection" (`proxyhost_types.go:195`), and a given
number is used untranslated for a NodePort service (306).  Without either, the
documentation says "If not specified, uses the first port from the Service
definition" (`proxyhost_types.go:196` and 206); the code prefers a port
named for http, then for https, only for https if that is the scheme (244, 311),
and for a Stream one that speaks TCP or UDP, whichever it forwards
(`stream/proxy_forward.go:253`), and uses the first port when there is none.
Names are searched for as parts of names (`stream/proxy_forward.go:241`): a
Stream that asks for "http" may get a port named "https", and one that asks for
"tcp" any TCP port.  `PortAsAsked` states that a number is used untranslated; it
leaves open which of number and name wins, and requires none of the other
preferences: the documented first port is required wherever no port is preferred.

AccessList: a list is deleted while hosts use it
(`accesslist_controller.go:149`); NPM is assumed to take it off these hosts, which
then have none until they are reconciled.

## 4. Proofs

The theorems hold for every value of the constants that satisfies the named
assumptions: any sets of resources, domains and settings, finite or not, any
bounds, any set of faults unless a theorem excludes some.

| Module | Theorem | States |
|---|---|---|
| `ProxyHostProofs` | `TypeCorrect`, `Invariance` | `TypeOK` and the invariant `IInv` |
| | `ForeignHostsAreSafe` | `ForeignHostsSurvive` |
| | `FinalizerFirst` | `RecordedHostHasFinalizer` |
| | `HostsAreNotShared` | `NoSharedHost`, if nobody edits and every spec has a domain |
| | `OwnHostsGoFirst` | `OwnHostRemovedFirst`, without four of the faults |
| | `NoHostIsLost`, `BoundIsTrue` | `NoOrphanHost`, `BoundMeansAdopted`, if nobody edits or removes a host in NPM, without all but two of the faults |
| | `ForwardIsRestored` | `OriginalForwardRestored`, under the same conditions |
| | `OriginalIsRecorded` | `InitialConfigIsOriginal`, if besides no preparation fails and nobody disables a host |
| `AccessListProofs` | `AccessListLedger`, `SharedListLedger` | `ImplementsLedger`, alone and beside a proxy host |
| | `QuietListsServed`, `SharedListsServed` | `QuietMeansServed`, alone and beside a proxy host |
| | `HostStaysGuarded` | `QuietMeansGuarded` |
| `StreamProofs` | `StreamTypes`, `StreamLedger`, `QuietStreamsServed` | `TypeOK`, `ImplementsLedger`, `QuietMeansServed` |
| | `ForwardsAreCurrent` | `QuietMeansCurrent` of `ServiceForwarding`, if the pods are watched for |
| `CustomCertificateProofs` | `CustomCertificateTypes`, `CustomCertificateLedger`, `RecordsAreUploaded` | `TypeOK`, `ImplementsLedger`, `RecordedIsUploaded` |
| `LetsEncryptProofs` | `LetsEncryptTypes`, `LetsEncryptLedger`, `ReadyIsIssued` | `TypeOK`, `ImplementsLedger`, `ReadyMeansIssued` |
| | `AdoptionIsUnanimous`, `PriorityIsHonoured`, `AdoptedIsValid` | `UnanimousOrNew`, `PriorityHonoured`, `FoundIsValid` of `Selection` |
| | `AskedPortIsUsed`, `TokenIsNearest`, `MatchingHostIsFound` | `PortAsAsked`, `NearestToken`, `MatchIsFound` of `Selection` |
| `TokenProofs` | `TokenTypes`, `ExpiryIsTrue`, `NeverAbandoned` | `TypeOK`, `ExpiryIsTheTokens`, `RefreshIsScheduled` |

No safety property of a reconciler is inductive.  They speak of what the server stores
or of one step of the worker, and the worker acts on what an earlier version of
the resource said, which went through the watch and the cache.  Every invariant
below therefore speaks of all versions around (`Seen(k)`: stored, cached and still
to be delivered) and of the worker's local variables at each program counter.
TLC checked the invariants on the instances of the runs before they were proved.

### ProxyHostController

`IInv` is behind `TypeCorrect` and `ForeignHostsAreSafe`.  A version of a resource
that records a host an administrator created says Bound (`Truthful`, `Versions`),
and so do the local variables `host` and `bound` (`LocalInv`).  Ids are not reused
(`NpmInv`), `delete` is reached with an unbound copy (`PcInv`), and an object the
worker believes fresh exists (`FreshExists`), which needs that the watch leads
from the cache to the server (`CacheFollows`).  The proof has one step per action,
grouped by what the action touches (`LocalActions`, `ResourceActions`,
`HostActions`, ...); frame lemmas (`LocalStep`, `StatusStep`, `ObjectStep`,
`NpmStep`) do the rest.

`FInv` is behind `FinalizerFirst`.  The worker adds and removes the finalizer by
what it read from the cache, and the user deletes what the server stores.  `SeenInv`
says how versions are ordered: if a version in the cache or in the watch has the
finalizer and no deletion mark, the stored one has the finalizer, and if it is
marked, the stored one, if it has the finalizer, is marked (`Before`).  From it
follows what Reconcile knows at each program counter (`WorkerInv`): past
`EnsureFinalizer` an unmarked request's object has the finalizer, so the status
write that records a host finds it there; and a marked request's object, if it has
the finalizer, is being deleted, so `RemoveFinalizer` removes the object and never
just the finalizer.

`SharedInv` is behind `HostsAreNotShared`.  Two resources could come to record one
host in two ways: both find it by its domains, or one creates it and the other
finds it.  `domainsShouldBeUnique` is to prevent both, but reads the cache, up to
`MaxLag` versions old.  The argument: the domains of a resource do not change while it lives (`SameInv`, by `LifeInv`, which tells the
lives of a key that is created again apart); so the cache has the domains of every
resource that can come to record a host, and while the worker looks for a host
under its domains no other resource records one under an overlapping set
(`FindInv`).  `ClaimInv` is the conclusion: of everything that may come to be
recorded, by a version or by the worker, a host belongs to one resource and serves
exactly its domains, which the configurations that are stored to be restored later have, too
(`CaptureInv`).  Assumptions: every spec asks for a domain, as the CRD
demands (MinItems=1, `src/api/v1/proxyhost_types.go:337`), and nobody edits.  After an
edit of its domains a resource still records its host by id while another one may
adopt it by its new domains (section 3), so the theorem is false with edits of
domains; nothing else is excluded.

`OwnInv` is behind `OwnHostsGoFirst`.  The finalizer decides by the cached record
whether there is a host to delete.  `RecordInv` says that all versions around have
the stored record, except for the moment between the status write that records
a host and the last status write of the same reconciliation; `CacheSettles` shows
that this last write waits for the cache, because its first attempt conflicts.
`RemovalInv` carries the record through the finalization: at the removal of the
finalizer the host that the resource created is gone.  Four faults are
excluded, after each of which Reconcile itself removes the finalizer and leaves the
host: a status write that fails ("api") or conflicts to the end ("lag"), no token
(156), and a deletion that NPM refuses (244).  Crashes, lost answers, a failed
preparation, edits and an administrator who removes or disables hosts are allowed.

`AdoptInv` is behind `NoHostIsLost` and `BoundIsTrue`, which need each other: a host
that the worker finds by its domains is an administrator's because every host of
the operator's is recorded (`NoOrphanHost`) and, by `FindInv`, under other domains;
and the finalizer deletes a resource's own host because Bound does not call it
adopted (`BoundMeansAdopted`).  `HostInv` follows the host through
`createOrUpdateProxyHost`: it is there, `bound` says who created it, and one of the
operator's is in the stored record except between its creation and the status
write.  The rest of the invariant shows that the worker knows this record and that
the recorded host exists (`ReadInv`), although it read both from the cache: no
version of a life forgets a record (`KeptInv`), one without a host is bound to
nothing (`BareInv`), and a host disappears only in the finalization of its
resource, when every version around carries the deletion mark (`MarkedInv`,
`OrderInv`), so that no reconciliation that is to create or update can read the
dead record.  What is excluded (`Calm`) breaks the two properties in the
code: a crash or a lost answer after the creation (398), a status write that fails or
conflicts to the end, no token at the deletion (156), a deletion that NPM refuses
(244), an edit of the domains (372), and a bound host that is removed in NPM (378).
TLC checked the invariant on 2,717,269 states: two resources, all the operations
that remain and one fault.

`RestoreInv` is behind `ForwardIsRestored` and `OriginalIsRecorded`, on top of
`AdoptInv`.  The history `orig` remembers a host as it was before the operator's
first write since the last resource that recorded it went.  `OriginInv` says that
an administrator's host that nobody records, or is about to record, is as it was:
so what `BindExisting` captures is the original, and `InitialInv` follows it from
there into the status, through retries (one that finds the record takes
over its value) and through updates (the original stays while the host changes).
`SettledInv` follows the finalizer: once it has come to the removal, the host forwards
as the stored configuration says, and a finalizer that starts over on a resource that
only the cache still shows finds the host so and changes nothing; without this, the
second run would be a write to a host that nobody holds, perhaps one that the next
resource is about to capture.  An update keeps the domains, and NPM does not refuse it
for a taken domain, because live hosts have disjoint domains where NPM checks that
(`DisjointInv`); the theorems hold with and without that check.

The switch of a host needs more (`Steady`) than where it forwards.
`createOrUpdateProxyHost` enables the host (411) before it prepares the update, so
that after a failed preparation the retry captures an enabled host; and an
administrator can disable the host between its look-up and the first update.  In
either case the initial configuration says of the switch what the host was not.  If
an answer of NPM to the first update is lost, or the process dies before the status
write (402), the retry captures what the operator wrote, forwarding included.  TLC
finds each of these when the excluded faults and operations are let in, and checked
`RestoreInv` on 2,717,269 states with one failed preparation or lost answer, on
1,577,825 with `Steady`, and on 4,195,969 where NPM does not check domains.

### The reconcilers built on ResourceReconciler

`FrameProofs` proves once what every kind owes to the frame.  A kind is a record `K` of
the sets that differ (its versions, those that own an object in NPM, the objects,
the request bodies, the program counters); a module of a kind defines its `K`,
proves that its own actions are instances of the frame's, and cites the lemmas.
`FrameInv(K)` has `Types`, the order of versions and the finalizer as above
(`ClusterInv`, `WorkerInv`), `OwnersInv` (an object in NPM that a version records
unbound was created for that resource) and `RemovalInv` (when the finalizer goes,
the object is gone or its deletion was tried in vain).

* `...Ledger`: the refinement mapping takes the initial states to initial states,
  and every action of a kind to a step of `RemoteLedger` or to a stutter
  (`LedgerStep`); only the end of a resource needs `RemovalInv`, only the removal in
  NPM `OwnersInv`.
* `Quiet...Served`: the negation is a forgotten event.  `TidyInv` and `RestInv` say,
  of every resource whose cached version is current and which is not queued, that
  it is served or the worker has it in hand; with `WorkInv` for the streams, whose
  destination changes under the worker and which need two reconciliations.  Every
  failing path of the code must queue the resource again for this to be
  inductive.  TLC checked it on 818,928 states of `stream` and 189,920 of
  `accesslist`.
* `HostStaysGuarded`: `HostInv` says of a proxy host that is not queued that its
  reconciliation has just read the id the cache records, is about to send the list
  in use, or is over and has left the host with that list.
* `RecordsAreUploaded`, `ReadyIsIssued`: a predicate on versions that every write
  keeps (`Closed`, `VersionsKept`).  For `ReadyIsIssued` it is `Truthful`: a version
  is Ready only if it has names (that the server sees to), has names only with an
  id, and NPM has nothing else under that id (`IssuedFor`).  `AnswerInv` says the
  same of what the worker is about to record, and `NamesStay` that no step gives
  an id another meaning.

### TokenController

`ExpiryInv` says of every version and of the worker's hands that the recorded
expiry is that of the recorded token.  `RefreshInv` says where the next
reconciliation of a Token is: in the worker, the queue, a timer or an undelivered
event, or one of the two causes that drop it (section 3) has happened.

### ServiceForwarding

`ForwardingInv` says that what the worker has resolved stays right as long as nothing
queues the resource again.  Its core is `ResolvedInv`: at every program counter, the
destinations of the slots that are done, the Service that was read and the nodes
of the pods that were listed are those that the cache has now, and when the worker
is done, so is what NPM was sent.  Every delivery that changes an answer must therefore queue
the resource, which is what the proof checks against the index on services and
`findProxyHostsForPod` (`DeliverResolved`).  An event of a pod is mapped in its old and
its new version, but a version with the deletion mark matches no service.
`EventsInv` supplies what excuses that: the undelivered versions lead from the cache
to the cluster's state (`LeadsFrom`), and a version that gets the mark has the labels
of the one before it (`Marks`), which still matches.  What happens to a pod after
the mark, and to nodes, is recorded in `missed`.

The theorem has the hypothesis `PodsAreWatched`: if the resource refers to any
service, it refers to one in `spec.forward`, and all are in its own namespace.
Without either half the code breaks the property
(`proxyhost_controller.go:1051` and 1059, section 3): TLC has a counterexample where only a custom
location has a service, and one where a service is in another namespace.
`KindsAssumption` keeps the names of services, pods and nodes apart.  TLC checked
`ForwardingInv` on 2,239,966 states.

### Selection

`SelectionInv` says that an answer is what the code's functions give for the
question; the rest is about the functions, for lists and services of any length.
None of the proofs needs an induction: a search of the code is the least number
of a set (`HasLeast`, from the well-foundedness of the numbers), and the loop of
`CreateLetEncryptCertificate` over neighbours breaks at the least domain whose
certificate is not the first one's (`NeighboursEqual`).

* `AdoptionIsUnanimous`, `AdoptedIsValid`, `PriorityIsHonoured`: the last one needs
  that no certificate is for a wildcard of a top-level domain (`NamesAssumption`):
  for a domain of two labels `ExtractRootDomain` returns all of it, and a certificate for
  `*.com`, which no authority issues, would be passed over.  `AdoptedIsValid` keeps
  the property's condition of more than two labels.
* `AskedPortIsUsed`: the names "tcp" and "udp" are not among the words of ports,
  and no port has the number 0.
* `TokenIsNearest`: the candidates start with the names in the nearest namespace.
* `MatchingHostIsFound`: lists without duplicates have the same elements if one
  contains the other and they are as long (`ListSize`); the query for the first domain
  leaves no such host out.

### Assumptions, and what is only model-checked

The named assumptions: `NoKey`, `NoObj`, `NoHost`, `NoInit`, `NoId` and `NoRemote` are none
of the values they stand beside (`NullsAssumption` of each controller,
`KeysAssumption`); specs and foreign hosts are well typed; bounds are numbers;
`Missing` and `Rejected` are no key pairs (`SecretsAssumption`).

`Failed` is no id; the names of domains are sequences of labels that are not empty.

Only model-checked: the liveness properties `DeletionCompletes`, `Converges`,
`StaysServed`, `GoodSecretIsServed`, `GetsCertificate`, `StaysValid` and
`BecomesCurrent`, because the prover does not do fairness or ENABLED.  Every invariant
and every action property of a run that passes is a theorem.

## 5. Plan

What is left: ProxyHost with `autoCertificateRequest` and with
LetsEncryptCertificate, that is, a certificate that is created within a
reconciliation, or deleted in use.

## 6. Not modelled

* `status.online` of a Stream and `status.proxyHostCount` of an AccessList, which
  nothing reads; the contents of DNS credentials; the text of upstream blocks and
  of advanced configurations.
* The certificate of a Stream is chosen by the same function as that of a
  ProxyHost (`CertificateSelection`) and may fail; it is not part of the body.
* The periodic resynchronisation other than as `Trigger`.
* NPM beyond its answers to the operator.  Its lists are assumed to come in the
  order of the ids.
* Generated deep copies, manifests, flag parsing and wiring in `cmd/main.go`,
  logging and events.
