--------------------------- MODULE TokenController ---------------------------
(***************************************************************************)
(* internal/controller/token/token_controller.go and the token requests of *)
(* pkg/nginxpm/client.go: a Token resource keeps an API token of NPM in    *)
(* its status.  Time passes at any moment, also while Reconcile runs       *)
(* unless the instance is Prompt.  A token is named by the number of its   *)
(* request; what it is worth is kept in expiry and issuer.                 *)
(***************************************************************************)
EXTENDS ControllerHelpers, Integers, FiniteSets

CONSTANTS Endpoints,   \* NPM instances
          TTL,         \* lifetime of a token
          MaxTime,     \* bound: the clock stops
          MaxTokens,   \* bound: tokens ever issued
          MaxOps,      \* bound: user operations
          UserOps,     \* the kinds of operations of an instance
          Prompt,      \* no time passes while Reconcile runs
          NoTimer,     \* no delayed request
          NoClient     \* no token in the NPM client

ASSUME TokenAssumption ==
  /\ TTL \in Nat \ {0}
  /\ MaxTime \in Nat
  /\ MaxTokens \in Nat
  /\ MaxOps \in Nat
  /\ Prompt \in BOOLEAN

Serials == 1 .. MaxTokens

Nil == 0

VARIABLES pc,       \* where Reconcile is
          login,    \* the content of the Secret that Reconcile has read
          client,   \* token and expiry of the NPM client
          delay,    \* requeueAfter
          timer,    \* timer[k]: when a delayed request for k is due
          now,      \* the clock
          secret,   \* secret[k]: the content of the Secret of k
          issued,   \* tokens issued so far
          expiry,   \* expiry[t]: when token t expires
          issuer,   \* issuer[t]: the endpoint that issued t
          dropped,  \* history: resources whose last reconciliation ended with
                    \* nothing scheduled, since a status write failed or the
                    \* token expired meanwhile
          ops       \* user operations so far

localVars == <<pc, login, client, delay>>
npmVars   == <<issued, expiry, issuer>>
vars == <<kubeVars, helperVars, localVars, timer, now, secret, npmVars, dropped, ops>>

Live(k) == api[k] # NoObj

Logins == {"missing", "wrong", "right"}

\* A Secret without one of its two fields is as good as none.
Readable(s) == s # "missing"

\* The Ready condition states the expiry in its message.
Token ==
  [spec: Endpoints, token: Serials \cup {Nil}, expires: Nat,
   conds: SUBSET {"Reconciling", "Error", "Ready"}, message: Nat]

ASSUME NullsAssumption ==
  /\ NoObj \notin Token
  /\ NoTimer \notin Nat
  /\ NoClient \notin [token: Serials, expires: Nat]

\* Mutant: the expiry starts as Go's zero time, before the clock's origin.
NewTokenZeroTime(e) ==
  [spec |-> e, token |-> Nil, expires |-> 0 - 1, conds |-> {}, message |-> 0]

NewToken(e) == [spec |-> e, token |-> Nil, expires |-> 0, conds |-> {}, message |-> 0]

PCs == {"idle", "reconciling", "secret", "connect", "create", "record", "schedule", "ready",
        "fail", "done", "requeue", "later"}

Cached == IF cache[req] = NoObj THEN obj ELSE cache[req]

SetCondition(o, type) == [o EXCEPT !.conds = @ \cup {type}]

Unchanged == <<timer, now, secret, ops>>
-----------------------------------------------------------------------------
(* Reconcile                                                                *)

Dequeue(k) ==
  /\ pc = "idle"
  /\ k \in queue
  /\ queue' = queue \ {k}
  /\ IF cache[k] = NoObj
     THEN UNCHANGED <<req, obj, fresh, pc>>
     ELSE GetObject(k) /\ req' = k /\ pc' = "reconciling"
  /\ dropped' = dropped \ {k}
  /\ UNCHANGED <<api, cache, watch, faults, login, client, delay, npmVars, Unchanged>>

\* A new resource is only marked; the event of that write is to bring the key
\* back.
MarkReconciling ==
  /\ pc = "reconciling"
  /\ IF obj.conds = {}
     THEN /\ \E ok \in BOOLEAN :
               /\ UpdateStatus(SetCondition(Cached, "Reconciling"), ok)
               /\ dropped' = IF ok THEN dropped ELSE dropped \cup {req}
          /\ pc' = "done"
     ELSE pc' = "secret" /\ UNCHANGED <<api, watch, obj, fresh, faults, dropped>>
  /\ UNCHANGED <<cache, queue, req, login, client, delay, npmVars, Unchanged>>

hasValidToken == obj.token # Nil /\ obj.expires > now

\* The Secret must be readable even when the recorded token is still valid.
ReadSecret ==
  /\ pc = "secret"
  /\ IF Readable(secret[req])
     THEN /\ login' = secret[req]
          /\ client' = IF hasValidToken THEN [token |-> obj.token, expires |-> obj.expires]
                       ELSE NoClient
          /\ pc' = "connect"
     ELSE pc' = "fail" /\ UNCHANGED <<login, client>>
  /\ UNCHANGED <<kubeVars, helperVars, delay, npmVars, dropped, Unchanged>>

\* A connection is all that is checked of a token from the status.
CheckConnection ==
  /\ pc = "connect"
  /\ \/ pc' = (IF client = NoClient THEN "create" ELSE "record") /\ UNCHANGED faults
     \/ Fault("npm") /\ pc' = "fail"
  /\ UNCHANGED <<kubeVars, req, obj, fresh, login, client, delay, npmVars, dropped, Unchanged>>

\* NPM issues a token.
Issue(endpoint) ==
  /\ issued < MaxTokens
  /\ issued' = issued + 1
  /\ expiry' = [expiry EXCEPT ![issued + 1] = now + TTL]
  /\ issuer' = [issuer EXCEPT ![issued + 1] = endpoint]

CreateClientToken ==
  /\ pc = "create"
  /\ \/ /\ login = "right"
        /\ Issue(obj.spec)
        /\ client' = [token |-> issued + 1, expires |-> now + TTL]
        /\ pc' = "record"
        /\ UNCHANGED faults
     \/ login # "right" /\ pc' = "fail" /\ UNCHANGED <<client, npmVars, faults>>
     \/ Fault("npm") /\ pc' = "fail" /\ UNCHANGED <<client, npmVars>>
     \/ login = "right" /\ Fault("lost") /\ Issue(obj.spec) /\ pc' = "fail" /\ UNCHANGED client
  /\ UNCHANGED <<kubeVars, req, obj, fresh, login, delay, dropped, Unchanged>>

initNginxPMClient == ReadSecret \/ CheckConnection \/ CreateClientToken

\* Mutant: the token is recorded and the expiry of the last one kept.
RecordTokenOnly ==
  /\ pc = "record"
  /\ IF obj.token = client.token
     THEN pc' = "schedule" /\ UNCHANGED <<api, watch, obj, fresh, faults, dropped>>
     ELSE \E ok \in BOOLEAN :
            /\ UpdateStatus([Cached EXCEPT !.token = client.token], ok)
            /\ pc' = IF ok THEN "schedule" ELSE "done"
            /\ dropped' = IF ok THEN dropped ELSE dropped \cup {req}
  /\ UNCHANGED <<cache, queue, req, login, client, delay, npmVars, Unchanged>>

\* A token that could not be recorded ends the reconciliation without an error
\* and without a delay.
RecordToken ==
  /\ pc = "record"
  /\ IF obj.token = client.token
     THEN pc' = "schedule" /\ UNCHANGED <<api, watch, obj, fresh, faults, dropped>>
     ELSE \E ok \in BOOLEAN :
            /\ UpdateStatus([Cached EXCEPT !.token = client.token, !.expires = client.expires], ok)
            /\ pc' = IF ok THEN "schedule" ELSE "done"
            /\ dropped' = IF ok THEN dropped ELSE dropped \cup {req}
  /\ UNCHANGED <<cache, queue, req, login, client, delay, npmVars, Unchanged>>

\* The delay is what is left of the token's life; it may be negative.
RequeueAfter ==
  /\ pc = "schedule"
  /\ delay' = client.expires - now
  /\ pc' = "ready"
  /\ UNCHANGED <<kubeVars, helperVars, login, client, npmVars, dropped, Unchanged>>

MarkReady ==
  /\ pc = "ready"
  /\ \E ok \in BOOLEAN :
       UpdateStatus([SetCondition(Cached, "Ready") EXCEPT !.message = client.expires], ok)
  /\ pc' = "later"
  /\ UNCHANGED <<cache, queue, req, login, client, delay, npmVars, dropped, Unchanged>>

MarkError ==
  /\ pc = "fail"
  /\ \E ok \in BOOLEAN : UpdateStatus(SetCondition(Cached, "Error"), ok)
  /\ pc' = "requeue"
  /\ UNCHANGED <<cache, queue, req, login, client, delay, npmVars, dropped, Unchanged>>

Reset ==
  /\ pc' = "idle"
  /\ req' = NoKey
  /\ obj' = NoObj
  /\ fresh' = FALSE
  /\ login' = "missing"
  /\ client' = NoClient
  /\ delay' = 0

\* Mutant: the result of Reconcile is dropped, as in the certificate reconcilers.
AddAfterDropped(k) == timer[k]

\* The delaying queue keeps the earlier of two times for a key, and a delay
\* that is not positive is no delay at all.
AddAfter(k) ==
  IF delay <= 0 THEN timer[k]
  ELSE IF timer[k] # NoTimer /\ timer[k] < now + delay THEN timer[k]
  ELSE now + delay

\* Reconcile returns; an error queues the key again.
Return ==
  /\ pc \in {"done", "requeue", "later"}
  /\ queue' = IF pc = "requeue" THEN queue \cup {req} ELSE queue
  /\ timer' = IF pc = "later" THEN [timer EXCEPT ![req] = AddAfter(req)] ELSE timer
  /\ dropped' = IF pc = "later" /\ delay <= 0 THEN dropped \cup {req} ELSE dropped
  /\ Reset
  /\ UNCHANGED <<api, cache, watch, faults, npmVars, now, secret, ops>>

Reconcile ==
  \/ MarkReconciling
  \/ initNginxPMClient
  \/ RecordToken
  \/ RequeueAfter
  \/ MarkReady
  \/ MarkError
  \/ Return
-----------------------------------------------------------------------------
(* The environment                                                          *)

TimerFires(k) ==
  /\ timer[k] # NoTimer
  /\ timer[k] <= now
  /\ timer' = [timer EXCEPT ![k] = NoTimer]
  /\ queue' = queue \cup {k}
  /\ UNCHANGED <<api, cache, watch, helperVars, localVars, npmVars, now, secret, dropped, ops>>

\* A token lives for a day, a reconciliation for seconds: a prompt operator does
\* not see time pass in between.
Tick ==
  /\ now < MaxTime
  /\ Prompt => pc = "idle"
  /\ now' = now + 1
  /\ UNCHANGED <<kubeVars, helperVars, localVars, npmVars, timer, secret, dropped, ops>>

WatchEvent(k) ==
  /\ Deliver(k)
  /\ UNCHANGED <<helperVars, localVars, npmVars, dropped, Unchanged>>

Op(kind) ==
  /\ kind \in UserOps
  /\ ops < MaxOps
  /\ ops' = ops + 1

\* A Token has no finalizer: deleted, it is gone.
UserWrite(k, v) ==
  /\ v # api[k]
  /\ Publish(k, v)
  /\ fresh' = (fresh /\ req # k)
  /\ UNCHANGED <<cache, queue, req, obj, faults, localVars, npmVars, timer, now, secret, dropped>>

UserCreate(k, e) == Op("create") /\ ~Live(k) /\ UserWrite(k, NewToken(e))
UserEdit(k, e) == Op("edit") /\ Live(k) /\ UserWrite(k, [api[k] EXCEPT !.spec = e])
UserDelete(k) == Op("delete") /\ Live(k) /\ UserWrite(k, NoObj)

\* findObjectsForSecret queues the tokens that name the Secret.
SecretChange(k, s) ==
  /\ Op("secret")
  /\ s # secret[k]
  /\ secret' = [secret EXCEPT ![k] = s]
  /\ queue' = IF cache[k] # NoObj THEN queue \cup {k} ELSE queue
  /\ UNCHANGED <<api, cache, watch, helperVars, localVars, npmVars, timer, now, dropped>>

\* Delayed requests are lost with the process.
Crash ==
  /\ Fault("crash")
  /\ Relist
  /\ Reset
  /\ timer' = [k \in Keys |-> NoTimer]
  /\ UNCHANGED <<npmVars, now, secret, dropped, ops>>

Environment ==
  \/ \E k \in Keys :
       \/ \E e \in Endpoints : UserCreate(k, e) \/ UserEdit(k, e)
       \/ \E s \in Logins : SecretChange(k, s)
       \/ UserDelete(k)
  \/ Tick
  \/ Crash

Init ==
  /\ api = [k \in Keys |-> NoObj]
  /\ cache = [k \in Keys |-> NoObj]
  /\ watch = [k \in Keys |-> << >>]
  /\ queue = {}
  /\ pc = "idle" /\ req = NoKey /\ obj = NoObj /\ fresh = FALSE
  /\ login = "missing" /\ client = NoClient /\ delay = 0
  /\ timer = [k \in Keys |-> NoTimer]
  /\ now = 0
  /\ secret \in [Keys -> Logins]
  /\ issued = 0
  /\ expiry = [t \in Serials |-> 0]
  /\ issuer = [t \in Serials |-> NoClient]
  /\ faults = 0 /\ ops = 0 /\ dropped = {}

Next ==
  \/ \E k \in Keys : Dequeue(k) \/ TimerFires(k) \/ WatchEvent(k)
  \/ Reconcile
  \/ Environment

Spec == Init /\ [][Next]_vars

(* The worker runs, events arrive, timers fire and the queue is first in,   *)
(* first out.  Nothing makes the clock or users act.                        *)
FairSpec ==
  /\ Spec
  /\ WF_vars(Reconcile)
  /\ \A k \in Keys : WF_vars(WatchEvent(k)) /\ WF_vars(TimerFires(k)) /\ SF_vars(Dequeue(k))
-----------------------------------------------------------------------------
\* Every stored, cached or delivered object is a Token and the worker's
\* variables have the types of the Go variables they stand for.
TypeOK ==
  /\ api \in [Keys -> Token \cup {NoObj}]
  /\ cache \in [Keys -> Token \cup {NoObj}]
  /\ watch \in [Keys -> Seq(Token \cup {NoObj})]
  /\ queue \subseteq Keys
  /\ req \in Keys \cup {NoKey}
  /\ obj \in Token \cup {NoObj}
  /\ fresh \in BOOLEAN /\ faults \in Nat
  /\ pc \in PCs
  /\ login \in Logins
  /\ client \in [token: Serials, expires: Nat] \cup {NoClient}
  /\ delay \in Int
  /\ timer \in [Keys -> Nat \cup {NoTimer}]
  /\ now \in Nat
  /\ secret \in [Keys -> Logins]
  /\ issued \in Nat
  /\ expiry \in [Serials -> Nat]
  /\ issuer \in [Serials -> Endpoints \cup {NoClient}]
  /\ dropped \subseteq Keys
  /\ ops \in Nat

\* A Token resource is never abandoned: a request for it is being handled, is
\* queued, is due at some time, or a version of it is still to be delivered.
\* Only a failed status write or a token that expires while Reconcile runs can
\* end that, and no other request that fails, is lost or is interrupted.
RefreshIsScheduled ==
  \A k \in Keys : Live(k) =>
    req = k \/ k \in queue \/ timer[k] # NoTimer \/ ~Fresh(k) \/ k \in dropped

\* The recorded expiry is that of the recorded token, which NPM issued, also
\* when a token was issued twice because an answer or a status was lost.
ExpiryIsTheTokens ==
  \A k \in Keys : Live(k) /\ api[k].token # Nil =>
    api[k].token <= issued /\ api[k].expires = expiry[api[k].token]

\* A resource whose credentials stay right and that is not dropped has, in the
\* end and for good, a token that is valid or whose replacement is due.
StaysValid ==
  \A k \in Keys :
    <>[](Live(k) /\ secret[k] = "right" /\ k \notin dropped) =>
      <>[](Live(k) /\ api[k].token # Nil /\ (api[k].expires > now \/ (timer[k] # NoTimer /\ timer[k] > now)))
===============================================================================
