-------------------------------- MODULE TokenProofs --------------------------------
(***************************************************************************)
(* Theorems about TokenController, for every value of the constants.       *)
(***************************************************************************)
EXTENDS TokenController, HelperProofs

\* A token and when it expires.
Clients == [token: Serials, expires: Nat]

\* What the worker holds while it works.
WorkerInv ==
  /\ pc = "idle" => req = NoKey /\ client = NoClient
  /\ pc # "idle" => req \in Keys /\ obj \in Token
  /\ pc \in {"record", "schedule", "ready"} => client \in Clients
  /\ issued \in 0 .. MaxTokens

\* The types, and how the cache follows the server.
TokenInv == TypeOK /\ WorkerInv /\ CacheFollows

\* Versions and their types.
LEMMA VersionTypes ==
  ASSUME TypeOK, NEW k \in Keys, NEW x \in Seen(k), x # NoObj
  PROVE  x \in Token
<1>1. cache[k] \in Token \cup {NoObj} /\ watch[k] \in Seq(Token \cup {NoObj})
  BY DEF TypeOK
<1> QED BY <1>1 DEF Seen

\* What a status write comes to: nothing, a changed copy in the worker's hands,
\* or that copy stored over the version it was made of.
LEMMA StatusCases ==
  ASSUME TokenInv, pc # "idle", NEW v, NEW ok \in BOOLEAN, UpdateStatus(v, ok),
         cache[req] # NoObj => v \in Token, UNCHANGED <<cache, req>>
  PROVE  /\ api' \in [Keys -> Token \cup {NoObj}] /\ watch' \in [Keys -> Seq(Token \cup {NoObj})]
         /\ obj' \in Token /\ fresh' \in BOOLEAN /\ faults' \in Nat
         /\ CacheFollows'
         /\ obj' = obj \/ (cache[req] # NoObj /\ obj' = v)
         /\ UNCHANGED <<api, watch>> \/ (cache[req] # NoObj /\ Publish(req, v))
<1> DEFINE S == Token \cup {NoObj}
<1>1. /\ api \in [Keys -> S] /\ watch \in [Keys -> Seq(S)] /\ cache \in [Keys -> S]
      /\ req \in Keys /\ obj \in Token /\ obj \in S /\ fresh \in BOOLEAN /\ faults \in Nat
      /\ NoObj \in S /\ obj # NoObj /\ CacheFollows
      /\ cache[req] # NoObj => v \in S \ {NoObj}
      /\ S \ {NoObj} = Token
  BY NullsAssumption DEF TokenInv, TypeOK, WorkerInv
<1> HIDE DEF S
<1>2. /\ api' \in [Keys -> S] /\ watch' \in [Keys -> Seq(S)]
      /\ obj' \in S \ {NoObj} /\ fresh' \in BOOLEAN /\ faults' \in Nat
  BY <1>1, UpdateStatusKeeps
<1>3. /\ obj' = obj \/ (cache[req] # NoObj /\ obj' = v)
      /\ UNCHANGED <<api, watch>> \/ (cache[req] # NoObj /\ Publish(req, v))
  BY DEF UpdateStatus
<1>4. CacheFollows'
  <2>1. CASE UNCHANGED <<api, watch>>
    BY <1>1, <2>1 DEF CacheFollows
  <2>2. CASE cache[req] # NoObj /\ Publish(req, v)
    BY <1>1, <2>2, PublishFollows
  <2> QED BY <1>3, <2>1, <2>2
<1> QED BY <1>1, <1>2, <1>3, <1>4 DEF S

-----------------------------------------------------------------------------
(* Types                                                                    *)

\* The variables that status writes leave alone.
Rest == <<cache, queue, req, login, client, delay, npmVars, Unchanged>>

\* A step that writes the status, as every one of them does.
LEMMA StatusTypes ==
  ASSUME TokenInv, pc # "idle", NEW v, NEW ok \in BOOLEAN, UpdateStatus(v, ok),
         cache[req] # NoObj => v \in Token,
         UNCHANGED Rest, dropped' \in {dropped, dropped \cup {req}},
         \/ pc \in {"reconciling", "fail", "ready"} /\ pc' \in {"done", "requeue", "later"}
         \/ pc = "record" /\ pc' \in {"schedule", "done"}
  PROVE  TokenInv'
<1>1. UNCHANGED <<cache, queue, req, login, client, delay, issued, expiry, issuer, timer, now,
                  secret, ops>>
  BY DEF Rest, npmVars, Unchanged
<1>2. /\ api' \in [Keys -> Token \cup {NoObj}] /\ watch' \in [Keys -> Seq(Token \cup {NoObj})]
      /\ obj' \in Token /\ fresh' \in BOOLEAN /\ faults' \in Nat
      /\ CacheFollows'
  BY <1>1, StatusCases
<1>3. pc' \in PCs /\ dropped' \subseteq Keys
  BY DEF PCs, TokenInv, TypeOK, WorkerInv
<1>4. TypeOK'
  BY <1>1, <1>2, <1>3 DEF TokenInv, TypeOK
<1>5. WorkerInv'
  BY <1>1, <1>2 DEF TokenInv, WorkerInv
<1> QED BY <1>2, <1>4, <1>5 DEF TokenInv

\* The versions that the reconciler writes.
LEMMA Writes ==
  ASSUME TokenInv, pc # "idle", cache[req] # NoObj
  PROVE  /\ Cached = cache[req] /\ Cached \in Token
         /\ \A type \in {"Reconciling", "Error", "Ready"} :
              /\ SetCondition(Cached, type) \in Token
              /\ SetCondition(Cached, type).token = Cached.token
              /\ SetCondition(Cached, type).expires = Cached.expires
         /\ client \in Clients =>
              LET r == [Cached EXCEPT !.token = client.token, !.expires = client.expires]
                  m == [SetCondition(Cached, "Ready") EXCEPT !.message = client.expires]
              IN  /\ r \in Token /\ r.token = client.token /\ r.expires = client.expires
                  /\ m \in Token /\ m.token = Cached.token /\ m.expires = Cached.expires
<1>1. Cached = cache[req] /\ Cached \in Token
  BY DEF Cached, TokenInv, TypeOK, WorkerInv
<1> HIDE DEF Cached
<1>2. ASSUME NEW type \in {"Reconciling", "Error", "Ready"}
      PROVE  /\ SetCondition(Cached, type) \in Token
             /\ SetCondition(Cached, type).token = Cached.token
             /\ SetCondition(Cached, type).expires = Cached.expires
  BY <1>1 DEF Token, SetCondition
<1>3. ASSUME client \in Clients
      PROVE  LET r == [Cached EXCEPT !.token = client.token, !.expires = client.expires]
             IN  r \in Token /\ r.token = client.token /\ r.expires = client.expires
  BY <1>1, <1>3 DEF Token, Clients
<1>4. ASSUME client \in Clients
      PROVE  LET m == [SetCondition(Cached, "Ready") EXCEPT !.message = client.expires]
             IN  m \in Token /\ m.token = Cached.token /\ m.expires = Cached.expires
  BY <1>1, <1>2, <1>4 DEF Token, SetCondition, Clients
<1> QED BY <1>1, <1>2, <1>3, <1>4


\* The steps of Reconcile that write the status.
LEMMA WritingTypes ==
  ASSUME TokenInv, MarkReconciling \/ RecordToken \/ MarkReady \/ MarkError
  PROVE  TokenInv'
<1>1. CASE MarkReconciling /\ obj.conds = {}
  <2>1. PICK ok \in BOOLEAN :
          /\ UpdateStatus(SetCondition(Cached, "Reconciling"), ok)
          /\ dropped' = IF ok THEN dropped ELSE dropped \cup {req}
    BY <1>1 DEF MarkReconciling
  <2>2. pc = "reconciling" /\ pc' = "done" /\ UNCHANGED Rest
    BY <1>1 DEF MarkReconciling, Rest
  <2> QED BY <2>1, <2>2, Writes, StatusTypes
<1>2. CASE MarkReconciling /\ obj.conds # {}
  <2>1. /\ pc = "reconciling" /\ pc' = "secret"
        /\ UNCHANGED <<kubeVars, helperVars, login, client, delay, npmVars, dropped, Unchanged>>
    BY <1>2 DEF MarkReconciling, kubeVars, helperVars
  <2>2. TypeOK' /\ WorkerInv' /\ CacheFollows'
    BY <2>1 DEF TokenInv, TypeOK, WorkerInv, CacheFollows, PCs, kubeVars, helperVars, npmVars,
                Unchanged
  <2> QED BY <2>2 DEF TokenInv
<1>3. CASE RecordToken /\ obj.token # client.token
  <2> DEFINE v == [Cached EXCEPT !.token = client.token, !.expires = client.expires]
  <2>1. PICK ok \in BOOLEAN :
          /\ UpdateStatus(v, ok)
          /\ pc' = (IF ok THEN "schedule" ELSE "done")
          /\ dropped' = IF ok THEN dropped ELSE dropped \cup {req}
    BY <1>3 DEF RecordToken
  <2>2. pc = "record" /\ UNCHANGED Rest
    BY <1>3 DEF RecordToken, Rest
  <2>3. client \in Clients
    BY <2>2 DEF TokenInv, WorkerInv
  <2>4. cache[req] # NoObj => v \in Token
    BY <2>2, <2>3, Writes
  <2> HIDE DEF v
  <2> QED BY <2>1, <2>2, <2>4, StatusTypes
<1>4. CASE RecordToken /\ obj.token = client.token
  <2>1. /\ pc = "record" /\ pc' = "schedule"
        /\ UNCHANGED <<kubeVars, helperVars, login, client, delay, npmVars, dropped, Unchanged>>
    BY <1>4 DEF RecordToken, kubeVars, helperVars
  <2>2. TypeOK' /\ WorkerInv' /\ CacheFollows'
    BY <2>1 DEF TokenInv, TypeOK, WorkerInv, CacheFollows, PCs, kubeVars, helperVars, npmVars,
                Unchanged
  <2> QED BY <2>2 DEF TokenInv
<1>5. CASE MarkReady
  <2> DEFINE v == [SetCondition(Cached, "Ready") EXCEPT !.message = client.expires]
  <2>1. PICK ok \in BOOLEAN : UpdateStatus(v, ok)
    BY <1>5 DEF MarkReady
  <2>2. pc = "ready" /\ pc' = "later" /\ dropped' = dropped /\ UNCHANGED Rest
    BY <1>5 DEF MarkReady, Rest
  <2>3. client \in Clients
    BY <2>2 DEF TokenInv, WorkerInv
  <2>4. cache[req] # NoObj => v \in Token
    BY <2>2, <2>3, Writes
  <2> HIDE DEF v
  <2> QED BY <2>1, <2>2, <2>4, StatusTypes
<1>6. CASE MarkError
  <2>1. PICK ok \in BOOLEAN : UpdateStatus(SetCondition(Cached, "Error"), ok)
    BY <1>6 DEF MarkError
  <2>2. pc = "fail" /\ pc' = "requeue" /\ dropped' = dropped /\ UNCHANGED Rest
    BY <1>6 DEF MarkError, Rest
  <2> QED BY <2>1, <2>2, Writes, StatusTypes
<1> QED BY <1>1, <1>2, <1>3, <1>4, <1>5, <1>6

\* The other steps of Reconcile.
LEMMA ReadingTypes ==
  ASSUME TokenInv, initNginxPMClient \/ RequeueAfter \/ Return
  PROVE  TokenInv'
<1>0. /\ TypeOK /\ WorkerInv /\ CacheFollows /\ pc # "idle" /\ req \in Keys /\ obj \in Token
      /\ obj.token \in Serials \cup {Nil} /\ obj.expires \in Nat /\ obj.spec \in Endpoints
      /\ now \in Nat /\ TTL \in Nat
  BY TokenAssumption
  DEF TokenInv, WorkerInv, initNginxPMClient, ReadSecret, CheckConnection, CreateClientToken,
      RequeueAfter, Return, Token, TypeOK
<1>1. CASE ReadSecret
  <2>1. /\ pc = "secret" /\ pc' \in {"connect", "fail"}
        /\ UNCHANGED <<kubeVars, helperVars, delay, npmVars, dropped, Unchanged>>
        /\ login' \in {login, secret[req]}
        /\ \/ client' \in {client, NoClient}
           \/ /\ hasValidToken /\ client' = [token |-> obj.token, expires |-> obj.expires]
    BY <1>1 DEF ReadSecret
  <2>2. client' \in Clients \cup {NoClient}
    BY <1>0, <2>1 DEF TypeOK, Clients, hasValidToken
  <2>3. login' \in Logins
    BY <1>0, <2>1 DEF TypeOK
  <2>4. TypeOK' /\ WorkerInv' /\ CacheFollows'
    BY <1>0, <2>1, <2>2, <2>3
    DEF TypeOK, WorkerInv, CacheFollows, PCs, Clients, kubeVars, helperVars, npmVars, Unchanged
  <2> QED BY <2>4 DEF TokenInv
<1>2. CASE CheckConnection
  <2>1. /\ pc = "connect" /\ pc' \in {"create", "record", "fail"}
        /\ pc' = "record" => client # NoClient
        /\ UNCHANGED <<kubeVars, req, obj, fresh, login, client, delay, npmVars, dropped, Unchanged>>
        /\ faults' \in Nat
    BY <1>0, <1>2, FaultKeeps DEF CheckConnection, TypeOK
  <2>2. TypeOK' /\ WorkerInv' /\ CacheFollows'
    BY <1>0, <2>1
    DEF TypeOK, WorkerInv, CacheFollows, PCs, Clients, kubeVars, npmVars, Unchanged
  <2> QED BY <2>2 DEF TokenInv
<1>3. CASE CreateClientToken
  <2>1. /\ pc = "create" /\ pc' \in {"record", "fail"}
        /\ UNCHANGED <<kubeVars, req, obj, fresh, login, delay, dropped, Unchanged>>
        /\ faults' \in Nat
        /\ UNCHANGED npmVars \/ Issue(obj.spec)
        /\ \/ pc' = "fail" /\ UNCHANGED client
           \/ Issue(obj.spec) /\ client' = [token |-> issued + 1, expires |-> now + TTL]
    BY <1>0, <1>3, FaultKeeps DEF CreateClientToken, TypeOK
  <2>2. ASSUME Issue(obj.spec)
        PROVE  /\ issued + 1 \in Serials /\ issued' \in 0 .. MaxTokens
               /\ expiry' \in [Serials -> Nat] /\ issuer' \in [Serials -> Endpoints \cup {NoClient}]
    BY <1>0, <2>2, TokenAssumption DEF Issue, Serials, TypeOK, WorkerInv
  <2>3. /\ issued' \in 0 .. MaxTokens /\ issued' \in Nat
        /\ expiry' \in [Serials -> Nat] /\ issuer' \in [Serials -> Endpoints \cup {NoClient}]
    BY <1>0, <2>1, <2>2, TokenAssumption DEF TypeOK, WorkerInv, npmVars
  <2>4. client' \in Clients \cup {NoClient} /\ (pc' = "record" => client' \in Clients)
    <3>1. Issue(obj.spec) => [token |-> issued + 1, expires |-> now + TTL] \in Clients
      BY <1>0, <2>2 DEF Clients
    <3> QED BY <1>0, <2>1, <3>1 DEF TypeOK, Clients
  <2>5. TypeOK' /\ WorkerInv' /\ CacheFollows'
    BY <1>0, <2>1, <2>3, <2>4
    DEF TypeOK, WorkerInv, CacheFollows, PCs, Clients, kubeVars, Unchanged
  <2> QED BY <2>5 DEF TokenInv
<1>4. CASE RequeueAfter
  <2>1. client.expires - now \in Int
    BY <1>0, <1>4 DEF RequeueAfter, WorkerInv, Clients
  <2>2. TypeOK' /\ WorkerInv' /\ CacheFollows'
    BY <1>0, <1>4, <2>1
    DEF RequeueAfter, TypeOK, WorkerInv, CacheFollows, PCs, kubeVars, helperVars, npmVars, Unchanged
  <2> QED BY <2>2 DEF TokenInv
<1>5. CASE Return
  <2>1. /\ UNCHANGED <<api, cache, watch, faults, npmVars, now, secret, ops>>
        /\ queue' \subseteq Keys /\ dropped' \subseteq Keys
        /\ pc' = "idle" /\ req' = NoKey /\ obj' = NoObj /\ fresh' = FALSE
        /\ login' = "missing" /\ client' = NoClient /\ delay' = 0
    BY <1>0, <1>5 DEF Return, Reset, TypeOK
  <2>2. AddAfter(req) \in Nat \cup {NoTimer}
    BY <1>0 DEF AddAfter, TypeOK
  <2>3. timer' \in [Keys -> Nat \cup {NoTimer}]
    BY <1>0, <1>5, <2>2 DEF Return, TypeOK
  <2>4. TypeOK'
    <3>1. pc' \in PCs /\ login' \in Logins /\ delay' \in Int
      BY <2>1 DEF PCs, Logins
    <3> QED BY <1>0, <2>1, <2>3, <3>1 DEF TypeOK, npmVars
  <2>5. WorkerInv' /\ CacheFollows'
    BY <1>0, <2>1 DEF WorkerInv, CacheFollows, npmVars
  <2> QED BY <2>4, <2>5 DEF TokenInv
<1> QED BY <1>1, <1>2, <1>3, <1>4, <1>5 DEF initNginxPMClient

\* The steps of users, time, the watch and the work queue.
LEMMA OutsideTypes ==
  ASSUME TokenInv,
         \/ \E k \in Keys : Dequeue(k) \/ TimerFires(k) \/ WatchEvent(k)
         \/ Environment
         \/ UNCHANGED vars
  PROVE  TokenInv'
<1> DEFINE S == Token \cup {NoObj}
<1>0. /\ TypeOK /\ WorkerInv /\ CacheFollows
      /\ api \in [Keys -> S] /\ cache \in [Keys -> S] /\ watch \in [Keys -> Seq(S)]
      /\ queue \subseteq Keys /\ faults \in Nat
  BY DEF TokenInv, TypeOK
<1>1. ASSUME NEW k \in Keys, Dequeue(k)
      PROVE  TokenInv'
  <2>1. /\ UNCHANGED <<api, cache, watch, faults, login, client, delay, npmVars, Unchanged>>
        /\ queue' \subseteq Keys /\ dropped' \subseteq Keys /\ pc = "idle"
        /\ \/ UNCHANGED <<req, obj, fresh, pc>>
           \/ /\ cache[k] # NoObj /\ obj' = cache[k] /\ fresh' = Fresh(k)
              /\ req' = k /\ pc' = "reconciling"
    BY <1>0, <1>1 DEF Dequeue, GetObject, TypeOK
  <2>2. Fresh(k) \in BOOLEAN
    BY DEF Fresh
  <2>3. TypeOK' /\ WorkerInv' /\ CacheFollows'
    BY <1>0, <2>1, <2>2 DEF TypeOK, WorkerInv, CacheFollows, PCs, npmVars, Unchanged
  <2> QED BY <2>3 DEF TokenInv
<1>2. ASSUME NEW k \in Keys, TimerFires(k)
      PROVE  TokenInv'
  BY <1>0, <1>2
  DEF TimerFires, TokenInv, TypeOK, WorkerInv, CacheFollows, helperVars, localVars, npmVars
<1>3. ASSUME NEW k \in Keys, WatchEvent(k)
      PROVE  TokenInv'
  <2>1. Deliver(k) /\ UNCHANGED <<helperVars, localVars, npmVars, dropped, Unchanged>>
    BY <1>3 DEF WatchEvent
  <2>2. /\ cache' \in [Keys -> S] /\ watch' \in [Keys -> Seq(S)] /\ queue' \subseteq Keys
        /\ UNCHANGED api
    BY <1>0, <2>1, DeliverKeeps
  <2>3. CacheFollows'
    BY <1>0, <2>1, DeliverFollows
  <2>4. TypeOK' /\ WorkerInv'
    BY <1>0, <2>1, <2>2 DEF TypeOK, WorkerInv, helperVars, localVars, npmVars, Unchanged
  <2> QED BY <2>3, <2>4 DEF TokenInv
<1>4. ASSUME NEW k \in Keys,
             \/ \E e \in Endpoints : UserCreate(k, e) \/ UserEdit(k, e)
             \/ UserDelete(k)
      PROVE  TokenInv'
  <2>1. PICK v \in S : UserWrite(k, v) /\ ops' = ops + 1
    <3>1. \A e \in Endpoints : NewToken(e) \in Token
      BY DEF NewToken, Token
    <3>2. \A e \in Endpoints : Live(k) => [api[k] EXCEPT !.spec = e] \in Token
      BY <1>0 DEF Live, Token
    <3> QED BY <1>4, <3>1, <3>2 DEF UserCreate, UserEdit, UserDelete, Op
  <2>2. Publish(k, v) /\ fresh' \in BOOLEAN
        /\ UNCHANGED <<cache, queue, req, obj, faults, localVars, npmVars, timer, now, secret, dropped>>
    BY <1>0, <2>1 DEF UserWrite, TypeOK
  <2> HIDE DEF S
  <2>3. /\ api' \in [Keys -> S] /\ watch' \in [Keys -> Seq(S)] /\ CacheFollows'
    BY <1>0, <2>2, PublishKeeps, PublishFollows
  <2>4. TypeOK' /\ WorkerInv'
    BY <1>0, <2>1, <2>2, <2>3 DEF S, TypeOK, WorkerInv, localVars, npmVars
  <2> QED BY <2>3, <2>4 DEF TokenInv
<1>5. ASSUME NEW k \in Keys, NEW s \in Logins, SecretChange(k, s)
      PROVE  TokenInv'
  BY <1>0, <1>5
  DEF SecretChange, Op, TokenInv, TypeOK, WorkerInv, CacheFollows, helperVars, localVars, npmVars
<1>6. CASE Tick
  BY <1>0, <1>6
  DEF Tick, TokenInv, TypeOK, WorkerInv, CacheFollows, kubeVars, helperVars, localVars, npmVars
<1>7. CASE Crash
  <2>1. /\ Relist /\ faults' \in Nat
        /\ pc' = "idle" /\ req' = NoKey /\ obj' = NoObj /\ fresh' = FALSE
        /\ login' = "missing" /\ client' = NoClient /\ delay' = 0
        /\ timer' = [k \in Keys |-> NoTimer]
        /\ UNCHANGED <<npmVars, now, secret, dropped, ops>>
    BY <1>0, <1>7, FaultKeeps DEF Crash, Reset
  <2>2. /\ cache' \in [Keys -> S] /\ watch' \in [Keys -> Seq(S)] /\ queue' \subseteq Keys
        /\ UNCHANGED api /\ CacheFollows'
    BY <1>0, <2>1, RelistKeeps, RelistFollows
  <2>3. TypeOK'
    <3>1. pc' \in PCs /\ login' \in Logins /\ delay' \in Int
      BY <2>1 DEF PCs, Logins
    <3> QED BY <1>0, <2>1, <2>2, <3>1 DEF TypeOK, npmVars
  <2>4. WorkerInv'
    BY <1>0, <2>1 DEF WorkerInv, npmVars
  <2> QED BY <2>2, <2>3, <2>4 DEF TokenInv
<1>8. CASE UNCHANGED vars
  BY <1>0, <1>8
  DEF vars, TokenInv, TypeOK, WorkerInv, CacheFollows, kubeVars, helperVars, localVars, npmVars
<1> QED BY <1>1, <1>2, <1>3, <1>4, <1>5, <1>6, <1>7, <1>8 DEF Environment

\* Every step keeps the types.
LEMMA NextTypes ==
  ASSUME TokenInv, [Next]_vars
  PROVE  TokenInv'
BY WritingTypes, ReadingTypes, OutsideTypes DEF Next, Reconcile

\* The initial states have them.
LEMMA TokenStarts ==
  ASSUME Init
  PROVE  TokenInv
<1>1. WorkerInv /\ CacheFollows
  BY TokenAssumption DEF Init, WorkerInv, CacheFollows
<1>2. watch \in [Keys -> Seq(Token \cup {NoObj})]
  <2>1. << >> \in Seq(Token \cup {NoObj})
    OBVIOUS
  <2> QED BY <2>1 DEF Init
<1>3. TypeOK
  <2>1. pc \in PCs /\ login \in Logins /\ delay \in Int
    BY DEF Init, PCs, Logins
  <2> QED BY <1>2, <2>1 DEF Init, TypeOK
<1> QED BY <1>1, <1>3 DEF TokenInv

\* Every stored, cached or delivered Token, every Secret's content, every timer
\* and everything the worker holds has its type; above all, the serials that
\* NPM hands out stay those of the model.
THEOREM TokenTypes == Spec => []TypeOK
<1>1. TokenInv => TypeOK
  BY DEF TokenInv
<1> QED BY <1>1, TokenStarts, NextTypes, PTL DEF Spec


-----------------------------------------------------------------------------
(* The expiry that is recorded                                              *)

\* t is no token, or one that NPM issued and that expires at e.
Good(t, e) == t # Nil => t \in 1 .. issued /\ e = expiry[t]

Genuine(x) == Good(x.token, x.expires)

\* Every version, the worker's copy and its client carry a token with the
\* expiry that NPM gave it.
ExpiryInv ==
  /\ \A k \in Keys : \A x \in Seen(k) : x # NoObj => Genuine(x)
  /\ pc # "idle" => Genuine(obj)
  /\ client # NoClient => Genuine(client)

\* A token that NPM issues does not change what the earlier ones are worth.
LEMMA GoodStays ==
  ASSUME TokenInv, UNCHANGED npmVars \/ \E e \in Endpoints : Issue(e)
  PROVE  \A t, e : Good(t, e) => (t # Nil => t \in 1 .. issued' /\ e = expiry'[t])
<1>1. CASE UNCHANGED npmVars
  BY <1>1 DEF npmVars, Good
<1>2. CASE \E e \in Endpoints : Issue(e)
  <2>1. /\ issued \in 0 .. MaxTokens /\ issued' = issued + 1 /\ MaxTokens \in Nat
        /\ expiry' = [expiry EXCEPT ![issued + 1] = now + TTL] /\ expiry \in [Serials -> Nat]
    BY <1>2, TokenAssumption DEF Issue, TokenInv, WorkerInv, TypeOK
  <2>2. \A t \in 1 .. issued : t \in Serials /\ t # issued + 1 /\ t \in 1 .. issued'
    BY <2>1 DEF Serials
  <2> QED BY <2>1, <2>2 DEF Good
<1> QED BY <1>1, <1>2

\* Steps that store, read and connect with what was genuine.
LEMMA ExpiryStep ==
  ASSUME TokenInv, ExpiryInv, UNCHANGED npmVars \/ \E e \in Endpoints : Issue(e),
         \A k \in Keys : \A x \in Seen(k)' : x # NoObj => Good(x.token, x.expires),
         pc' # "idle" => Good(obj'.token, obj'.expires),
         client' # NoClient =>
           \/ Good(client'.token, client'.expires)
           \/ client'.token \in 1 .. issued' /\ client'.expires = expiry'[client'.token]
  PROVE  ExpiryInv'
<1>1. \A t, e : Good(t, e) => (t # Nil => t \in 1 .. issued' /\ e = expiry'[t])
  BY GoodStays
<1>2. \A k \in Keys : \A x \in Seen(k)' : x # NoObj =>
        (x.token # Nil => x.token \in 1 .. issued' /\ x.expires = expiry'[x.token])
  BY <1>1
<1>3. pc' # "idle" => (obj'.token # Nil => obj'.token \in 1 .. issued' /\ obj'.expires = expiry'[obj'.token])
  BY <1>1
<1>4. client' # NoClient =>
        (client'.token # Nil => client'.token \in 1 .. issued' /\ client'.expires = expiry'[client'.token])
  BY <1>1
<1> QED BY <1>2, <1>3, <1>4 DEF ExpiryInv, Genuine, Good

\* What is stored is genuine as long as only genuine versions are written.
LEMMA SeenStaysGenuine ==
  ASSUME TokenInv, ExpiryInv,
         \/ UNCHANGED <<api, cache, watch>>
         \/ \E k \in Keys : \E v \in Token \cup {NoObj} :
              /\ Publish(k, v) /\ UNCHANGED cache
              /\ v # NoObj => Genuine(v)
         \/ \E k \in Keys : Deliver(k)
         \/ Relist
  PROVE  \A k \in Keys : \A x \in Seen(k)' : x # NoObj => Good(x.token, x.expires)
<1> DEFINE S == Token \cup {NoObj}
<1>0. /\ api \in [Keys -> S] /\ cache \in [Keys -> S] /\ watch \in [Keys -> Seq(S)] /\ CacheFollows
      /\ \A k \in Keys : \A x \in Seen(k) : x # NoObj => Good(x.token, x.expires)
  BY DEF TokenInv, TypeOK, ExpiryInv, Genuine
<1> HIDE DEF S
<1>1. CASE UNCHANGED <<api, cache, watch>>
  <2>1. \A k \in Keys : Seen(k)' = Seen(k)
    BY <1>1 DEF Seen
  <2> QED BY <1>0, <2>1
<1>2. ASSUME NEW k \in Keys, NEW v \in S, Publish(k, v), UNCHANGED cache, v # NoObj => Genuine(v)
      PROVE  \A j \in Keys : \A x \in Seen(j)' : x # NoObj => Good(x.token, x.expires)
  <2>1. Seen(k)' \subseteq Seen(k) \cup {v} /\ \A j \in Keys \ {k} : Seen(j)' = Seen(j)
    BY <1>0, <1>2, PublishAdds
  <2> QED BY <1>0, <1>2, <2>1 DEF Genuine
<1>3. ASSUME NEW k \in Keys, Deliver(k)
      PROVE  \A j \in Keys : \A x \in Seen(j)' : x # NoObj => Good(x.token, x.expires)
  <2>1. \A j \in Keys : Seen(j)' \subseteq Seen(j)
    BY <1>0, <1>3, DeliverSeen
  <2> QED BY <1>0, <2>1
<1>4. CASE Relist
  <2>1. \A k \in Keys : Seen(k)' = {api[k]} /\ api[k] \in Seen(k)
    BY <1>0, <1>4, RelistSeen, StoredIsSeen
  <2> QED BY <1>0, <2>1
<1> QED BY <1>1, <1>2, <1>3, <1>4 DEF S

\* Status writes.
LEMMA WritingGenuine ==
  ASSUME TokenInv, ExpiryInv, MarkReconciling \/ RecordToken \/ MarkReady \/ MarkError
  PROVE  ExpiryInv'
<1>0. /\ pc # "idle" /\ req \in Keys /\ UNCHANGED <<cache, req, client, npmVars>>
      /\ pc \in {"record", "ready"} => client \in Clients
      /\ Genuine(obj) /\ (client # NoClient => Genuine(client))
  BY DEF MarkReconciling, RecordToken, MarkReady, MarkError, TokenInv, WorkerInv, ExpiryInv
<1>1. cache[req] # NoObj => Genuine(cache[req]) /\ Cached = cache[req]
  BY <1>0, Writes DEF ExpiryInv, Seen
<1>2. ASSUME NEW v, NEW ok \in BOOLEAN, UpdateStatus(v, ok),
             cache[req] # NoObj => v \in Token /\ Genuine(v)
      PROVE  ExpiryInv'
  <2>1. /\ obj' = obj \/ (cache[req] # NoObj /\ obj' = v)
        /\ UNCHANGED <<api, watch>> \/ (cache[req] # NoObj /\ Publish(req, v))
    BY <1>0, <1>2, StatusCases
  <2>2. \A k \in Keys : \A x \in Seen(k)' : x # NoObj => Good(x.token, x.expires)
    BY <1>0, <1>2, <2>1, SeenStaysGenuine
  <2>3. Good(obj'.token, obj'.expires) /\ (client' # NoClient => Good(client'.token, client'.expires))
    BY <1>0, <1>2, <2>1 DEF Genuine
  <2> QED BY <1>0, <2>2, <2>3, ExpiryStep
<1>3. ASSUME UNCHANGED <<api, watch, obj>>
      PROVE  ExpiryInv'
  <2>1. \A k \in Keys : \A x \in Seen(k)' : x # NoObj => Good(x.token, x.expires)
    BY <1>0, <1>3, SeenStaysGenuine
  <2>2. Good(obj'.token, obj'.expires) /\ (client' # NoClient => Good(client'.token, client'.expires))
    BY <1>0, <1>3 DEF Genuine
  <2> QED BY <1>0, <2>1, <2>2, ExpiryStep
<1>4. ASSUME NEW type \in {"Reconciling", "Error", "Ready"}, cache[req] # NoObj
      PROVE  SetCondition(Cached, type) \in Token /\ Genuine(SetCondition(Cached, type))
  BY <1>0, <1>1, <1>4, Writes DEF Genuine
<1>5. CASE MarkReconciling
  BY <1>2, <1>3, <1>4, <1>5 DEF MarkReconciling
<1>6. CASE RecordToken
  <2> DEFINE v == [Cached EXCEPT !.token = client.token, !.expires = client.expires]
  <2>1. UNCHANGED <<api, watch, obj>> \/ \E ok \in BOOLEAN : UpdateStatus(v, ok)
    BY <1>6 DEF RecordToken
  <2>2. client \in Clients /\ Genuine(client)
    <3>1. client \in Clients /\ pc = "record"
      BY <1>0, <1>6 DEF RecordToken
    <3>2. client # NoClient
      BY <3>1, NullsAssumption DEF Clients
    <3> QED BY <1>0, <3>1, <3>2
  <2>3. cache[req] # NoObj => v \in Token /\ Genuine(v)
    BY <1>0, <2>2, Writes DEF Genuine
  <2> HIDE DEF v
  <2> QED BY <1>2, <1>3, <2>1, <2>3
<1>7. CASE MarkReady
  <2> DEFINE v == [SetCondition(Cached, "Ready") EXCEPT !.message = client.expires]
  <2>1. \E ok \in BOOLEAN : UpdateStatus(v, ok)
    BY <1>7 DEF MarkReady
  <2>2. client \in Clients
    BY <1>0, <1>7 DEF MarkReady
  <2>3. cache[req] # NoObj => v \in Token /\ Genuine(v)
    BY <1>0, <1>1, <2>2, Writes DEF Genuine
  <2> HIDE DEF v
  <2> QED BY <1>2, <2>1, <2>3
<1>8. CASE MarkError
  BY <1>2, <1>4, <1>8 DEF MarkError
<1> QED BY <1>5, <1>6, <1>7, <1>8

\* Reading, connecting and creating a token.
LEMMA ReadingGenuine ==
  ASSUME TokenInv, ExpiryInv, initNginxPMClient \/ RequeueAfter \/ Return
  PROVE  ExpiryInv'
<1>0. /\ pc # "idle" /\ UNCHANGED <<api, cache, watch>>
      /\ Genuine(obj) /\ (client # NoClient => Genuine(client))
  BY DEF initNginxPMClient, ReadSecret, CheckConnection, CreateClientToken, RequeueAfter, Return,
         kubeVars, ExpiryInv
<1>1. \A k \in Keys : \A x \in Seen(k)' : x # NoObj => Good(x.token, x.expires)
  BY <1>0, SeenStaysGenuine
<1>2. CASE Return
  <2>1. pc' = "idle" /\ client' = NoClient /\ UNCHANGED npmVars
    BY <1>2 DEF Return, Reset
  <2> QED BY <1>1, <2>1, ExpiryStep
<1>3. CASE CheckConnection \/ RequeueAfter
  <2>1. UNCHANGED <<obj, client, npmVars>>
    BY <1>3 DEF CheckConnection, RequeueAfter, helperVars
  <2>2. Good(obj'.token, obj'.expires) /\ (client' # NoClient => Good(client'.token, client'.expires))
    BY <1>0, <2>1 DEF Genuine
  <2> QED BY <1>1, <2>1, <2>2, ExpiryStep
<1>4. CASE ReadSecret
  <2>1. /\ UNCHANGED <<obj, npmVars>>
        /\ client' \in {client, NoClient, [token |-> obj.token, expires |-> obj.expires]}
    BY <1>4 DEF ReadSecret, helperVars
  <2>2. Good(obj'.token, obj'.expires) /\ (client' # NoClient => Good(client'.token, client'.expires))
    BY <1>0, <2>1 DEF Genuine
  <2> QED BY <1>1, <2>1, <2>2, ExpiryStep
<1>5. CASE CreateClientToken
  <2>1. /\ UNCHANGED obj /\ pc = "create" /\ obj.spec \in Endpoints
        /\ UNCHANGED npmVars \/ Issue(obj.spec)
        /\ \/ UNCHANGED client
           \/ Issue(obj.spec) /\ client' = [token |-> issued + 1, expires |-> now + TTL]
    BY <1>5 DEF CreateClientToken, TokenInv, WorkerInv, Token
  <2>2. Good(obj'.token, obj'.expires)
    BY <1>0, <2>1 DEF Genuine
  <2>3. CASE UNCHANGED client
    <3>1. client' # NoClient => Good(client'.token, client'.expires)
      BY <1>0, <2>3 DEF Genuine
    <3> QED BY <1>1, <2>1, <2>2, <3>1, ExpiryStep
  <2>4. CASE Issue(obj.spec) /\ client' = [token |-> issued + 1, expires |-> now + TTL]
    <3>1. /\ issued \in 0 .. MaxTokens /\ issued + 1 \in Serials /\ issued' = issued + 1
          /\ expiry' = [expiry EXCEPT ![issued + 1] = now + TTL] /\ expiry \in [Serials -> Nat]
      BY <2>4, TokenAssumption DEF Issue, TokenInv, WorkerInv, TypeOK, Serials
    <3>2. client'.token \in 1 .. issued' /\ client'.expires = expiry'[client'.token]
      BY <2>4, <3>1
    <3> QED BY <1>1, <2>1, <2>2, <2>4, <3>2, ExpiryStep
  <2> QED BY <2>1, <2>3, <2>4
<1> QED BY <1>2, <1>3, <1>4, <1>5 DEF initNginxPMClient

\* Users never write a token of their own, and a read shows a stored version.
LEMMA OutsideGenuine ==
  ASSUME TokenInv, ExpiryInv,
         \/ \E k \in Keys : Dequeue(k) \/ TimerFires(k) \/ WatchEvent(k)
         \/ Environment
         \/ UNCHANGED vars
  PROVE  ExpiryInv'
<1>0. /\ api \in [Keys -> Token \cup {NoObj}] /\ watch \in [Keys -> Seq(Token \cup {NoObj})]
      /\ CacheFollows
      /\ pc # "idle" => Good(obj.token, obj.expires)
      /\ client # NoClient => Good(client.token, client.expires)
      /\ pc = "idle" => client = NoClient
  BY DEF TokenInv, TypeOK, WorkerInv, ExpiryInv, Genuine
<1>1. ASSUME UNCHANGED <<api, cache, watch, obj, client, npmVars>>, pc' = pc
      PROVE  ExpiryInv'
  <2>1. \A k \in Keys : \A x \in Seen(k)' : x # NoObj => Good(x.token, x.expires)
    BY <1>1, SeenStaysGenuine
  <2> QED BY <1>0, <1>1, <2>1, ExpiryStep
<1>2. ASSUME NEW k \in Keys, Dequeue(k)
      PROVE  ExpiryInv'
  <2>1. UNCHANGED <<api, cache, watch, client, npmVars>> /\ pc = "idle"
    BY <1>2 DEF Dequeue
  <2>2. \A j \in Keys : \A x \in Seen(j)' : x # NoObj => Good(x.token, x.expires)
    BY <2>1, SeenStaysGenuine
  <2>3. pc' # "idle" => Good(obj'.token, obj'.expires)
    BY <1>2, <2>1 DEF Dequeue, GetObject, ExpiryInv, Genuine, Seen
  <2> QED BY <1>0, <2>1, <2>2, <2>3, ExpiryStep
<1>3. ASSUME NEW k \in Keys, WatchEvent(k)
      PROVE  ExpiryInv'
  <2>1. Deliver(k) /\ UNCHANGED <<obj, client, npmVars, pc>>
    BY <1>3 DEF WatchEvent, helperVars, localVars
  <2>2. \A j \in Keys : \A x \in Seen(j)' : x # NoObj => Good(x.token, x.expires)
    BY <2>1, SeenStaysGenuine
  <2> QED BY <1>0, <2>1, <2>2, ExpiryStep
<1>4. ASSUME NEW k \in Keys,
             \/ \E e \in Endpoints : UserCreate(k, e) \/ UserEdit(k, e)
             \/ UserDelete(k)
      PROVE  ExpiryInv'
  <2>1. PICK v \in Token \cup {NoObj} : UserWrite(k, v) /\ (v # NoObj => Genuine(v))
    <3>1. \A e \in Endpoints : NewToken(e) \in Token /\ Genuine(NewToken(e))
      BY DEF NewToken, Token, Genuine, Good
    <3>2. ASSUME Live(k), NEW e \in Endpoints
          PROVE  [api[k] EXCEPT !.spec = e] \in Token /\ Genuine([api[k] EXCEPT !.spec = e])
      <4>1. api[k] \in Seen(k) /\ api[k] \in Token
        BY <1>0, <3>2, StoredIsSeen DEF Live
      <4>2. Genuine(api[k])
        BY <3>2, <4>1 DEF ExpiryInv, Live
      <4>3. /\ [api[k] EXCEPT !.spec = e] \in Token
            /\ [api[k] EXCEPT !.spec = e].token = api[k].token
            /\ [api[k] EXCEPT !.spec = e].expires = api[k].expires
        BY <4>1 DEF Token
      <4> QED BY <4>2, <4>3 DEF Genuine
    <3> QED BY <1>4, <3>1, <3>2 DEF UserCreate, UserEdit, UserDelete
  <2>2. Publish(k, v) /\ UNCHANGED <<cache, obj, client, npmVars, pc>>
    BY <2>1 DEF UserWrite, localVars
  <2>3. \A j \in Keys : \A x \in Seen(j)' : x # NoObj => Good(x.token, x.expires)
    BY <2>1, <2>2, SeenStaysGenuine
  <2> QED BY <1>0, <2>2, <2>3, ExpiryStep
<1>5. CASE Crash
  <2>1. Relist /\ pc' = "idle" /\ client' = NoClient /\ UNCHANGED npmVars
    BY <1>5 DEF Crash, Reset
  <2>2. \A j \in Keys : \A x \in Seen(j)' : x # NoObj => Good(x.token, x.expires)
    BY <2>1, SeenStaysGenuine
  <2> QED BY <2>1, <2>2, ExpiryStep
<1>6. CASE \/ \E k \in Keys : TimerFires(k) \/ \E s \in Logins : SecretChange(k, s)
           \/ Tick
           \/ UNCHANGED vars
  BY <1>1, <1>6
  DEF TimerFires, SecretChange, Tick, vars, kubeVars, helperVars, localVars
<1> QED BY <1>2, <1>3, <1>4, <1>5, <1>6 DEF Environment

\* The expiry that a Token records is that of the token it records, which NPM
\* issued, also when a token was issued twice because an answer or a status
\* write was lost.
THEOREM ExpiryIsTrue == Spec => []ExpiryIsTheTokens
<1>1. Init => TokenInv /\ ExpiryInv
  <2> SUFFICES ASSUME Init
               PROVE  TokenInv /\ ExpiryInv
    OBVIOUS
  <2>1. TokenInv /\ CacheFollows /\ \A k \in Keys : Fresh(k) /\ api[k] = NoObj
    BY TokenStarts DEF TokenInv, Init, Fresh
  <2>2. \A k \in Keys : Seen(k) = {NoObj}
    BY <2>1, FreshSeen
  <2> QED BY <2>1, <2>2 DEF ExpiryInv, Init
<1>2. TokenInv /\ ExpiryInv /\ [Next]_vars => TokenInv' /\ ExpiryInv'
  BY NextTypes, WritingGenuine, ReadingGenuine, OutsideGenuine DEF Next, Reconcile
<1>3. TokenInv /\ ExpiryInv => ExpiryIsTheTokens
  <2> SUFFICES ASSUME TokenInv, ExpiryInv, NEW k \in Keys, Live(k), api[k].token # Nil
               PROVE  api[k].token <= issued /\ api[k].expires = expiry[api[k].token]
    BY DEF ExpiryIsTheTokens
  <2>1. api[k] \in Seen(k)
    BY StoredIsSeen DEF TokenInv, TypeOK
  <2>2. Good(api[k].token, api[k].expires)
    BY <2>1 DEF ExpiryInv, Live, Genuine
  <2> QED BY <2>2 DEF Good
<1> QED BY <1>1, <1>2, <1>3, PTL DEF Spec


-----------------------------------------------------------------------------
(* No Token is forgotten                                                    *)

\* Somebody will come back to k.
Pending(k) == k \in queue \/ timer[k] # NoTimer \/ ~Fresh(k) \/ k \in dropped

\* Reconcile may return from "done" and be idle only where that is so.  A copy
\* that is not what the cache has by now was overtaken by an event, which has
\* queued the key.
RefreshInv ==
  /\ \A k \in Keys : Live(k) => Pending(k) \/ (req = k /\ pc \notin {"idle", "done"})
  /\ pc = "reconciling" => obj = cache[req] \/ req \in queue

\* A write leaves an event to deliver, or changes nothing.
LEMMA PublishPends ==
  ASSUME TokenInv, NEW k \in Keys, NEW v, Publish(k, v)
  PROVE  /\ v # api[k] => ~Fresh(k)'
         /\ \A j \in Keys : ~Fresh(j) => ~Fresh(j)'
         /\ \A j \in Keys \ {k} : api'[j] = api[j]
         /\ v = api[k] => UNCHANGED <<api, watch>>
<1>1. CASE v = api[k]
  BY <1>1 DEF Publish, Fresh
<1>2. CASE v # api[k]
  <2>1. /\ api' = [api EXCEPT ![k] = v] /\ watch' = [watch EXCEPT ![k] = Append(watch[k], v)]
        /\ watch \in [Keys -> Seq(Token \cup {NoObj})]
    BY <1>2 DEF Publish, TokenInv, TypeOK
  <2>2. Append(watch[k], v) # << >>
    <3>1. watch[k] \in Seq(Token \cup {NoObj} \cup {v})
      BY <2>1
    <3> QED BY <3>1
  <2> QED BY <1>2, <2>1, <2>2 DEF Fresh
<1> QED BY <1>1, <1>2

\* A status write that comes about is one that changes the stored object, so
\* that its event is still to come, or the copy was overtaken.
LEMMA WritingPends ==
  ASSUME TokenInv, RefreshInv, MarkReconciling \/ RecordToken \/ MarkReady \/ MarkError
  PROVE  RefreshInv'
<1>0. /\ pc # "idle" /\ pc # "done" /\ pc' # "reconciling" /\ pc' # "idle" /\ req \in Keys
      /\ UNCHANGED <<cache, queue, req, timer>> /\ obj \in Token
      /\ dropped' \in {dropped, dropped \cup {req}}
  BY DEF MarkReconciling, RecordToken, MarkReady, MarkError, TokenInv, WorkerInv, Unchanged
<1>1. /\ \A k \in Keys \ {req} : api'[k] = api[k]
      /\ \A k \in Keys : ~Fresh(k) => ~Fresh(k)'
  <2>1. UNCHANGED <<api, watch>> \/ \E v : Publish(req, v)
    BY DEF MarkReconciling, RecordToken, MarkReady, MarkError, UpdateStatus
  <2>2. UNCHANGED <<api, watch>> => \A k \in Keys : ~Fresh(k) => ~Fresh(k)'
    BY DEF Fresh
  <2> QED BY <1>0, <2>1, <2>2, PublishPends
<1>2. \A k \in Keys \ {req} : Live(k)' => Pending(k)'
  <2>1. \A k \in Keys \ {req} : Live(k) => Pending(k)
    BY DEF RefreshInv
  <2> QED BY <1>0, <1>1, <2>1 DEF Live, Pending
<1>3. pc' = "done" /\ Live(req)' => Pending(req)'
  <2> SUFFICES ASSUME pc' = "done"
               PROVE  Pending(req)'
    OBVIOUS
  <2>1. \/ req \in dropped'
        \/ /\ MarkReconciling /\ obj.conds = {} /\ pc = "reconciling"
           /\ UpdateStatus(SetCondition(Cached, "Reconciling"), TRUE)
    BY <1>0 DEF MarkReconciling, RecordToken, MarkReady, MarkError
  <2>2. CASE UpdateStatus(SetCondition(Cached, "Reconciling"), TRUE)
             /\ obj.conds = {} /\ pc = "reconciling"
    <3>1. /\ Fresh(req) /\ Publish(req, SetCondition(Cached, "Reconciling"))
          /\ cache[req] # NoObj
      BY <2>2 DEF UpdateStatus
    <3>2. cache[req] = api[req] /\ Cached = cache[req] /\ cache[req] \in Token
      BY <1>0, <3>1, FreshSeen, Writes DEF TokenInv
    <3>3. CASE SetCondition(Cached, "Reconciling") # api[req]
      <4>1. ~Fresh(req)'
        BY <1>0, <3>1, <3>3, PublishPends
      <4> QED BY <1>0, <4>1 DEF Pending
    <3>4. CASE SetCondition(Cached, "Reconciling") = api[req]
      <4>1. "Reconciling" \in SetCondition(Cached, "Reconciling").conds
        BY <3>2 DEF SetCondition, Token
      <4>2. obj # cache[req]
        BY <2>2, <3>2, <3>4, <4>1
      <4>3. req \in queue
        BY <2>2, <4>2 DEF RefreshInv
      <4> QED BY <1>0, <4>3 DEF Pending
    <3> QED BY <3>3, <3>4
  <2> QED BY <1>0, <2>1, <2>2 DEF Pending
<1> QED BY <1>0, <1>2, <1>3 DEF RefreshInv

\* The end of a reconciliation.
LEMMA ReadingPends ==
  ASSUME TokenInv, RefreshInv, initNginxPMClient \/ RequeueAfter \/ Return
  PROVE  RefreshInv'
<1>0. UNCHANGED <<api, cache, watch>> /\ req \in Keys
  BY DEF initNginxPMClient, ReadSecret, CheckConnection, CreateClientToken, RequeueAfter, Return,
         kubeVars, TokenInv, WorkerInv
<1>1. CASE initNginxPMClient \/ RequeueAfter
  <2>1. /\ UNCHANGED <<queue, timer, dropped, req>>
        /\ pc \notin {"idle", "done"} /\ pc' \notin {"idle", "done", "reconciling"}
    BY <1>1
    DEF initNginxPMClient, ReadSecret, CheckConnection, CreateClientToken, RequeueAfter,
        kubeVars, helperVars, Unchanged
  <2> QED BY <1>0, <2>1 DEF RefreshInv, Live, Pending, Fresh
<1>2. CASE Return
  <2>1. /\ pc \in {"done", "requeue", "later"} /\ pc' = "idle"
        /\ queue' = (IF pc = "requeue" THEN queue \cup {req} ELSE queue)
        /\ timer' = (IF pc = "later" THEN [timer EXCEPT ![req] = AddAfter(req)] ELSE timer)
        /\ dropped' = IF pc = "later" /\ delay <= 0 THEN dropped \cup {req} ELSE dropped
    BY <1>2 DEF Return, Reset
  <2>2. /\ timer \in [Keys -> Nat \cup {NoTimer}] /\ now \in Nat /\ delay \in Int
    BY DEF TokenInv, TypeOK
  <2>3. /\ timer[req] # NoTimer => AddAfter(req) # NoTimer
        /\ delay <= 0 \/ AddAfter(req) # NoTimer
    <3>1. delay <= 0 \/ now + delay \in Nat
      BY <2>2
    <3>2. delay <= 0 \/ now + delay # NoTimer
      BY <3>1, NullsAssumption
    <3> QED BY <3>2 DEF AddAfter
  <2>4. \A k \in Keys : timer[k] # NoTimer => timer'[k] # NoTimer
    BY <2>1, <2>2, <2>3
  <2>5. \A k \in Keys : Pending(k) => Pending(k)'
    BY <1>0, <2>1, <2>4 DEF Pending, Fresh
  <2>6. CASE pc = "requeue"
    BY <1>0, <2>1, <2>5, <2>6 DEF RefreshInv, Live, Pending
  <2>7. CASE pc = "later"
    <3>1. timer'[req] # NoTimer \/ req \in dropped'
      BY <1>0, <2>1, <2>2, <2>3, <2>7
    <3> QED BY <1>0, <2>1, <2>5, <3>1 DEF RefreshInv, Live, Pending
  <2>8. CASE pc = "done"
    BY <1>0, <2>1, <2>5, <2>8 DEF RefreshInv, Live
  <2> QED BY <2>1, <2>6, <2>7, <2>8
<1> QED BY <1>1, <1>2

\* Requests, events, timers, users and crashes: whatever takes a key away has
\* it handled, and whatever stores a version leaves an event.
LEMMA OutsidePends ==
  ASSUME TokenInv, RefreshInv,
         \/ \E k \in Keys : Dequeue(k) \/ TimerFires(k) \/ WatchEvent(k)
         \/ Environment
         \/ UNCHANGED vars
  PROVE  RefreshInv'
<1>0. pc # "idle" => req \in Keys
  BY DEF TokenInv, WorkerInv
<1>1. ASSUME NEW k \in Keys, Dequeue(k)
      PROVE  RefreshInv'
  <2>1. /\ UNCHANGED <<api, cache, watch, timer>> /\ pc = "idle" /\ queue' = queue \ {k}
        /\ dropped' = dropped \ {k}
    BY <1>1 DEF Dequeue, Unchanged
  <2>2. \A j \in Keys \ {k} : Live(j)' => Pending(j)'
    BY <2>1 DEF RefreshInv, Live, Pending, Fresh
  <2>3. CASE cache[k] = NoObj
    <3>1. UNCHANGED <<req, pc>>
      BY <1>1, <2>3 DEF Dequeue
    <3>2. Live(k) => ~Fresh(k)
      BY <2>3 DEF TokenInv, CacheFollows, Live, Fresh
    <3> QED BY <2>1, <2>2, <3>1, <3>2 DEF RefreshInv, Live, Pending, Fresh
  <2>4. CASE cache[k] # NoObj
    <3>1. req' = k /\ pc' = "reconciling" /\ obj' = cache[k]
      BY <1>1, <2>4 DEF Dequeue, GetObject
    <3> QED BY <2>1, <2>2, <3>1 DEF RefreshInv
  <2> QED BY <2>3, <2>4
<1>2. ASSUME NEW k \in Keys, TimerFires(k)
      PROVE  RefreshInv'
  <2>1. /\ UNCHANGED <<api, cache, watch, req, obj, pc, dropped>>
        /\ timer' = [timer EXCEPT ![k] = NoTimer] /\ queue' = queue \cup {k}
        /\ timer \in [Keys -> Nat \cup {NoTimer}]
    BY <1>2 DEF TimerFires, helperVars, localVars, TokenInv, TypeOK
  <2> QED BY <2>1 DEF RefreshInv, Live, Pending, Fresh
<1>3. ASSUME NEW k \in Keys, WatchEvent(k)
      PROVE  RefreshInv'
  <2>1. /\ UNCHANGED <<api, req, obj, pc, dropped, timer>> /\ queue' = queue \cup {k}
        /\ cache' = [cache EXCEPT ![k] = Head(watch[k])]
        /\ watch' = [watch EXCEPT ![k] = Tail(watch[k])]
        /\ cache \in [Keys -> Token \cup {NoObj}] /\ watch \in [Keys -> Seq(Token \cup {NoObj})]
    BY <1>3 DEF WatchEvent, Deliver, helperVars, localVars, Unchanged, TokenInv, TypeOK
  <2>2. \A j \in Keys \ {k} : cache'[j] = cache[j] /\ watch'[j] = watch[j]
    BY <2>1
  <2> QED BY <1>0, <2>1, <2>2 DEF RefreshInv, Live, Pending, Fresh
<1>4. ASSUME NEW k \in Keys,
             \/ \E e \in Endpoints : UserCreate(k, e) \/ UserEdit(k, e)
             \/ UserDelete(k)
      PROVE  RefreshInv'
  <2>1. PICK v : v # api[k] /\ Publish(k, v)
    BY <1>4 DEF UserCreate, UserEdit, UserDelete, UserWrite
  <2>2. UNCHANGED <<cache, queue, req, obj, pc, timer, dropped>>
    BY <1>4 DEF UserCreate, UserEdit, UserDelete, UserWrite, localVars
  <2>3. /\ ~Fresh(k)' /\ \A j \in Keys : ~Fresh(j) => ~Fresh(j)'
        /\ \A j \in Keys \ {k} : api'[j] = api[j]
    BY <2>1, PublishPends
  <2> QED BY <2>2, <2>3 DEF RefreshInv, Live, Pending
<1>5. CASE Crash
  <2>1. /\ UNCHANGED <<api, dropped>> /\ queue' = {k \in Keys : api[k] # NoObj} /\ pc' = "idle"
    BY <1>5 DEF Crash, Relist, Reset
  <2> QED BY <2>1 DEF RefreshInv, Live, Pending
<1>6. CASE \/ \E k \in Keys, s \in Logins : SecretChange(k, s)
           \/ Tick
           \/ UNCHANGED vars
  <2>1. UNCHANGED <<api, cache, watch, req, obj, pc, timer, dropped>> /\ queue \subseteq queue'
    BY <1>6 DEF SecretChange, Tick, vars, kubeVars, helperVars, localVars
  <2> QED BY <2>1 DEF RefreshInv, Live, Pending, Fresh
<1> QED BY <1>1, <1>2, <1>3, <1>4, <1>5, <1>6 DEF Environment

\* A Token is never abandoned: a request for it is being handled, is queued or
\* due at some time, or a version of it is still to be delivered; a reconciler
\* that only marks a new resource and returns relies on its own event.  What is
\* left out are failed status writes and tokens that expire while it runs.
THEOREM NeverAbandoned == Spec => []RefreshIsScheduled
<1>1. Init => TokenInv /\ RefreshInv
  BY TokenStarts DEF Init, RefreshInv, Live
<1>2. TokenInv /\ RefreshInv /\ [Next]_vars => TokenInv' /\ RefreshInv'
  BY NextTypes, WritingPends, ReadingPends, OutsidePends DEF Next, Reconcile
<1>3. RefreshInv => RefreshIsScheduled
  BY DEF RefreshInv, RefreshIsScheduled, Pending
<1> QED BY <1>1, <1>2, <1>3, PTL DEF Spec
==============================================================================
