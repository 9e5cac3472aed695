\* Credentials and endpoints that change, every fault, a clock that may run
\* while Reconcile does.
SPECIFICATION FairSpec
CONSTANTS
  Keys = {k1}
  NoKey = NoKey
  NoObj = NoObj
  NoTimer = NoTimer
  NoClient = NoClient
  Endpoints = {e1, e2}
  TTL = 2
  Prompt = FALSE
  MaxLag = 2
  MaxTime = 4
  MaxTokens = 8
  MaxOps = 2
  MaxFaults = 1
  Faults = {"npm", "lost", "api", "apiLost", "lag", "crash"}
  UserOps = {"create", "edit", "delete", "secret"}
\* An operator without work waits.
CHECK_DEADLOCK FALSE
INVARIANTS TypeOK RefreshIsScheduled ExpiryIsTheTokens
PROPERTY StaysValid
