\* One resource and every kind of fault, or two that contest a domain.
SPECIFICATION LiveFairSpec
CONSTANTS
  Keys = {k1, k2}
  NoKey = NoKey
  NoObj = NoObj
  NoId = NoId
  NoHost = NoHost
  NoInit = NoInit
  MaxLag = 2
  Faults = {"lag", "api", "apiLost", "npm", "lost", "token", "prepare", "crash"}
  MaxFaults = 1
  Domains <- MCDomains
  Cfgs <- MCCfgs
  Upstreams <- MCUpstreams
  DefaultCfg <- MCDefaultCfg
  Specs <- EditedSpecs
  ForeignHosts <- AnyForeign
  MaxHosts = 3
  MaxOps = 3
  UserOps = {"create", "delete", "edit", "trigger", "adminCreate"}
  RejectDuplicates = TRUE
  UnscopedSupported = TRUE
  LegacyKey = NoKey
PROPERTIES
  DeletionCompletes
  Converges
\* An operator with an empty work queue waits: that is not a deadlock.
CHECK_DEADLOCK FALSE
