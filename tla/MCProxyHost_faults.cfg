\* One resource, new or bound by an older release, every kind of fault, an
\* administrator at work in NPM.
SPECIFICATION UpgradeSpec
CONSTANTS
  Keys = {k1}
  NoKey = NoKey
  NoObj = NoObj
  NoId = NoId
  NoHost = NoHost
  NoInit = NoInit
  MaxLag = 2
  Faults = {"lag", "api", "apiLost", "npm", "lost", "token", "prepare", "crash"}
  MaxFaults = 2
  Domains <- MCDomains
  Cfgs <- MCCfgs
  Upstreams <- MCUpstreams
  DefaultCfg <- MCDefaultCfg
  Specs <- OneDomainSpecs
  ForeignHosts <- AnyForeign
  MaxHosts = 3
  MaxOps = 4
  UserOps = {"create", "delete", "trigger", "adminCreate", "adminRemove", "adminDisable", "edit"}
  RejectDuplicates = TRUE
  UnscopedSupported = TRUE
  LegacyKey = NoKey
INVARIANTS
  TypeOK
  RecordedHostHasFinalizer
PROPERTIES
  ForeignHostsSurvive
\* An operator with an empty work queue waits: that is not a deadlock.
CHECK_DEADLOCK FALSE
