\* A bound resource whose host an administrator removed.
SPECIFICATION FairSpec
CONSTANTS
  Keys = {k1}
  NoKey = NoKey
  NoObj = NoObj
  NoId = NoId
  NoHost = NoHost
  NoInit = NoInit
  MaxLag = 2
  Faults = {}
  MaxFaults = 0
  Domains <- MCDomains
  Cfgs <- MCCfgs
  Upstreams <- MCUpstreams
  DefaultCfg <- MCDefaultCfg
  Specs <- BindSpecs
  ForeignHosts <- EnabledForeign
  MaxHosts = 5
  MaxOps = 4
  UserOps = {"create", "adminCreate", "adminRemove", "delete"}
  RejectDuplicates = TRUE
  UnscopedSupported = TRUE
  LegacyKey = NoKey
PROPERTIES
  DeletionCompletes
\* An operator with an empty work queue waits: that is not a deadlock.
CHECK_DEADLOCK FALSE
