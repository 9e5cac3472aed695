\* Two resources with overlapping domains, no faults.
SPECIFICATION Spec
CONSTANTS
  Keys = {k1, k2}
  NoKey = NoKey
  NoObj = NoObj
  NoId = NoId
  NoHost = NoHost
  NoInit = NoInit
  MaxLag = 2
  Faults = {}
  MaxFaults = 0
  Domains <- MCDomains
  Cfgs <- MCCfgs
  Upstreams <- MCUpstreams
  DefaultCfg <- MCDefaultCfg
  Specs <- OverlapSpecs
  ForeignHosts <- AnyForeign
  MaxHosts = 3
  MaxOps = 5
  UserOps = {"create", "delete", "trigger", "adminCreate"}
  RejectDuplicates = TRUE
  UnscopedSupported = TRUE
  LegacyKey = NoKey
INVARIANTS
  NoSharedHost
  NoOrphanHost
  InitialConfigIsOriginal
  BoundMeansAdopted
PROPERTIES
  OwnHostRemovedFirst
  OriginalForwardRestored
\* An operator with an empty work queue waits: that is not a deadlock.
CHECK_DEADLOCK FALSE
