\* Two resources for one domain.
SPECIFICATION Spec
CONSTANTS
  Keys = {k1, k2}
  NoKey = NoKey
  NoObj = NoObj
  NoId = NoId
  NoRemote = NoRemote
  NoInput = NoInput
  Specs <- OneSpec
  AdminDomains = {}
  MaxLag = 2
  MaxRemote = 2
  MaxOps = 3
  MaxFaults = 0
  Faults = {}
  UserOps = {"create", "delete"}
\* An operator without work waits.
CHECK_DEADLOCK FALSE
INVARIANT ReadyMeansActive
