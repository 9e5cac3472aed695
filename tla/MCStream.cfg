\* One stream that is edited while its destination changes, any fault.
SPECIFICATION FairSpec
CONSTANTS
  Keys = {k1}
  NoKey = NoKey
  NoObj = NoObj
  NoId = NoId
  NoRemote = NoRemote
  NoInput = NoInput
  NoDest = NoDest
  Specs <- PortSpecs
  Destinations <- MCDestinations
  UnscopedSupported = TRUE
  MaxLag = 2
  MaxRemote = 4
  MaxOps = 3
  MaxFaults = 1
  Faults = {"api", "apiLost", "lag", "npm", "lost", "crash", "delete", "token", "prepare"}
  UserOps = {"create", "edit", "delete", "destination", "adminRemove", "trigger"}
\* An operator without work waits.
CHECK_DEADLOCK FALSE
INVARIANTS TypeOK QuietMeansServed
PROPERTIES ImplementsLedger StaysServed
