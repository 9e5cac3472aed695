\* One list that is edited, deleted, removed in NPM and created again, and a
\* proxy host that uses it; any fault.
SPECIFICATION FairSpec
CONSTANTS
  Keys = {k1}
  Reference = k1
  NoKey = NoKey
  NoObj = NoObj
  NoId = NoId
  NoRemote = NoRemote
  NoInput = NoInput
  Specs <- TwoSpecs
  MaxLag = 2
  MaxRemote = 5
  MaxOps = 3
  MaxFaults = 1
  Faults = {"api", "apiLost", "lag", "npm", "lost", "crash", "delete", "token"}
  UserOps = {"create", "edit", "delete", "adminRemove", "trigger"}
\* An operator without work waits.
CHECK_DEADLOCK FALSE
INVARIANTS QuietMeansServed QuietMeansGuarded
PROPERTIES ImplementsLedger StaysServed
