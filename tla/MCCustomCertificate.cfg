\* One resource whose Secret changes, any fault.
SPECIFICATION FairSpec
CONSTANTS
  Keys = {k1}
  NoKey = NoKey
  NoObj = NoObj
  NoId = NoId
  NoRemote = NoRemote
  NoInput = NoInput
  Missing = Missing
  Rejected = Rejected
  Specs <- TwoSpecs
  Pairs <- TwoPairs
  MaxLag = 2
  MaxRemote = 5
  MaxOps = 3
  MaxFaults = 1
  Faults = {"api", "apiLost", "lag", "npm", "lost", "crash", "delete", "token"}
  UserOps = {"create", "edit", "delete", "secret", "adminRemove", "trigger"}
\* An operator without work waits.
CHECK_DEADLOCK FALSE
INVARIANTS TypeOK RecordedIsUploaded
PROPERTIES ImplementsLedger GoodSecretIsServed DeletionCompletes
