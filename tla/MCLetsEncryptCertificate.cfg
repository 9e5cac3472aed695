\* Two resources for one domain and an administrator whose certificate has
\* another domain besides, any fault.
SPECIFICATION FairSpec
CONSTANTS
  Keys = {k1, k2}
  NoKey = NoKey
  NoObj = NoObj
  NoId = NoId
  NoRemote = NoRemote
  NoInput = NoInput
  Specs <- DnsSpec
  AdminDomains <- BothDomains
  MaxLag = 1
  MaxRemote = 4
  MaxOps = 3
  MaxFaults = 1
  Faults = {"api", "apiLost", "npm", "lost", "crash", "delete", "token"}
  UserOps = {"create", "delete", "secret", "adminCreate", "trigger"}
\* An operator without work waits.
CHECK_DEADLOCK FALSE
INVARIANTS TypeOK ReadyMeansIssued
PROPERTIES ImplementsLedger GetsCertificate
