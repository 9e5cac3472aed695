\* A proxy host with a custom location, no upstream blocks, every kind of
\* change of the cluster, a failed request to NPM.
SPECIFICATION FairSpec
CONSTANTS
  s1 = s1
  s2 = s2
  p1 = p1
  p2 = p2
  n1 = n1
  n2 = n2
  a1 = a1
  a2 = a2
  Nil = Nil
  NoAddress = NoAddress
  ClusterIP = ClusterIP
  Services = {s1, s2}
  Pods = {p1}
  Nodes = {n1, n2}
  Labels = {l1}
  Addresses = {a1, a2}
  Ref <- TwoServices
  Foreign = {}
  Unscoped = FALSE
  Changes = {"service", "start", "phase", "relabel", "terminate", "remove", "node"}
  MaxChanges = 2
  MaxLag = 2
  MaxFaults = 1
\* An operator without work waits.
CHECK_DEADLOCK FALSE
INVARIANT QuietMeansCurrent
PROPERTY BecomesCurrent
