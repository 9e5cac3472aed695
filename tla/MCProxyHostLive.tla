---------------------------- MODULE MCProxyHostLive ----------------------------
(* What eventually happens: to one resource among faults, edits and an          *)
(* administrator's hosts, or to two resources that contest a domain.            *)
EXTENDS MCProxyHost

VARIABLE contested   \* there are two resources, and nothing fails

liveVars == <<vars, contested>>

Contest ==
  INSTANCE ProxyHostController WITH
    Specs <- OverlapSpecs,
    ForeignHosts <- {},
    UserOps <- {"create", "delete", "trigger"},
    MaxFaults <- 0

AtMostOne == \A j, k \in Keys : j # k => NoObj \in {api'[j], api'[k]}

LiveNext ==
  /\ \/ contested /\ Contest!Next
     \/ ~contested /\ Next /\ AtMostOne
  /\ UNCHANGED contested

LiveFairSpec ==
  /\ Init /\ contested \in BOOLEAN
  /\ [][LiveNext]_liveVars
  /\ WF_liveVars(Reconcile /\ LiveNext)
  /\ \A k \in Keys :
       WF_liveVars(WatchEvent(k) /\ LiveNext) /\ SF_liveVars(Dequeue(k) /\ LiveNext)
==============================================================================
