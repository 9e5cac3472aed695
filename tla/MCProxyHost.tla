----------------------------- MODULE MCProxyHost -----------------------------
(* Instances of ProxyHostController for TLC. *)
EXTENDS ProxyHostController

SpecOf(doms, cfg, bind) ==
  [doms |-> doms, cfg |-> cfg, upstream |-> "block", bindExisting |-> bind]

HostOf(doms, cfg, enabled) ==
  [doms |-> doms, cfg |-> cfg, unscoped |-> "none", enabled |-> enabled]

MCDomains == {"d1", "d2"}
MCUpstreams == {"none", "block"}
MCCfgs == {"c1", "c2", "f"}
\* c2 is c1 with blockExploits: false.
MCDefaultCfg == [c \in MCCfgs |-> IF c = "c2" THEN "c1" ELSE c]

\* One domain, adopted if NPM has it.
BindSpecs == {SpecOf({"d1"}, "c1", TRUE)}
\* One domain, with and without adoption.
OneDomainSpecs == {SpecOf({"d1"}, "c1", b) : b \in BOOLEAN}
\* The settings change under the same domain.
EditedSpecs == {SpecOf({"d1"}, c, TRUE) : c \in {"c1", "c2"}}
\* Resources that overlap in one of two domains.
OverlapSpecs == {SpecOf({"d1"}, "c1", TRUE), SpecOf({"d1", "d2"}, "c2", FALSE)}

EnabledForeign == {HostOf({"d1"}, "f", TRUE)}
AnyForeign == {HostOf({"d1"}, "f", b) : b \in BOOLEAN}

\* The operator starts in an empty cluster or after an upgrade, with a resource
\* that an older release has bound.
Upgraded == INSTANCE ProxyHostController WITH LegacyKey <- CHOOSE k \in Keys : TRUE

UpgradeSpec == (Init \/ Upgraded!Init) /\ [][Next]_vars
==============================================================================
