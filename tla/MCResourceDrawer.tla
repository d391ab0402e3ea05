-------------------------- MODULE MCResourceDrawer --------------------------
(* Small instances of ResourceDrawer. *)
EXTENDS ResourceDrawer

\* Drawers with two requests and a lazy tab; two requests, the wait for the
\* connection and actions with parameters; two requests and an action that can
\* be streamed; one request and two lists, one after the other; and what was
\* loaded kept for each name.
MCKinds == {d \in Drawers : d.name \in
  {"ServiceAccountDrawer", "DeploymentDrawer", "CronJobDrawer", "PodDrawer",
   "NamespaceDrawer"}}

\* The first tab of each, the lazy ones, and that of the YAML panel.
MCVisited ==
  {"Overview", "Signals", "YAML"} \union
    UNION {d.load.lazyTabs : d \in MCKinds}
=============================================================================
