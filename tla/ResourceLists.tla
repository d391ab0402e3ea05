--------------------------- MODULE ResourceLists ---------------------------
(***************************************************************************)
(* The list pages of the user interface: one record for each of the 26     *)
(* tables under src/ui/src/components/resources, with what distinguishes   *)
(* it from the others once ResourceListPage.tsx has taken over.            *)
(*                                                                         *)
(*   kind        resourceKey: what the page lists                          *)
(*   scope       "namespace" when the page gets a namespace, else          *)
(*               "cluster"                                                 *)
(*   polled      the kind whose dataplane revision is polled, or NotPolled *)
(*   ticks       the rows are fetched again on the dataplane interval      *)
(*   checks      an empty list is followed by a can-i request              *)
(*   refetches   the page is given refetch, and calls it after a mutation   *)
(*   drawer      the drawer that opens on a row                            *)
(*   drawerFrom  "id": the drawer's object is the name in the selected id, *)
(*               with the namespace the page has NOW; "row": it is the row *)
(*               with that id among the rows shown now                     *)
(*   columns     the fields of the columns, in the order of the table      *)
(*                                                                         *)
(* How a cell is rendered and which fields the text filter looks at is     *)
(* abstracted.                                                             *)
(***************************************************************************)
EXTENDS Naturals, Sequences

\* dataplaneRevisionPoll is undefined.
NotPolled == "not polled"

\* A page of cluster-wide objects: rows are identified by name.
ClusterList(kind, drawer, columns) ==
  [kind |-> kind, scope |-> "cluster", polled |-> kind, ticks |-> TRUE,
   checks |-> TRUE, refetches |-> FALSE, drawer |-> drawer,
   drawerFrom |-> "id",
   columns |-> columns]

\* A page of the objects of one namespace: rows are identified by namespace
\* and name.
NamespacedList(kind, drawer, columns) ==
  [ClusterList(kind, drawer, columns) EXCEPT !.scope = "namespace"]

\* A page without a revision to poll, whose drawer is given the row itself.
RowDriven(list) ==
  [list EXCEPT !.polled = NotPolled, !.ticks = FALSE, !.checks = FALSE,
               !.drawerFrom = "row"]

ClusterRoleBindingsTable ==
  ClusterList("clusterrolebindings", "ClusterRoleBindingDrawer",
     <<"name", "listSignalSeverity", "roleRefName", "subjectsCount",
       "ageSec">>)

ClusterRolesTable ==
  ClusterList("clusterroles", "ClusterRoleDrawer",
     <<"name", "listSignalSeverity", "rulesCount", "ageSec">>)

ConfigMapsTable ==
  NamespacedList("configmaps", "ConfigMapDrawer",
     <<"name", "listSignalSeverity", "keysCount", "immutable", "ageSec">>)

CronJobsTable ==
  NamespacedList("cronjobs", "CronJobDrawer",
     <<"name", "listSignalSeverity", "listStatus", "scheduleHint",
       "suspend", "active", "lastScheduleTime", "lastSuccessfulTime",
       "ageSec">>)

CustomResourceDefinitionsTable ==
  ClusterList("customresourcedefinitions", "CustomResourceDefinitionDrawer",
     <<"name", "listSignalSeverity", "group", "scope", "kind", "versions",
       "established", "ageSec">>)

ClusterCustomResourcesTable ==
  RowDriven(ClusterList("clusterresources", "CustomResourceDrawer",
     <<"kind", "name", "signalSeverity", "group", "ageSec">>))

CustomResourcesTable ==
  RowDriven(NamespacedList("customresources", "CustomResourceDrawer",
     <<"kind", "name", "signalSeverity", "group", "ageSec">>))

DaemonSetsTable ==
  NamespacedList("daemonsets", "DaemonSetDrawer",
     <<"name", "listStatus", "listSignalSeverity", "ready", "updated",
       "available", "ageSec">>)

DeploymentsTable ==
  NamespacedList("deployments", "DeploymentDrawer",
     <<"name", "status", "listSignalSeverity", "ready", "upToDate",
       "available", "strategy", "lastRolloutComplete", "ageSec">>)

HelmChartsTable ==
  RowDriven(ClusterList("helmcharts", "HelmChartDrawer",
     <<"chartName", "derived", "chartVersion", "appVersion", "releases",
       "namespaces", "needsAttention">>))

HelmReleasesTable ==
  [NamespacedList("helm", "HelmReleaseDrawer",
     <<"name", "listSignalSeverity", "listStatus", "revision", "chart",
       "appVersion", "updated">>)
   EXCEPT !.polled = "helmreleases", !.refetches = TRUE]

HorizontalPodAutoscalersTable ==
  NamespacedList("horizontalpodautoscalers", "HorizontalPodAutoscalerDrawer",
     <<"name", "listStatus", "listSignalSeverity", "scaleTargetRef",
       "replicas", "bounds", "metrics", "ageSec">>)

IngressesTable ==
  NamespacedList("ingresses", "IngressDrawer",
     <<"name", "listSignalSeverity", "ingressClassName", "hosts",
       "tlsHint", "addressState", "ageSec">>)

JobsTable ==
  NamespacedList("jobs", "JobDrawer",
     <<"name", "listStatus", "listSignalSeverity", "active", "succeeded",
       "failed", "durationSec", "ageSec">>)

NamespacesTable ==
  [ClusterList("namespaces", "NamespaceDrawer",
     <<"smartNamespaceSortKey", "isFavourite", "name",
       "listSignalSeverity", "phase", "summaryState", "resourceQuotaCount",
       "ageSec">>)
   EXCEPT !.ticks = FALSE]

NodesTable ==
  [ClusterList("nodes", "NodeDrawer",
     <<"name", "derived", "status", "listSignalSeverity", "roles",
       "cpuAllocatable", "memoryAllocatable", "cpuMilli", "memoryBytes",
       "podsCount", "problematicPods", "podDensityBucket",
       "kubeletVersion", "ageSec">>)
   EXCEPT !.checks = FALSE]

PersistentVolumeClaimsTable ==
  NamespacedList("persistentvolumeclaims", "PersistentVolumeClaimDrawer",
     <<"name", "listSignalSeverity", "phase", "storageClassName",
       "requestedStorage", "volumeName", "accessModes", "ageSec">>)

PersistentVolumesTable ==
  ClusterList("persistentvolumes", "PersistentVolumeDrawer",
     <<"name", "listSignalSeverity", "phase", "capacity",
       "storageClassName", "reclaimPolicy", "claimRef", "ageSec">>)

PodsTable ==
  NamespacedList("pods", "PodDrawer",
     <<"name", "phase", "ready", "listSignalSeverity", "cpuMilli",
       "memoryBytes", "ageSec">>)

ReplicaSetsTable ==
  NamespacedList("replicasets", "ReplicaSetDrawer",
     <<"name", "listStatus", "listSignalSeverity", "revision", "desired",
       "ready", "owner", "ageSec">>)

RoleBindingsTable ==
  NamespacedList("rolebindings", "RoleBindingDrawer",
     <<"name", "listSignalSeverity", "roleRefName", "subjectsCount",
       "ageSec">>)

RolesTable ==
  NamespacedList("roles", "RoleDrawer",
     <<"name", "listSignalSeverity", "rulesCount", "ageSec">>)

SecretsTable ==
  NamespacedList("secrets", "SecretDrawer",
     <<"name", "listSignalSeverity", "type", "keysCount", "immutable",
       "ageSec">>)

ServiceAccountsTable ==
  NamespacedList("serviceaccounts", "ServiceAccountDrawer",
     <<"name", "listSignalSeverity", "tokenMountPolicy", "pullSecretHint",
       "imagePullSecretsCount", "secretsCount", "ageSec">>)

ServicesTable ==
  NamespacedList("services", "ServiceDrawer",
     <<"name", "type", "listSignalSeverity", "exposureHint", "clusterIPs",
       "portsSummary", "endpointsReady", "ageSec">>)

StatefulSetsTable ==
  NamespacedList("statefulsets", "StatefulSetDrawer",
     <<"name", "listStatus", "listSignalSeverity", "ready", "serviceName",
       "ageSec">>)

AllTables == {
  ClusterRoleBindingsTable, ClusterRolesTable, ConfigMapsTable,
  CronJobsTable, CustomResourceDefinitionsTable,
  ClusterCustomResourcesTable, CustomResourcesTable, DaemonSetsTable,
  DeploymentsTable, HelmChartsTable, HelmReleasesTable,
  HorizontalPodAutoscalersTable, IngressesTable, JobsTable,
  NamespacesTable, NodesTable, PersistentVolumeClaimsTable,
  PersistentVolumesTable, PodsTable, ReplicaSetsTable, RoleBindingsTable,
  RolesTable, SecretsTable, ServiceAccountsTable, ServicesTable,
  StatefulSetsTable}

-----------------------------------------------------------------------------
(* The order in which the page shows the columns.                          *)

\* The fields whose lower-case form contains "age": it is meant for the age
\* column, and three more columns match.
LikeAge ==
  {"ageSec", "storageClassName", "requestedStorage", "imagePullSecretsCount"}

\* The fields whose lower-case form contains "time", "last", "seen" or
\* "updated" (the DaemonSets' count of updated pods among them).
LikeTime ==
  {"lastScheduleTime", "lastSuccessfulTime", "lastRolloutComplete", "updated"}

FieldPriority(f) ==
  CASE f = "isFavourite"                                -> 0
    [] f = "name"                                       -> 1
    [] f = "listSignalSeverity"                         -> 2
    [] f \in {"listStatus", "status", "phase", "health"} -> 3
    [] f \in LikeAge                                    -> 6
    [] f \in LikeTime                                   -> 5
    [] OTHER                                            -> 4

Has(columns, f) == \E i \in DOMAIN columns : columns[i] = f

\* A stable sort by priority; tables without a list signal keep their order.
OrderedColumns(columns) ==
  LET Band(p) == SelectSeq(columns, LAMBDA f : FieldPriority(f) = p)
  IN  IF Has(columns, "listSignalSeverity")
      THEN Band(0) \o Band(1) \o Band(2) \o Band(3) \o Band(4) \o Band(5)
             \o Band(6)
      ELSE columns
=============================================================================
