--------------------------- MODULE DrawerCatalog ---------------------------
(***************************************************************************)
(* The drawers of the user interface: what distinguishes the 25            *)
(* components under src/ui/src/components/resources that show one object.  *)
(*                                                                         *)
(* <X>Load, from the state and the effects of the component:               *)
(*   chain        the requests of a load, one after the other              *)
(*   waits        the effects return early while the connection is         *)
(*                unhealthy, and run again when that changes               *)
(*   tellsDenied  401 and 403 are shown as a missing permission            *)
(*   caches       what was loaded is kept for each name                    *)
(*   lazyTabs     the tabs whose list is fetched when they are first shown *)
(*   chainsList   a second list is fetched once there is the first         *)
(*   context      "active": requests name the active context, "default":   *)
(*                they take the default of the API module                  *)
(*                                                                         *)
(* <X>Tabs, from its rendering:                                            *)
(*   tabs         the labels, in order and without blanks (those the Helm  *)
(*                release has nothing for are hidden)                      *)
(*   rereads      an applied YAML edit (an upgrade, for the Helm release)  *)
(*                loads the object again                                   *)
(*                                                                         *)
(* <X>Links, from its rendering:                                           *)
(*   inside       the nested drawers that exist while an object is shown   *)
(*   beside       those that exist as long as the drawer does              *)
(*                                                                         *)
(* What the tabs show of the object is abstracted.                         *)
(***************************************************************************)
EXTENDS Naturals, Sequences

DetailsThenEvents ==
  [chain |-> <<"details", "events">>, waits |-> FALSE, tellsDenied |-> FALSE,
   caches |-> FALSE, lazyTabs |-> {}, chainsList |-> FALSE,
   context |-> "default"]

\* The events are fetched by their tab, or come with the details.
DetailsOnly == [DetailsThenEvents EXCEPT !.chain = <<"details">>]

\* The plural of the kind is looked up first.
ResolveThenDetails ==
  [DetailsThenEvents EXCEPT !.chain = <<"resolve", "details">>]

NoRequests == [DetailsThenEvents EXCEPT !.chain = << >>]

NoLinks == [inside |-> {}, beside |-> {}]

ClusterRoleLoad ==
  [DetailsThenEvents EXCEPT !.tellsDenied = TRUE]

ClusterRoleTabs ==
  [tabs |-> <<"Overview", "Rules", "Events", "Metadata", "YAML">>,
   rereads |-> FALSE]

ClusterRoleBindingLoad ==
  [DetailsThenEvents EXCEPT !.tellsDenied = TRUE]

ClusterRoleBindingTabs ==
  [tabs |-> <<"Overview", "Subjects", "RoleRef", "Events", "Metadata",
              "YAML">>,
   rereads |-> FALSE]

ClusterRoleBindingLinks ==
  [inside |-> {},
   beside |-> {"ClusterRoleDrawer"}]

ConfigMapLoad == DetailsThenEvents

ConfigMapTabs ==
  [tabs |-> <<"Overview", "Keys", "Events", "Metadata", "YAML">>,
   rereads |-> TRUE]

ConfigMapLinks ==
  [inside |-> {},
   beside |-> {"NamespaceDrawer"}]

CronJobLoad == DetailsThenEvents

CronJobTabs ==
  [tabs |-> <<"Overview", "Jobs", "Spec", "Events", "Metadata", "YAML">>,
   rereads |-> FALSE]

CronJobLinks ==
  [inside |-> {"JobDrawer", "SecretDrawer", "ConfigMapDrawer",
               "NamespaceDrawer"},
   beside |-> {}]

CustomResourceLoad == ResolveThenDetails

CustomResourceTabs ==
  [tabs |-> <<"Overview", "Conditions", "Metadata", "YAML">>,
   rereads |-> FALSE]

CustomResourceDefinitionLoad == DetailsThenEvents

CustomResourceDefinitionTabs ==
  [tabs |-> <<"Overview", "Versions", "Events", "Metadata", "YAML">>,
   rereads |-> FALSE]

DaemonSetLoad == DetailsThenEvents

DaemonSetTabs ==
  [tabs |-> <<"Overview", "Pods", "Spec", "Events", "Metadata", "YAML">>,
   rereads |-> TRUE]

DaemonSetLinks ==
  [inside |-> {"PodDrawer", "SecretDrawer", "ConfigMapDrawer",
               "NamespaceDrawer"},
   beside |-> {}]

DeploymentLoad ==
  [DetailsThenEvents EXCEPT !.waits = TRUE]

DeploymentTabs ==
  [tabs |-> <<"Overview", "Pods", "Spec", "Events", "Metadata", "YAML">>,
   rereads |-> TRUE]

DeploymentLinks ==
  [inside |-> {"PodDrawer", "ReplicaSetDrawer", "SecretDrawer",
               "ConfigMapDrawer", "NamespaceDrawer"},
   beside |-> {}]

HelmChartLoad == NoRequests

HelmChartTabs ==
  [tabs |-> <<"Overview", "Versions", "Namespaces">>,
   rereads |-> FALSE]

HelmChartLinks ==
  [inside |-> {"NamespaceDrawer"},
   beside |-> {}]

HelmReleaseLoad == DetailsOnly

HelmReleaseTabs ==
  [tabs |-> <<"Overview", "Values", "Manifest", "Hooks", "History", "Notes",
              "Metadata", "YAML">>,
   rereads |-> TRUE]

HelmReleaseLinks ==
  [inside |-> {"ClusterRoleBindingDrawer", "ClusterRoleDrawer",
               "ConfigMapDrawer", "CronJobDrawer",
               "CustomResourceDefinitionDrawer", "CustomResourceDrawer",
               "DaemonSetDrawer", "DeploymentDrawer",
               "HorizontalPodAutoscalerDrawer", "IngressDrawer",
               "JobDrawer", "NamespaceDrawer", "NodeDrawer",
               "PersistentVolumeClaimDrawer", "PersistentVolumeDrawer",
               "PodDrawer", "RoleBindingDrawer", "RoleDrawer",
               "SecretDrawer", "ServiceAccountDrawer", "ServiceDrawer",
               "StatefulSetDrawer"},
   beside |-> {}]

HorizontalPodAutoscalerLoad ==
  [DetailsOnly EXCEPT !.tellsDenied = TRUE]

HorizontalPodAutoscalerTabs ==
  [tabs |-> <<"Signals", "Events", "Metadata", "YAML">>,
   rereads |-> FALSE]

HorizontalPodAutoscalerLinks ==
  [inside |-> {},
   beside |-> {"NamespaceDrawer", "DeploymentDrawer", "StatefulSetDrawer",
               "ReplicaSetDrawer", "DaemonSetDrawer", "JobDrawer",
               "CronJobDrawer"}]

IngressLoad == DetailsThenEvents

IngressTabs ==
  [tabs |-> <<"Overview", "Rules", "TLS", "Events", "Metadata", "YAML">>,
   rereads |-> TRUE]

IngressLinks ==
  [inside |-> {"ServiceDrawer", "NamespaceDrawer"},
   beside |-> {}]

JobLoad ==
  [DetailsThenEvents EXCEPT !.waits = TRUE]

JobTabs ==
  [tabs |-> <<"Overview", "Pods", "Spec", "Events", "Metadata", "YAML">>,
   rereads |-> TRUE]

JobLinks ==
  [inside |-> {"PodDrawer", "CronJobDrawer", "SecretDrawer",
               "ConfigMapDrawer", "NamespaceDrawer"},
   beside |-> {}]

NamespaceLoad ==
  [DetailsOnly EXCEPT !.waits = TRUE,
                      !.caches = TRUE,
                      !.lazyTabs = {"Metadata", "YAML"}]

NamespaceTabs ==
  [tabs |-> <<"Signals", "Inventory", "Capacity", "Events", "Metadata",
              "YAML">>,
   rereads |-> FALSE]

NamespaceLinks ==
  [inside |-> {"PodDrawer", "DeploymentDrawer", "JobDrawer",
               "HelmReleaseDrawer"},
   beside |-> {}]

NodeLoad ==
  [DetailsOnly EXCEPT !.waits = TRUE,
                      !.context = "active"]

NodeTabs ==
  [tabs |-> <<"Overview", "Pods", "Conditions", "Metadata", "YAML">>,
   rereads |-> FALSE]

NodeLinks ==
  [inside |-> {"PodDrawer", "NamespaceDrawer"},
   beside |-> {}]

PersistentVolumeLoad == DetailsThenEvents

PersistentVolumeTabs ==
  [tabs |-> <<"Overview", "Spec", "Events", "Metadata", "YAML">>,
   rereads |-> FALSE]

PersistentVolumeLinks ==
  [inside |-> {},
   beside |-> {"PersistentVolumeClaimDrawer"}]

PersistentVolumeClaimLoad == DetailsThenEvents

PersistentVolumeClaimTabs ==
  [tabs |-> <<"Overview", "Spec", "Events", "Metadata", "YAML">>,
   rereads |-> FALSE]

PersistentVolumeClaimLinks ==
  [inside |-> {},
   beside |-> {"PersistentVolumeDrawer", "NamespaceDrawer"}]

PodLoad ==
  [DetailsOnly EXCEPT !.waits = TRUE,
                      !.lazyTabs = {"Networking"},
                      !.chainsList = TRUE]

PodTabs ==
  [tabs |-> <<"Overview", "Containers", "Resources", "Networking", "Events",
              "Logs", "Metadata", "YAML">>,
   rereads |-> FALSE]

PodLinks ==
  [inside |-> {"ServiceDrawer", "IngressDrawer", "ReplicaSetDrawer",
               "DeploymentDrawer", "StatefulSetDrawer", "DaemonSetDrawer",
               "JobDrawer", "NodeDrawer", "ServiceAccountDrawer",
               "SecretDrawer", "NamespaceDrawer"},
   beside |-> {}]

ReplicaSetLoad == DetailsThenEvents

ReplicaSetTabs ==
  [tabs |-> <<"Overview", "Pods", "Spec", "Events", "Metadata", "YAML">>,
   rereads |-> FALSE]

ReplicaSetLinks ==
  [inside |-> {"PodDrawer", "DeploymentDrawer", "NamespaceDrawer",
               "SecretDrawer", "ConfigMapDrawer"},
   beside |-> {}]

RoleLoad ==
  [DetailsThenEvents EXCEPT !.tellsDenied = TRUE]

RoleTabs ==
  [tabs |-> <<"Overview", "Rules", "Events", "Metadata", "YAML">>,
   rereads |-> FALSE]

RoleLinks ==
  [inside |-> {},
   beside |-> {"NamespaceDrawer"}]

RoleBindingLoad ==
  [DetailsThenEvents EXCEPT !.tellsDenied = TRUE]

RoleBindingTabs ==
  [tabs |-> <<"Overview", "Subjects", "RoleRef", "Events", "Metadata",
              "YAML">>,
   rereads |-> FALSE]

RoleBindingLinks ==
  [inside |-> {},
   beside |-> {"RoleDrawer", "ClusterRoleDrawer", "NamespaceDrawer"}]

SecretLoad == DetailsThenEvents

SecretTabs ==
  [tabs |-> <<"Overview", "Keys", "Events", "Metadata", "YAML">>,
   rereads |-> TRUE]

SecretLinks ==
  [inside |-> {},
   beside |-> {"NamespaceDrawer"}]

ServiceLoad ==
  [DetailsThenEvents EXCEPT !.waits = TRUE,
                            !.lazyTabs = {"Pods"}]

ServiceTabs ==
  [tabs |-> <<"Overview", "Pods", "Events", "Metadata", "YAML">>,
   rereads |-> TRUE]

ServiceLinks ==
  [inside |-> {"PodDrawer", "IngressDrawer"},
   beside |-> {"NamespaceDrawer"}]

ServiceAccountLoad ==
  [DetailsThenEvents EXCEPT !.tellsDenied = TRUE,
                            !.lazyTabs = {"RoleBindings"}]

ServiceAccountTabs ==
  [tabs |-> <<"Overview", "RoleBindings", "Events", "Metadata", "YAML">>,
   rereads |-> FALSE]

ServiceAccountLinks ==
  [inside |-> {},
   beside |-> {"NamespaceDrawer"}]

StatefulSetLoad == DetailsThenEvents

StatefulSetTabs ==
  [tabs |-> <<"Overview", "Pods", "Spec", "Events", "Metadata", "YAML">>,
   rereads |-> TRUE]

StatefulSetLinks ==
  [inside |-> {"PodDrawer", "SecretDrawer", "ConfigMapDrawer",
               "NamespaceDrawer"},
   beside |-> {}]

-----------------------------------------------------------------------------
Drawer(name, load, tabs, links) ==
  [name |-> name, load |-> load, tabs |-> tabs.tabs, rereads |-> tabs.rereads,
   links |-> links.inside \union links.beside]

Drawers == {
  Drawer("ClusterRoleDrawer", ClusterRoleLoad, ClusterRoleTabs, NoLinks),
  Drawer("ClusterRoleBindingDrawer",
         ClusterRoleBindingLoad, ClusterRoleBindingTabs,
         ClusterRoleBindingLinks),
  Drawer("ConfigMapDrawer", ConfigMapLoad, ConfigMapTabs, ConfigMapLinks),
  Drawer("CronJobDrawer", CronJobLoad, CronJobTabs, CronJobLinks),
  Drawer("CustomResourceDrawer",
         CustomResourceLoad, CustomResourceTabs,
         NoLinks),
  Drawer("CustomResourceDefinitionDrawer",
         CustomResourceDefinitionLoad, CustomResourceDefinitionTabs,
         NoLinks),
  Drawer("DaemonSetDrawer", DaemonSetLoad, DaemonSetTabs, DaemonSetLinks),
  Drawer("DeploymentDrawer", DeploymentLoad, DeploymentTabs, DeploymentLinks),
  Drawer("HelmChartDrawer", HelmChartLoad, HelmChartTabs, HelmChartLinks),
  Drawer("HelmReleaseDrawer",
         HelmReleaseLoad, HelmReleaseTabs,
         HelmReleaseLinks),
  Drawer("HorizontalPodAutoscalerDrawer",
         HorizontalPodAutoscalerLoad, HorizontalPodAutoscalerTabs,
         HorizontalPodAutoscalerLinks),
  Drawer("IngressDrawer", IngressLoad, IngressTabs, IngressLinks),
  Drawer("JobDrawer", JobLoad, JobTabs, JobLinks),
  Drawer("NamespaceDrawer", NamespaceLoad, NamespaceTabs, NamespaceLinks),
  Drawer("NodeDrawer", NodeLoad, NodeTabs, NodeLinks),
  Drawer("PersistentVolumeDrawer",
         PersistentVolumeLoad, PersistentVolumeTabs,
         PersistentVolumeLinks),
  Drawer("PersistentVolumeClaimDrawer",
         PersistentVolumeClaimLoad, PersistentVolumeClaimTabs,
         PersistentVolumeClaimLinks),
  Drawer("PodDrawer", PodLoad, PodTabs, PodLinks),
  Drawer("ReplicaSetDrawer", ReplicaSetLoad, ReplicaSetTabs, ReplicaSetLinks),
  Drawer("RoleDrawer", RoleLoad, RoleTabs, RoleLinks),
  Drawer("RoleBindingDrawer",
         RoleBindingLoad, RoleBindingTabs,
         RoleBindingLinks),
  Drawer("SecretDrawer", SecretLoad, SecretTabs, SecretLinks),
  Drawer("ServiceDrawer", ServiceLoad, ServiceTabs, ServiceLinks),
  Drawer("ServiceAccountDrawer",
         ServiceAccountLoad, ServiceAccountTabs,
         ServiceAccountLinks),
  Drawer("StatefulSetDrawer",
         StatefulSetLoad, StatefulSetTabs,
         StatefulSetLinks)}
=============================================================================
