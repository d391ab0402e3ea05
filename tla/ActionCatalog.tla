--------------------------- MODULE ActionCatalog ---------------------------
(***************************************************************************)
(* The actions that the drawers offer for their object, from the           *)
(* components <X>Actions.tsx, the blocks of ResourceActions.tsx they are   *)
(* made of and the descriptors of lib/actions/builders.ts.                 *)
(*                                                                         *)
(*   id           the action of the server                                 *)
(*   confirm      "typed": the object's name; "simple": a check mark       *)
(*   blank        a required parameter starts empty                        *)
(*   checked      some parameter can be invalid                            *)
(*   after        what success does to the drawer: "closes" it, "rereads"  *)
(*                the object, or nothing                                   *)
(*   streams      the action can be run with a stream of its output, by    *)
(*                an executor of the component's own                       *)
(*   tab          the tab of the button, counted from 0                    *)
(***************************************************************************)
EXTENDS Naturals

Simple(id, after) ==
  [id |-> id, confirm |-> "simple", blank |-> FALSE, checked |-> FALSE,
   after |-> after, streams |-> FALSE, tab |-> 0]

Delete(id) == [Simple(id, "closes") EXCEPT !.confirm = "typed"]
Scale(id) == [Simple(id, "rereads") EXCEPT !.checked = TRUE]
Restart(id) == Simple(id, "rereads")

\* A one-off run; it leaves the drawer as it is.
Run(id) == [Simple(id, "nothing") EXCEPT !.streams = TRUE]

\* What the settings may add: dangerous actions are confirmed with the name,
\* and some ask for a value.
CustomActions ==
  {[Simple("custom.workload", "rereads") EXCEPT !.confirm = c, !.checked = v] :
     c \in {"typed", "simple"}, v \in BOOLEAN}

DeleteOnlyActions(delete) == {Delete(delete)}

WorkloadScaleRestartDeleteActions(scale, restart, delete) ==
  {Scale(scale), Restart(restart), Delete(delete)} \union CustomActions

WorkloadRestartDeleteActions(restart, delete) ==
  {Restart(restart), Delete(delete)} \union CustomActions

WorkloadScaleDeleteActions(scale, delete) ==
  {Scale(scale), Delete(delete)} \union CustomActions

HelmReleaseActions ==
  {Simple("helm.reinstall", "rereads"),
   [Simple("helm.upgrade", "rereads") EXCEPT !.blank = TRUE, !.checked = TRUE],
   Delete("helm.uninstall")}

\* One button for each former revision.
HelmRollback ==
  [Simple("helm.rollback", "rereads") EXCEPT !.checked = TRUE, !.tab = 4]

ClusterRoleActions == DeleteOnlyActions("clusterrole.delete")
ClusterRoleBindingActions == DeleteOnlyActions("clusterrolebinding.delete")
ConfigMapActions == DeleteOnlyActions("configmap.delete")
CronJobActions == {Run("cronjob.run")} \union DeleteOnlyActions("cronjob.delete")
CRDActions == DeleteOnlyActions("customresourcedefinitions.delete")
DaemonSetActions ==
  WorkloadRestartDeleteActions("daemonset.restart", "daemonset.delete")
DeploymentActions ==
  WorkloadScaleRestartDeleteActions("scale", "restart", "delete")
IngressActions == DeleteOnlyActions("ingress.delete")
JobActions == {Run("job.rerun")} \union DeleteOnlyActions("job.delete")
NamespaceActions == DeleteOnlyActions("namespaces.delete")
NodeActions == DeleteOnlyActions("nodes.delete")
PVActions == DeleteOnlyActions("persistentvolumes.delete")
PVCActions == DeleteOnlyActions("persistentvolumeclaims.delete")
PodActions == DeleteOnlyActions("pod.delete")
ReplicaSetActions ==
  WorkloadScaleDeleteActions("replicaset.scale", "replicaset.delete")
RoleActions == DeleteOnlyActions("role.delete")
RoleBindingActions == DeleteOnlyActions("rolebinding.delete")
SecretActions == DeleteOnlyActions("secret.delete")
ServiceActions == DeleteOnlyActions("service.delete")
ServiceAccountActions == DeleteOnlyActions("serviceaccount.delete")
StatefulSetActions ==
  WorkloadScaleRestartDeleteActions("statefulset.scale", "statefulset.restart",
                                    "statefulset.delete")

\* The drawer of an autoscaler, of a custom resource and of a chart offer
\* none.
ActionsOf ==
  [ClusterRoleDrawer |-> ClusterRoleActions,
   ClusterRoleBindingDrawer |-> ClusterRoleBindingActions,
   ConfigMapDrawer |-> ConfigMapActions,
   CronJobDrawer |-> CronJobActions,
   CustomResourceDefinitionDrawer |-> CRDActions,
   DaemonSetDrawer |-> DaemonSetActions,
   DeploymentDrawer |-> DeploymentActions,
   HelmReleaseDrawer |-> HelmReleaseActions \union {HelmRollback},
   IngressDrawer |-> IngressActions,
   JobDrawer |-> JobActions,
   NamespaceDrawer |-> NamespaceActions,
   NodeDrawer |-> NodeActions,
   PersistentVolumeDrawer |-> PVActions,
   PersistentVolumeClaimDrawer |-> PVCActions,
   PodDrawer |-> PodActions,
   ReplicaSetDrawer |-> ReplicaSetActions,
   RoleDrawer |-> RoleActions,
   RoleBindingDrawer |-> RoleBindingActions,
   SecretDrawer |-> SecretActions,
   ServiceDrawer |-> ServiceActions,
   ServiceAccountDrawer |-> ServiceAccountActions,
   StatefulSetDrawer |-> StatefulSetActions]

Actions(d) == IF d \in DOMAIN ActionsOf THEN ActionsOf[d] ELSE {}
=============================================================================
