----------------------------- MODULE Connection -----------------------------
(***************************************************************************)
(* connectionState.ts: whether the user interface believes that it reaches *)
(* the kview backend, and the backend the active cluster.                  *)
(*                                                                         *)
(* Every API call reports how it ended, and App.tsx polls /api/status, at  *)
(* once when the active context changes or the user asks for a retry and   *)
(* then on an interval.  A running poll can be overtaken by all of these;  *)
(* the answers of a poll of a former effect are dropped, so it is removed  *)
(* when the next effect runs.                                              *)
(*                                                                         *)
(* The texts of the issues, their times and the notice of a recovery are   *)
(* abstracted.                                                             *)
(***************************************************************************)
EXTENDS Naturals, FiniteSets

CONSTANTS
  Contexts,     \* Kubernetes contexts
  None,
  MaxPolls,     \* bound: polls of one effect under way
  Budgets       \* bounds, one of which holds for a behaviour: how often the
                \* user acts ("user"), calls fail at a backend that is there
                \* ("calls"), and the backend or a cluster goes away ("world")

IssueKinds == {"backend", "cluster", "request"}

ASSUME ConnectionBoundsAssumption ==
  /\ None \notin Contexts \union IssueKinds
  /\ MaxPolls \in Nat \ {0}
  /\ Budgets \subseteq [{"user", "calls", "world"} -> Nat]

VARIABLES
  backendHealth, clusterHealth, health,
  issue,        \* the kind of activeIssue, or None
  watched,      \* the context the effects of the last render were given
  polls,        \* of the running effect: "asked", or what the answer says
  reachable,    \* the backend answers
  answering,    \* the contexts whose cluster answers the backend
  budget        \* what is left of a bound of Budgets

healthVars == <<backendHealth, clusterHealth, health, issue>>
pollVars   == <<watched, polls>>
worldVars  == <<reachable, answering>>
connectionVars == <<healthVars, pollVars, worldVars, budget>>

Healths == {"healthy", "unhealthy"}

\* The server found the cluster up or down; 4xx; 5xx; no answer.
Statuses == {"up", "down", "refused", "overloaded", "network"}

ConnectionTypeOK ==
  /\ backendHealth \in Healths /\ clusterHealth \in Healths
  /\ health \in Healths
  /\ issue \in IssueKinds \union {None}
  /\ watched \in Contexts \union {None}
  /\ polls \subseteq Statuses \union {"asked"}
  /\ reachable \in BOOLEAN
  /\ answering \subseteq Contexts
  /\ budget \in [{"user", "calls", "world"} -> Nat]

\* The state of the module when the page is loaded; the first poll starts.
ConnectionInit ==
  /\ backendHealth = "healthy" /\ clusterHealth = "healthy"
  /\ health = "healthy" /\ issue = None
  /\ watched = None /\ polls = {"asked"}
  /\ reachable = TRUE /\ answering = Contexts
  /\ budget \in Budgets

Spend(what) ==
  /\ budget[what] > 0
  /\ budget' = [budget EXCEPT ![what] = @ - 1]

-----------------------------------------------------------------------------
(* Notifications.                                                          *)

\* recomputeHealth, from the values of this step: the backend comes first.
RecomputeHealth ==
  /\ health' = IF "unhealthy" \in {backendHealth', clusterHealth'}
               THEN "unhealthy" ELSE "healthy"
  /\ issue' = IF backendHealth' = "unhealthy" THEN "backend"
              ELSE IF clusterHealth' = "unhealthy" THEN "cluster"
              ELSE None

\* Mutant: the cluster, unknown so far, keeps the interface offline.
NotifyApiSuccess_Alone ==
  /\ backendHealth' = "healthy"
  /\ UNCHANGED <<clusterHealth, health, issue>>

NotifyApiSuccess ==
  /\ backendHealth' = "healthy"
  /\ UNCHANGED clusterHealth
  /\ IF backendHealth = "healthy"
     THEN UNCHANGED <<health, issue>>
     ELSE RecomputeHealth

\* A failed request says nothing about the health.
NotifyApiFailure(kind) ==
  /\ issue' = kind
  /\ IF kind = "backend"
     THEN backendHealth' = "unhealthy" /\ health' = "unhealthy"
     ELSE UNCHANGED <<backendHealth, health>>
  /\ UNCHANGED clusterHealth

\* Mutant: the status of the cluster alone.
NotifyStatus_ClusterOnly(status) ==
  /\ UNCHANGED backendHealth
  /\ clusterHealth' = IF status = "up" THEN "healthy" ELSE "unhealthy"
  /\ RecomputeHealth

NotifyStatus(status) ==
  /\ backendHealth' = "healthy"
  /\ clusterHealth' = IF status = "up" THEN "healthy" ELSE "unhealthy"
  /\ RecomputeHealth

\* How a call of the API ends: with an answer, with a status that only its
\* caller is told of (401, 403, 404, 409, ...), with one that is taken for a
\* failed request (408, 429, 500, an answer that is no JSON), with one that
\* is taken for a lost backend (502, 503, 504), or with none.
ApiEnds == {"ok", "refused", "failed", "overloaded", "network"}

ApiEnd(how) ==
  /\ how = "ok" \/ how = "refused" => reachable
  /\ IF how = "ok" \/ ~reachable
     THEN UNCHANGED budget
     ELSE Spend("calls")
  /\ \/ how = "ok" /\ NotifyApiSuccess
     \/ how = "refused" /\ UNCHANGED healthVars
     \/ how = "failed" /\ NotifyApiFailure("request")
     \/ how \in {"overloaded", "network"} /\ NotifyApiFailure("backend")

-----------------------------------------------------------------------------
(* Polling the status.                                                     *)

\* The effects of a render with another context: the API module's default
\* context is set, and the polls start anew.
Watch(context) ==
  /\ watched # context
  /\ watched' = context
  /\ polls' = {"asked"}
  /\ UNCHANGED <<healthVars, worldVars, budget>>

\* retryNonce is raised.
RequestConnectionRetry ==
  /\ health = "unhealthy" /\ Spend("user")
  /\ polls' = {"asked"}
  /\ UNCHANGED <<healthVars, watched, worldVars>>

IntervalPasses ==
  /\ Cardinality(polls) < MaxPolls
  /\ polls' = polls \union {"asked"}
  /\ UNCHANGED <<healthVars, watched, worldVars, budget>>

\* Without a context, the server looks at the one selected there.
StatusTaken(selected) ==
  LET context == IF watched = None THEN selected ELSE watched
      status  == IF ~reachable THEN "network"
                 ELSE IF context \in answering THEN "up" ELSE "down"
  IN  /\ "asked" \in polls
      /\ \/ /\ polls' = (polls \ {"asked"}) \union {status}
            /\ UNCHANGED budget
         \/ /\ reachable /\ Spend("calls")
            /\ \E s \in {"refused", "overloaded"} :
                 polls' = (polls \ {"asked"}) \union {s}
      /\ UNCHANGED <<healthVars, watched, worldVars>>

StatusAnswered ==
  \E status \in polls \ {"asked"} :
    /\ polls' = polls \ {status}
    /\ \/ status \in {"up", "down"} /\ NotifyStatus(status)
       \/ status = "refused" /\ NotifyApiFailure("request")
       \/ status \in {"overloaded", "network"} /\ NotifyApiFailure("backend")
    /\ UNCHANGED <<watched, worldVars, budget>>

\* A call of a page, of a drawer or of a background task.
OtherCallEnds ==
  /\ \E how \in ApiEnds : ApiEnd(how)
  /\ UNCHANGED <<pollVars, worldVars>>

-----------------------------------------------------------------------------
(* The world.                                                              *)

BackendChanges ==
  /\ reachable' = ~reachable
  /\ IF reachable THEN Spend("world") ELSE UNCHANGED budget
  /\ UNCHANGED <<healthVars, pollVars, answering>>

ClusterChanges(c) ==
  /\ answering' = IF c \in answering THEN answering \ {c}
                  ELSE answering \union {c}
  /\ IF c \in answering THEN Spend("world") ELSE UNCHANGED budget
  /\ UNCHANGED <<healthVars, pollVars, reachable>>

-----------------------------------------------------------------------------
\* The interface is offline exactly when the backend or the cluster is
\* believed lost, and then there is something for the banner to say, which
\* blames the one that is lost, unless a failed request came in between;
\* whatever calls and polls reported in whatever order.
OfflineHasReason ==
  /\ health = "unhealthy" <=>
       backendHealth = "unhealthy" \/ clusterHealth = "unhealthy"
  /\ health = "unhealthy" => issue # None
  /\ issue = "backend" => backendHealth = "unhealthy"
  /\ issue = "cluster" =>
       clusterHealth = "unhealthy" /\ backendHealth = "healthy"
=============================================================================
