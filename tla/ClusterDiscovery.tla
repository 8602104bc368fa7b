-------------------------- MODULE ClusterDiscovery --------------------------
(***************************************************************************)
(* The discovery of the managed clusters inside one Reconcile of           *)
(* krkntargetrequest_controller.go, with proxy_helpers.go: first the probe *)
(* inputs of all clusters, then the probes, then cluster by cluster the    *)
(* proxy configuration, the credentials and their validation, and at last  *)
(* the publication of the targets and the credentials.                     *)
(*                                                                         *)
(* Meanwhile the ConfigMap reconciler changes the proxy mode in the config *)
(* store, the OCM agent reports on the ManifestWorks, another operator     *)
(* creates them and an administrator deletes them.                         *)
(*                                                                         *)
(* A URL is "direct" (the first client config), "proxy" or "none" (empty). *)
(* The probes themselves are ProbePool's; here a probe has some result.    *)
(***************************************************************************)
EXTENDS Naturals, FiniteSets

CONSTANTS
  Clusters,      \* the managed clusters listed
  ClusterFacts,  \* what may be true of a cluster
  HubFacts,      \* what may be true of the hub
  MaxChanges     \* bound: changes by the environment, failed calls

URLs      == {"none", "direct", "proxy"}
Works     == {"absent", "created", "progressing", "ready"}
Health    == {"Healthy", "Unhealthy", "Unknown"}
NoCluster == "no cluster"  \* not a name of a cluster: it has a blank

\* A cluster's client configs (none, or the first one without or with a URL), the
\* Secret with its token and its ACM condition; the hub's proxy route, service
\* CA and the operator's own token.
ClusterFact == [configs : {"none", "noURL", "ok"}, secret : {"missing", "noToken", "ok"}, acm : Health]
HubFact     == [route : BOOLEAN, ca : BOOLEAN, token : BOOLEAN]

ASSUME FactsAssumption == ClusterFacts \subseteq ClusterFact /\ HubFacts \subseteq HubFact
ASSUME ClustersAssumption == IsFiniteSet(Clusters) /\ NoCluster \notin Clusters
ASSUME ChangesAssumption == MaxChanges \in Nat

VARIABLES
  facts,    \* of each cluster
  hub,      \* facts of the hub
  mode,     \* ACM_USE_PROXY_<cluster> in the config store
  work,     \* the ManifestWork in each cluster's namespace
  changes,  \* changes made so far
  step,     \* where Reconcile is
  todo,     \* the clusters its current loop has not reached
  current,  \* the cluster it is processing
  input,    \* clusterProbeInput of each cluster
  live,     \* clusterLivenessResult of each cluster
  url,      \* actualURL of the current cluster
  target,   \* the ClusterTarget of each cluster
  creds,    \* the URL in each cluster's kubeconfig in clustersData
  tried     \* history: the URL whose credentials passed the validation of this
            \* discovery, or Rejected; read by no action

envVars  == <<facts, hub, mode, work, changes>>
loopVars == <<todo, current, input, live, url>>
outVars  == <<target, creds, tried>>
vars == <<envVars, step, loopVars, outVars>>

Steps == {"start", "inputs", "next", "ensure", "create", "verify", "route",
          "secret", "validate", "published"}

NoTarget  == [url |-> "none", online |-> FALSE, status |-> "absent"]
NoCreds   == "absent"
Rejected  == "rejected"
NoInput   == [url |-> "none", proxyMode |-> FALSE]
Offline   == [online |-> FALSE, healthy |-> FALSE]
Liveness  == {Offline, [online |-> TRUE, healthy |-> FALSE], [online |-> TRUE, healthy |-> TRUE]}

\* ManagedClusterClientConfigs[0].URL as it is, if there is a client config.
DirectURL(c) == IF facts[c].configs = "ok" THEN "direct" ELSE "none"

-----------------------------------------------------------------------------
\* Pure parts.

\* Mutant of StatusAfterLiveness: the ACM condition whatever the probe said.
StatusFromACM(c, l) == facts[c].acm

\* clusterHealthStatusAfterLiveness over clusterHealthStatus.
StatusAfterLiveness(c, l) ==
  IF ~l.online THEN "Unknown" ELSE IF ~l.healthy THEN "Unhealthy" ELSE facts[c].acm

\* clusterHealthStatusAfterProxyPrerequisiteFailure.
StatusAfterProxyFailure(l) == IF l.online THEN "Unhealthy" ELSE "Unknown"

Target(u, online, status) == [url |-> u, online |-> online, status |-> status]

-----------------------------------------------------------------------------
\* The steps of Reconcile.

\* List of the managed clusters, and fresh maps.
Start ==
  /\ step = "start"
  /\ step' = "inputs"
  /\ todo' = Clusters
  /\ target' = [c \in Clusters |-> NoTarget]
  /\ creds' = [c \in Clusters |-> NoCreds]
  /\ tried' = [c \in Clusters |-> NoCreds]
  /\ UNCHANGED <<envVars, current, input, live, url>>

\* The probe input of one cluster: the first look at its proxy mode.
BuildInput(c) ==
  /\ step = "inputs" /\ c \in todo
  /\ input' = [input EXCEPT ![c] =
       [proxyMode |-> mode[c] = "proxy",
        url |-> IF mode[c] = "direct" THEN DirectURL(c) ELSE IF hub.route THEN "proxy" ELSE "none"]]
  /\ todo' = todo \ {c}
  /\ UNCHANGED <<envVars, step, current, live, url, outVars>>

\* probeManagedClusters; an empty URL is never probed.
Probe ==
  /\ step = "inputs" /\ todo = {}
  /\ live' \in [Clusters -> Liveness]
  /\ \A c \in Clusters : input[c].url = "none" => live'[c] = Offline
  /\ step' = "next" /\ todo' = Clusters
  /\ UNCHANGED <<envVars, current, input, url, outVars>>

\* targetData = append(targetData, target) and on to the next cluster.
AppendTarget(c, t, u) ==
  /\ target' = [target EXCEPT ![c] = t]
  /\ creds' = [creds EXCEPT ![c] = u]
  /\ step' = "next" /\ todo' = todo \ {c}
  /\ current' = NoCluster /\ url' = "none"
  /\ UNCHANGED <<input, live>>

\* Mutant of PrerequisiteFailed: target.ClusterStatus is not set.
PrerequisiteFailedUnset(c) ==
  /\ AppendTarget(c, Target(input[c].url, live[c].online, ""), NoCreds)
  /\ UNCHANGED tried

\* getProxyConfig returned an error.
PrerequisiteFailed(c) ==
  /\ AppendTarget(c, Target(input[c].url, live[c].online, StatusAfterProxyFailure(live[c])), NoCreds)
  /\ UNCHANGED tried

\* A cluster without client configs that was not in proxy mode.
SkipWithoutConfigs(c) ==
  /\ step = "next" /\ c \in todo
  /\ facts[c].configs = "none" /\ ~input[c].proxyMode
  /\ AppendTarget(c, Target(input[c].url, live[c].online, StatusAfterLiveness(c, live[c])), NoCreds)
  /\ UNCHANGED <<envVars, tried>>

\* Mutant of GetProxyConfig: also for a cluster without client configs.
GetProxyConfigAnyway(c) ==
  /\ step = "next" /\ c \in todo
  /\ current' = c
  /\ \/ mode[c] = "direct" /\ step' = "secret" /\ url' = DirectURL(c)
     \/ mode[c] = "proxy" /\ step' = "ensure" /\ url' = "none"
  /\ UNCHANGED <<envVars, todo, input, live, outVars>>

\* getProxyConfig: the second look at the proxy mode.
GetProxyConfig(c) ==
  /\ step = "next" /\ c \in todo
  /\ facts[c].configs # "none" \/ input[c].proxyMode
  /\ current' = c
  /\ \/ mode[c] = "direct" /\ step' = "secret" /\ url' = DirectURL(c)
     \/ mode[c] = "proxy" /\ step' = "ensure" /\ url' = "none"
  /\ UNCHANGED <<envVars, todo, input, live, outVars>>

\* A call of getProxyConfig fails for a reason of its own.
ProxyCallFails ==
  /\ step \in {"ensure", "create", "verify", "route"}
  /\ changes < MaxChanges
  /\ changes' = changes + 1
  /\ PrerequisiteFailed(current)
  /\ UNCHANGED <<facts, hub, mode, work>>

\* Mutant of EnsureManifestWork: a ManifestWork not ready means direct mode.
EnsureOrDirect ==
  LET c == current IN
  /\ step = "ensure"
  /\ \/ work[c] = "ready" /\ step' = "verify" /\ UNCHANGED url
     \/ work[c] # "ready" /\ step' = "secret" /\ url' = "direct"
  /\ UNCHANGED <<envVars, todo, current, input, live, outVars>>

\* ensureManifestWork: r.Get of the ManifestWork and its conditions.
EnsureManifestWork ==
  LET c == current IN
  /\ step = "ensure"
  /\ \/ /\ work[c] = "absent"
        /\ step' = "create"
        /\ UNCHANGED <<todo, current, input, live, url, outVars>>
     \/ /\ work[c] \in {"created", "progressing"}
        /\ PrerequisiteFailed(c)
     \/ /\ work[c] = "ready"
        /\ step' = "verify"
        /\ UNCHANGED <<todo, current, input, live, url, outVars>>
  /\ UNCHANGED envVars

\* createManifestWork; AlreadyExists is success.
CreateManifestWork ==
  /\ step = "create"
  /\ work' = [work EXCEPT ![current] = IF @ = "absent" THEN "created" ELSE @]
  /\ step' = "verify"
  /\ UNCHANGED <<facts, hub, mode, changes, loopVars, outVars>>

\* Mutant of VerifyManifestWork: Reconcile waits for the agent to report, which it
\* never does on a ManifestWork deleted in the meantime.
VerifyOrWait ==
  /\ step = "verify"
  /\ work[current] \in {"progressing", "ready"}
  /\ step' = "route"
  /\ UNCHANGED <<envVars, loopVars, outVars>>

\* r.Get after ensureManifestWork: any status condition will do.
VerifyManifestWork ==
  /\ step = "verify"
  /\ \/ /\ work[current] \in {"absent", "created"}
        /\ PrerequisiteFailed(current)
     \/ /\ work[current] \in {"progressing", "ready"}
        /\ step' = "route"
        /\ UNCHANGED <<loopVars, outVars>>
  /\ UNCHANGED envVars

\* getProxyURL, getProxyCA and getOperatorToken, and the kubeconfig from them.
ResolveRoute ==
  /\ step = "route"
  /\ \/ /\ ~(hub.route /\ hub.ca /\ hub.token)
        /\ PrerequisiteFailed(current)
     \/ /\ hub.route /\ hub.ca /\ hub.token
        /\ step' = "validate" /\ url' = "proxy"
        /\ UNCHANGED <<todo, current, input, live, outVars>>
  /\ UNCHANGED envVars

\* Mutants of GetToken: a cluster without a token is left out of the targets, or
\* ends the loop over the clusters (break for continue).
GetTokenOrDrop ==
  LET c == current IN
  /\ step = "secret"
  /\ \/ /\ facts[c].secret # "ok"
        /\ AppendTarget(c, NoTarget, NoCreds) /\ UNCHANGED tried
     \/ /\ facts[c].secret = "ok"
        /\ step' = "validate"
        /\ UNCHANGED <<loopVars, outVars>>
  /\ UNCHANGED envVars

GetTokenOrBreak ==
  LET c == current IN
  /\ step = "secret"
  /\ \/ /\ facts[c].secret # "ok"
        /\ target' = [d \in Clusters |->
             IF d \in todo THEN Target(input[d].url, live[d].online, "Unknown") ELSE target[d]]
        /\ step' = "next" /\ todo' = {}
        /\ current' = NoCluster /\ url' = "none"
        /\ UNCHANGED <<input, live, creds, tried>>
     \/ /\ facts[c].secret = "ok"
        /\ step' = "validate"
        /\ UNCHANGED <<loopVars, outVars>>
  /\ UNCHANGED envVars

\* getConfiguredSecretName, getClusterSecret and its token, and the kubeconfig.
GetToken ==
  LET c == current IN
  /\ step = "secret"
  /\ \/ /\ facts[c].secret # "ok"
        /\ AppendTarget(c, Target(url, live[c].online, StatusAfterLiveness(c, live[c])), NoCreds)
        /\ UNCHANGED tried
     \/ /\ facts[c].secret = "ok"
        /\ step' = "validate"
        /\ UNCHANGED <<loopVars, outVars>>
  /\ UNCHANGED envVars

\* Mutant of ValidateCredentials: no continue after a failed validation.
ValidateAndGoOn ==
  LET c == current IN
  /\ step = "validate"
  /\ \/ /\ ~live[c].healthy /\ UNCHANGED tried
        /\ AppendTarget(c, Target(url, live[c].online, StatusAfterLiveness(c, live[c])), url)
     \/ /\ live[c].healthy /\ tried' = [tried EXCEPT ![c] = Rejected]
        /\ AppendTarget(c, Target(url, FALSE, StatusAfterLiveness(c, live[c])), url)
     \/ /\ live[c].healthy /\ url # "none" /\ tried' = [tried EXCEPT ![c] = url]
        /\ AppendTarget(c, Target(url, TRUE, StatusAfterLiveness(c, live[c])), url)
  /\ UNCHANGED envVars

\* validateClusterCredentials, if the anonymous probe was healthy: a kubeconfig
\* without a server fails, any other one may fail or pass.  Otherwise the
\* credentials are published without being tried.
ValidateCredentials ==
  LET c == current
      t == Target(url, live[c].online, StatusAfterLiveness(c, live[c])) IN
  /\ step = "validate"
  /\ \/ /\ ~(live[c].online /\ live[c].healthy)
        /\ UNCHANGED tried
        /\ AppendTarget(c, t, url)
     \/ /\ live[c].online /\ live[c].healthy
        /\ tried' = [tried EXCEPT ![c] = Rejected]
        /\ AppendTarget(c, Target(url, FALSE, "Unhealthy"), NoCreds)
     \/ /\ live[c].online /\ live[c].healthy /\ url # "none"
        /\ tried' = [tried EXCEPT ![c] = url]
        /\ AppendTarget(c, t, url)
  /\ UNCHANGED envVars

\* The Secret and the status are written; from now on the operator has
\* contributed, and Reconcile does no further discovery for this request.
Publish ==
  /\ step = "next" /\ todo = {}
  /\ step' = "published"
  /\ UNCHANGED <<envVars, loopVars, outVars>>

\* One of those writes fails: everything is discovered again.
PublishFails ==
  /\ step = "next" /\ todo = {}
  /\ changes < MaxChanges
  /\ changes' = changes + 1
  /\ step' = "start"
  /\ UNCHANGED <<facts, hub, mode, work, loopVars, outVars>>

ReconcileStep ==
  \/ Start
  \/ \E c \in Clusters : BuildInput(c) \/ SkipWithoutConfigs(c) \/ GetProxyConfig(c)
  \/ Probe \/ EnsureManifestWork \/ CreateManifestWork \/ VerifyManifestWork
  \/ ResolveRoute \/ GetToken \/ ValidateCredentials \/ Publish

-----------------------------------------------------------------------------
\* The environment.

\* The ConfigMap changes and is copied into the config store.
ChangeMode(c) ==
  /\ changes < MaxChanges
  /\ changes' = changes + 1
  /\ mode' = [mode EXCEPT ![c] = IF @ = "proxy" THEN "direct" ELSE "proxy"]
  /\ UNCHANGED <<facts, hub, work, step, loopVars, outVars>>

\* The OCM agent applies the ManifestWork and reports its conditions.
AgentReports(c) ==
  /\ \/ work[c] = "created" /\ work' = [work EXCEPT ![c] = "progressing"]
     \/ work[c] = "progressing" /\ work' = [work EXCEPT ![c] = "ready"]
  /\ UNCHANGED <<facts, hub, mode, changes, step, loopVars, outVars>>

\* Another operator creates it, it becomes unavailable, or it is deleted.
DisturbWork(c) ==
  /\ changes < MaxChanges
  /\ changes' = changes + 1
  /\ \/ work[c] = "absent" /\ work' = [work EXCEPT ![c] = "created"]
     \/ work[c] = "ready" /\ work' = [work EXCEPT ![c] = "progressing"]
     \/ work[c] # "absent" /\ work' = [work EXCEPT ![c] = "absent"]
  /\ UNCHANGED <<facts, hub, mode, step, loopVars, outVars>>

Init ==
  /\ facts \in [Clusters -> ClusterFacts]
  /\ hub \in HubFacts
  /\ mode \in [Clusters -> {"direct", "proxy"}]
  /\ work \in [Clusters -> Works]
  /\ changes = 0
  /\ step = "start"
  /\ todo = {} /\ current = NoCluster
  /\ input = [c \in Clusters |-> NoInput]
  /\ live = [c \in Clusters |-> Offline]
  /\ url = "none"
  /\ target = [c \in Clusters |-> NoTarget]
  /\ creds = [c \in Clusters |-> NoCreds]
  /\ tried = [c \in Clusters |-> NoCreds]

Next ==
  \/ ReconcileStep
  \/ PublishFails \/ ProxyCallFails
  \/ \E c \in Clusters : ChangeMode(c) \/ AgentReports(c) \/ DisturbWork(c)

Spec == Init /\ [][Next]_vars

\* Reconcile is not preempted for ever, and the OCM agent works.
FairSpec ==
  Spec /\ WF_vars(ReconcileStep) /\ \A c \in Clusters : WF_vars(AgentReports(c))

-----------------------------------------------------------------------------
\* Properties.

\* The type invariant.
TypeOK ==
  /\ facts \in [Clusters -> ClusterFacts] /\ hub \in HubFacts
  /\ mode \in [Clusters -> {"direct", "proxy"}] /\ work \in [Clusters -> Works]
  /\ changes \in 0..MaxChanges /\ step \in Steps
  /\ todo \subseteq Clusters /\ current \in Clusters \cup {NoCluster}
  /\ input \in [Clusters -> [url : URLs, proxyMode : BOOLEAN]]
  /\ live \in [Clusters -> Liveness]
  /\ url \in URLs
  /\ target \in [Clusters -> [url : URLs, online : BOOLEAN, status : Health \cup {"absent"}]]
  /\ creds \in [Clusters -> URLs \cup {NoCreds}]
  /\ tried \in [Clusters -> URLs \cup {NoCreds, Rejected}]
  /\ current # NoCluster <=> step \in {"ensure", "create", "verify", "route", "secret", "validate"}

\* Whatever is missing for a cluster, its entry is in the published list of
\* targets, and the entry of a cluster with credentials shows their URL.
EveryClusterListed ==
  step = "published" => \A c \in Clusters :
    target[c].status # "absent" /\ creds[c] \in {NoCreds, target[c].url}

\* A cluster reported healthy answered its anonymous probe healthily, in the
\* mode and at the URL the operator looked at, and ACM has it available.
HealthyIsEarned ==
  \A c \in Clusters : target[c].status = "Healthy" =>
    live[c] = [online |-> TRUE, healthy |-> TRUE] /\ input[c].url # "none"
      /\ facts[c].acm = "Healthy"

\* The validation concerns the very credentials that are published.  Healthy
\* together with credentials means that those, at the URL shown and not merely
\* at the one probed, passed it in this discovery; a cluster whose credentials
\* failed it is neither online nor in the Secret.
HealthyCredentialsTried ==
  \A c \in Clusters :
    /\ target[c].status = "Healthy" /\ creds[c] # NoCreds =>
         tried[c] = creds[c] /\ creds[c] # "none"
    /\ tried[c] = Rejected => ~target[c].online /\ creds[c] = NoCreds

\* Credentials without a server address are published in two cases only: the
\* first look found proxy mode and the second one direct mode, or the client
\* config has no URL, and the target is then reported offline.
EmptyServerIsOffline ==
  \A c \in Clusters : creds[c] = "none" =>
    input[c].proxyMode \/ (facts[c].configs = "noURL" /\ ~target[c].online)

\* Fail fast: a cluster that stays in proxy mode is never given direct
\* credentials, a direct URL or credentials without a server, whatever becomes of its ManifestWork, of the
\* hub and of the calls made for it.
NoFallback ==
  \A c \in Clusters : [](mode[c] = "proxy") =>
    [](creds[c] \notin {"direct", "none"} /\ target[c].url # "direct")

\* The credentials of a cluster in direct mode are published, or were tried and
\* rejected.
Served(c) ==
  \/ creds[c] = "direct"
  \/ tried[c] = Rejected /\ target[c] = Target("direct", FALSE, "Unhealthy")

\* One cluster's missing token, ManifestWork or client config, its change of
\* mode or a call that fails for it costs no other cluster its credentials: one
\* that stays in direct mode and has a URL and a token is served.
GoodClusterServed ==
  \A c \in Clusters : [](mode[c] = "direct") =>
    [](step = "published" /\ facts[c].configs = "ok" /\ facts[c].secret = "ok" => Served(c))

\* Reconcile comes to its end and publishes.
Publishes == <>(step = "published")
=============================================================================
