---------------------- MODULE ClusterDiscoveryProofs ----------------------
(***************************************************************************)
(* Proofs about ClusterDiscovery, for any clusters, facts and number of    *)
(* changes and failed calls.                                               *)
(***************************************************************************)
EXTENDS ClusterDiscovery, TLAPS

\* Where Reconcile processes a cluster, and where it has probed them all.
Handling == {"ensure", "create", "verify", "route", "secret", "validate"}
Looping  == Handling \cup {"next", "published"}

\* Between the fresh maps and the probes nothing has been reported yet.
FreshInv ==
  step = "inputs" => \A c \in Clusters :
    target[c] = NoTarget /\ creds[c] = NoCreds /\ tried[c] = NoCreds

\* An empty URL was not probed.  While the inputs are rebuilt, the results are
\* those of an earlier discovery.
ProbeInv ==
  step # "inputs" => \A c \in Clusters : input[c].url = "none" => live[c] = Offline

\* The entry of a cluster whose turn is over.
Listed(c) == target[c].status # "absent" /\ creds[c] \in {NoCreds, target[c].url}

\* The loop over the clusters: entries up to the current one, none after it.
LoopInv ==
  step \in Looping =>
    /\ \A c \in todo : target[c] = NoTarget /\ creds[c] = NoCreds /\ tried[c] = NoCreds
    /\ \A c \in Clusters \ todo : Listed(c)
    /\ step \in Handling => current \in todo
    /\ step = "published" => todo = {}

\* A cluster first found in direct mode was probed at its client config's URL.
InputInv ==
  \A c \in Clusters :
    step \in Looping \/ (step = "inputs" /\ c \notin todo) =>
      input[c].proxyMode \/ input[c].url = DirectURL(c)

\* An empty server address on its way into a kubeconfig.
UrlInv ==
  step \in {"secret", "validate"} /\ url = "none" =>
    input[current].proxyMode \/ facts[current].configs = "noURL"

IInv ==
  /\ TypeOK /\ FreshInv /\ ProbeInv /\ LoopInv /\ InputInv /\ UrlInv
  /\ HealthyIsEarned /\ HealthyCredentialsTried /\ EmptyServerIsOffline

-----------------------------------------------------------------------------
USE FactsAssumption, ClustersAssumption, ChangesAssumption

\* The invariant holds at the start.
LEMMA InitInv == Init => IInv
<1> SUFFICES ASSUME Init PROVE IInv
  OBVIOUS
<1>1. TypeOK
  BY DEF Init, TypeOK, Steps, URLs, Works, Health, Liveness, Offline, NoInput, NoTarget, NoCreds
<1> QED
  BY <1>1 DEF Init, IInv, FreshInv, ProbeInv, LoopInv, InputInv, UrlInv, Looping, Handling,
     HealthyIsEarned, HealthyCredentialsTried, EmptyServerIsOffline, NoTarget, NoCreds, NoInput, Offline, Rejected

\* The types of an entry and of the history of a validation.
TargetType == [url : URLs, online : BOOLEAN, status : Health \cup {"absent"}]
TriedType  == URLs \cup {NoCreds, Rejected}

\* What a report on cluster c, with the outcome w of the validation, must satisfy
\* for the invariants to be kept.
Sound(c, t, u, w) ==
  /\ t \in TargetType /\ t.status # "absent"
  /\ u \in {NoCreds, t.url}
  /\ w \in TriedType
  /\ t.status = "Healthy" =>
       live[c] = [online |-> TRUE, healthy |-> TRUE] /\ facts[c].acm = "Healthy"
  /\ t.status = "Healthy" /\ u # NoCreds => w = u /\ u # "none"
  /\ w = Rejected => ~t.online /\ u = NoCreds
  /\ u = "none" => input[c].proxyMode \/ (facts[c].configs = "noURL" /\ ~t.online)

\* The statuses derived from a liveness result are never absent, and healthy
\* only if probe and ACM both say so.
LEMMA Statuses ==
  ASSUME TypeOK, NEW c \in Clusters
  PROVE  /\ StatusAfterLiveness(c, live[c]) \in Health
         /\ StatusAfterProxyFailure(live[c]) \in {"Unhealthy", "Unknown"}
         /\ StatusAfterLiveness(c, live[c]) = "Healthy" =>
              live[c] = [online |-> TRUE, healthy |-> TRUE] /\ facts[c].acm = "Healthy"
         /\ live[c].online \in BOOLEAN /\ live[c].healthy \in BOOLEAN
         /\ live[c].healthy => live[c].online
<1>1. live[c] \in Liveness /\ facts[c] \in ClusterFact
  BY DEF TypeOK
<1>2. facts[c].acm \in Health
  BY <1>1 DEF ClusterFact
<1> USE DEF StatusAfterLiveness, StatusAfterProxyFailure, Health
<1>3. CASE live[c] = Offline
  BY <1>3 DEF Offline
<1>4. CASE live[c] = [online |-> TRUE, healthy |-> FALSE]
  BY <1>4
<1>5. CASE live[c] = [online |-> TRUE, healthy |-> TRUE]
  BY <1>2, <1>5
<1> QED BY <1>1, <1>3, <1>4, <1>5 DEF Liveness

\* Reporting soundly on a cluster of the loop keeps the invariant.
LEMMA AppendKeeps ==
  ASSUME IInv, NEW c \in Clusters, NEW t, NEW u, NEW w,
         c \in todo, step \in Handling \cup {"next"},
         Sound(c, t, u, w), AppendTarget(c, t, u), tried' = [tried EXCEPT ![c] = w],
         UNCHANGED <<facts, hub, mode, work>>, changes' \in 0..MaxChanges
  PROVE  IInv'
<1> USE DEF AppendTarget, IInv
<1>1. /\ target' \in [Clusters -> TargetType]
      /\ creds' \in [Clusters -> URLs \cup {NoCreds}]
      /\ tried' \in [Clusters -> TriedType]
  BY DEF TypeOK, Sound, TargetType, TriedType
<1>2. TypeOK'
  BY <1>1 DEF TypeOK, TargetType, TriedType, Steps, URLs
<1>3. /\ target'[c] = t /\ creds'[c] = u /\ tried'[c] = w
      /\ \A d \in Clusters \ {c} :
           target'[d] = target[d] /\ creds'[d] = creds[d] /\ tried'[d] = tried[d]
  BY DEF TypeOK
<1>4. FreshInv' /\ UrlInv'
  BY DEF FreshInv, UrlInv
<1>5. ProbeInv' /\ InputInv'
  BY DEF ProbeInv, InputInv, Looping, Handling, DirectURL
<1>6. LoopInv'
  BY <1>3 DEF LoopInv, Looping, Handling, Sound, Listed, TypeOK
<1>7. live[c] # Offline => input[c].url # "none"
  BY DEF ProbeInv, Handling
<1>8. HealthyIsEarned'
  BY <1>3, <1>7 DEF HealthyIsEarned, Sound, Offline
<1>9. HealthyCredentialsTried'
  BY <1>3 DEF HealthyCredentialsTried, Sound
<1>10. EmptyServerIsOffline'
  BY <1>3 DEF EmptyServerIsOffline, Sound
<1> QED BY <1>2, <1>4, <1>5, <1>6, <1>8, <1>9, <1>10

\* The same when nothing was validated: the cluster's history is still empty.
LEMMA AppendUntriedKeeps ==
  ASSUME IInv, NEW c \in Clusters, NEW t, NEW u,
         c \in todo, step \in Handling \cup {"next"},
         Sound(c, t, u, NoCreds), AppendTarget(c, t, u), UNCHANGED tried,
         UNCHANGED <<facts, hub, mode, work>>, changes' \in 0..MaxChanges
  PROVE  IInv'
<1>1. tried[c] = NoCreds /\ tried \in [Clusters -> TriedType]
  BY DEF IInv, LoopInv, Looping, Handling, TypeOK, TriedType
<1>2. tried' = [tried EXCEPT ![c] = NoCreds]
  BY <1>1
<1> QED BY <1>2, AppendKeeps

\* A failing prerequisite of the proxy is reported soundly.
LEMMA FailureKeeps ==
  ASSUME IInv, NEW c \in Clusters, c \in todo, step \in Handling,
         PrerequisiteFailed(c), UNCHANGED <<facts, hub, mode, work>>, changes' \in 0..MaxChanges
  PROVE  IInv'
<1> DEFINE t == Target(input[c].url, live[c].online, StatusAfterProxyFailure(live[c]))
<1>1. TypeOK
  BY DEF IInv
<1>2. input[c].url \in URLs
  BY <1>1 DEF TypeOK
<1>3. Sound(c, t, NoCreds, NoCreds)
  BY <1>1, <1>2, Statuses DEF Sound, Target, TargetType, TriedType, NoCreds, Rejected, Health
<1> HIDE DEF t
<1>4. AppendTarget(c, t, NoCreds) /\ UNCHANGED tried
  BY DEF PrerequisiteFailed, t
<1> QED BY <1>3, <1>4, AppendUntriedKeeps

\* Moving on to another step of the same cluster.
LEMMA ProceedKeeps ==
  ASSUME IInv, step \in Handling, step' \in Handling, url' \in URLs,
         step' # "secret", step' = "validate" => url' = "proxy" \/ (step = "secret" /\ url' = url),
         UNCHANGED <<facts, hub, mode, changes, todo, current, input, live, outVars>>,
         work' \in [Clusters -> Works]
  PROVE  IInv'
<1> USE DEF IInv, outVars
<1>1. TypeOK'
  BY DEF TypeOK, Steps, Handling
<1>2. FreshInv' /\ ProbeInv' /\ LoopInv' /\ InputInv' /\ UrlInv'
  BY DEF FreshInv, ProbeInv, LoopInv, InputInv, UrlInv, Looping, Handling, Listed, DirectURL
<1>3. HealthyIsEarned' /\ HealthyCredentialsTried' /\ EmptyServerIsOffline'
  BY DEF HealthyIsEarned, HealthyCredentialsTried, EmptyServerIsOffline
<1> QED BY <1>1, <1>2, <1>3

\* A step of the environment keeps the invariant.
LEMMA EnvironmentKeeps ==
  ASSUME IInv, UNCHANGED <<facts, hub, step, loopVars, outVars>>, changes' \in 0..MaxChanges,
         mode' \in [Clusters -> {"direct", "proxy"}], work' \in [Clusters -> Works]
  PROVE  IInv'
<1> USE DEF IInv, loopVars, outVars
<1>1. TypeOK'
  BY DEF TypeOK
<1>2. FreshInv' /\ ProbeInv' /\ LoopInv' /\ InputInv' /\ UrlInv'
  BY DEF FreshInv, ProbeInv, LoopInv, InputInv, UrlInv, Listed, DirectURL
<1>3. HealthyIsEarned' /\ HealthyCredentialsTried' /\ EmptyServerIsOffline'
  BY DEF HealthyIsEarned, HealthyCredentialsTried, EmptyServerIsOffline
<1> QED BY <1>1, <1>2, <1>3

-----------------------------------------------------------------------------
\* The steps of Reconcile, one by one.

\* Fresh maps.
LEMMA StartKeeps == IInv /\ Start => IInv'
<1> SUFFICES ASSUME IInv, Start PROVE IInv'
  OBVIOUS
<1> USE DEF IInv, Start, envVars
<1>1. \A c \in Clusters : target'[c] = NoTarget /\ creds'[c] = NoCreds /\ tried'[c] = NoCreds
  OBVIOUS
<1>2. TypeOK'
  BY DEF TypeOK, Steps, NoTarget, NoCreds, URLs
<1>3. FreshInv' /\ ProbeInv' /\ LoopInv' /\ InputInv' /\ UrlInv'
  BY <1>1 DEF FreshInv, ProbeInv, LoopInv, InputInv, UrlInv, DirectURL, Looping, Handling
<1>4. HealthyIsEarned' /\ HealthyCredentialsTried' /\ EmptyServerIsOffline'
  BY <1>1 DEF HealthyIsEarned, HealthyCredentialsTried, EmptyServerIsOffline, NoTarget, NoCreds, Rejected
<1> QED BY <1>2, <1>3, <1>4

\* The first look at a cluster.
LEMMA BuildInputKeeps == \A c \in Clusters : IInv /\ BuildInput(c) => IInv'
<1> SUFFICES ASSUME NEW c \in Clusters, IInv, BuildInput(c) PROVE IInv'
  OBVIOUS
<1> USE DEF IInv, envVars, outVars
<1>1. input' \in [Clusters -> [url : URLs, proxyMode : BOOLEAN]]
  BY DEF BuildInput, TypeOK, URLs, DirectURL
<1>2. /\ input'[c].proxyMode \/ input'[c].url = DirectURL(c)
      /\ \A d \in Clusters \ {c} : input'[d] = input[d]
  BY DEF BuildInput, TypeOK
<1> USE DEF BuildInput
<1>3. TypeOK'
  BY <1>1 DEF TypeOK
<1>4. FreshInv' /\ ProbeInv' /\ LoopInv' /\ UrlInv'
  BY DEF FreshInv, ProbeInv, LoopInv, UrlInv, Looping, Handling
<1>5. InputInv'
  BY <1>2 DEF InputInv, DirectURL, Looping, Handling
<1>6. HealthyIsEarned' /\ HealthyCredentialsTried' /\ EmptyServerIsOffline'
  BY DEF FreshInv, HealthyIsEarned, HealthyCredentialsTried, EmptyServerIsOffline, NoTarget, NoCreds, Rejected
<1> QED BY <1>3, <1>4, <1>5, <1>6

\* The probes: nothing reported yet depends on the earlier results.
LEMMA ProbeKeeps == IInv /\ Probe => IInv'
<1> SUFFICES ASSUME IInv, Probe PROVE IInv'
  OBVIOUS
<1> USE DEF IInv, Probe, envVars, outVars
<1>1. TypeOK'
  BY DEF TypeOK, Steps
<1>2. FreshInv' /\ ProbeInv' /\ LoopInv' /\ InputInv' /\ UrlInv'
  BY DEF FreshInv, ProbeInv, LoopInv, InputInv, UrlInv, DirectURL, Handling
<1>3. HealthyIsEarned' /\ HealthyCredentialsTried' /\ EmptyServerIsOffline'
  BY DEF FreshInv, HealthyIsEarned, HealthyCredentialsTried, EmptyServerIsOffline, NoTarget, NoCreds, Rejected
<1> QED BY <1>1, <1>2, <1>3

\* A cluster without client configs is reported soundly.
LEMMA SkipKeeps == \A c \in Clusters : IInv /\ SkipWithoutConfigs(c) => IInv'
<1> SUFFICES ASSUME NEW c \in Clusters, IInv, SkipWithoutConfigs(c) PROVE IInv'
  OBVIOUS
<1> DEFINE t == Target(input[c].url, live[c].online, StatusAfterLiveness(c, live[c]))
<1>1. TypeOK
  BY DEF IInv
<1>2. input[c].url \in URLs
  BY <1>1 DEF TypeOK
<1>3. Sound(c, t, NoCreds, NoCreds)
  BY <1>1, <1>2, Statuses DEF Sound, Target, TargetType, TriedType, NoCreds, Rejected, Health
<1> HIDE DEF t
<1>4. /\ AppendTarget(c, t, NoCreds) /\ UNCHANGED <<envVars, tried>>
      /\ step = "next" /\ c \in todo
  BY DEF SkipWithoutConfigs, t
<1>5. changes \in 0..MaxChanges
  BY <1>1 DEF TypeOK
<1> QED BY <1>3, <1>4, <1>5, AppendUntriedKeeps DEF envVars

\* The second look at a cluster.
LEMMA GetProxyConfigKeeps == \A c \in Clusters : IInv /\ GetProxyConfig(c) => IInv'
<1> SUFFICES ASSUME NEW c \in Clusters, IInv, GetProxyConfig(c) PROVE IInv'
  OBVIOUS
<1> USE DEF IInv, GetProxyConfig, envVars, outVars
<1>1. TypeOK'
  BY DEF TypeOK, Steps, URLs, DirectURL
<1>2. FreshInv' /\ ProbeInv' /\ LoopInv' /\ InputInv'
  BY DEF FreshInv, ProbeInv, LoopInv, InputInv, DirectURL, Looping, Handling, Listed
<1>3. HealthyIsEarned' /\ HealthyCredentialsTried' /\ EmptyServerIsOffline'
  BY DEF HealthyIsEarned, HealthyCredentialsTried, EmptyServerIsOffline
<1>4. UrlInv'
  <2>1. facts[c].configs \in {"none", "noURL", "ok"}
    BY DEF TypeOK, ClusterFact
  <2> QED BY <2>1 DEF UrlInv, DirectURL
<1> QED BY <1>1, <1>2, <1>3, <1>4

\* The current cluster is one of the loop.
LEMMA CurrentInLoop == IInv /\ step \in Handling => current \in Clusters /\ current \in todo
  BY DEF IInv, LoopInv, TypeOK, Looping

\* The steps of getProxyConfig.
LEMMA ProxyKeeps ==
  ASSUME IInv,
         EnsureManifestWork \/ CreateManifestWork \/ VerifyManifestWork \/ ResolveRoute \/ ProxyCallFails
  PROVE  IInv'
<1>1. TypeOK
  BY DEF IInv
<1>2. step \in Handling /\ UNCHANGED <<facts, hub, mode>> /\ changes' \in 0..MaxChanges
  BY <1>1 DEF EnsureManifestWork, CreateManifestWork, VerifyManifestWork, ResolveRoute, ProxyCallFails,
     Handling, envVars, TypeOK
<1>3. work' \in [Clusters -> Works] /\ url \in URLs
  BY <1>1 DEF EnsureManifestWork, CreateManifestWork, VerifyManifestWork, ResolveRoute, ProxyCallFails,
     envVars, TypeOK, Works
<1>4. CASE PrerequisiteFailed(current) /\ work' = work
  BY <1>2, <1>4, CurrentInLoop, FailureKeeps
<1>5. CASE /\ step' \in Handling \ {"secret"} /\ url' \in {url, "proxy"}
           /\ step' = "validate" => url' = "proxy"
           /\ UNCHANGED <<changes, todo, current, input, live, outVars>>
  BY <1>2, <1>3, <1>5, ProceedKeeps DEF URLs
<1>6. CASE EnsureManifestWork \/ VerifyManifestWork
  BY <1>4, <1>5, <1>6 DEF EnsureManifestWork, VerifyManifestWork, Handling, envVars, loopVars
<1>7. CASE CreateManifestWork
  BY <1>5, <1>7 DEF CreateManifestWork, Handling, loopVars
<1>8. CASE ResolveRoute \/ ProxyCallFails
  BY <1>4, <1>5, <1>8 DEF ResolveRoute, ProxyCallFails, Handling, envVars
<1> QED BY <1>6, <1>7, <1>8

\* The steps that end with credentials or without a token.
LEMMA CredentialsKeep == IInv /\ (GetToken \/ ValidateCredentials) => IInv'
<1> SUFFICES ASSUME IInv, GetToken \/ ValidateCredentials PROVE IInv'
  OBVIOUS
<1> DEFINE c == current
           t == Target(url, live[c].online, StatusAfterLiveness(c, live[c]))
           rejected == Target(url, FALSE, "Unhealthy")
<1>1. TypeOK /\ InputInv /\ UrlInv /\ ProbeInv
  BY DEF IInv
<1>2. step \in Handling /\ step \in {"secret", "validate"} /\ UNCHANGED envVars
  BY DEF GetToken, ValidateCredentials, Handling
<1>3. c \in Clusters /\ c \in todo
  BY <1>2, CurrentInLoop
<1>4. url \in URLs /\ changes \in 0..MaxChanges /\ work \in [Clusters -> Works]
  BY <1>1 DEF TypeOK
<1> USE DEF Sound, Target, TargetType, TriedType, NoCreds, Rejected, Health, URLs
<1>5. Sound(c, t, NoCreds, NoCreds)
  BY <1>1, <1>3, <1>4, Statuses
<1>6. Sound(c, rejected, NoCreds, Rejected)
  BY <1>4
<1> HIDE DEF Sound, Target, NoCreds, Rejected
<1>7. url = "none" => input[c].proxyMode \/ (facts[c].configs = "noURL" /\ ~live[c].online)
  <2>1. url = "none" /\ ~input[c].proxyMode => facts[c].configs = "noURL" /\ input[c].url = "none"
    BY <1>1, <1>2, <1>3 DEF UrlInv, InputInv, DirectURL, Looping
  <2> QED BY <1>1, <1>2, <1>3, <2>1 DEF ProbeInv, Offline
<1> USE DEF Sound, Target, NoCreds, Rejected
<1>8. ASSUME ~(live[c].online /\ live[c].healthy) PROVE Sound(c, t, url, NoCreds)
  BY <1>1, <1>3, <1>4, <1>8, <1>7, Statuses
<1>9. ASSUME url # "none" PROVE Sound(c, t, url, url)
  BY <1>1, <1>3, <1>4, <1>9, Statuses
<1> HIDE DEF Sound, Target, NoCreds, Rejected, t, rejected
<1>10. CASE \E x, u : Sound(c, x, u, NoCreds) /\ AppendTarget(c, x, u) /\ UNCHANGED tried
  BY <1>2, <1>3, <1>4, <1>10, AppendUntriedKeeps DEF envVars
<1>11. CASE \E x, u, w : /\ Sound(c, x, u, w) /\ AppendTarget(c, x, u)
                         /\ tried' = [tried EXCEPT ![c] = w]
  BY <1>2, <1>3, <1>4, <1>11, AppendKeeps DEF envVars
<1>12. CASE GetToken
  <2>1. \/ AppendTarget(c, t, NoCreds) /\ UNCHANGED tried
        \/ step' = "validate" /\ UNCHANGED <<loopVars, outVars>>
    BY <1>12 DEF GetToken, t
  <2>2. CASE step' = "validate" /\ UNCHANGED <<loopVars, outVars>>
    <3>1. step = "secret"
      BY <1>12 DEF GetToken
    <3> QED BY <1>2, <1>4, <2>2, <3>1, ProceedKeeps DEF envVars, loopVars, Handling
  <2> QED BY <1>5, <1>10, <2>1, <2>2
<1>13. CASE ValidateCredentials
  <2>1. \/ ~(live[c].online /\ live[c].healthy) /\ UNCHANGED tried /\ AppendTarget(c, t, url)
        \/ tried' = [tried EXCEPT ![c] = Rejected] /\ AppendTarget(c, rejected, NoCreds)
        \/ url # "none" /\ tried' = [tried EXCEPT ![c] = url] /\ AppendTarget(c, t, url)
    BY <1>13 DEF ValidateCredentials, t, rejected
  <2> QED BY <1>6, <1>8, <1>9, <1>10, <1>11, <2>1
<1> QED BY <1>12, <1>13

\* The end of Reconcile.
LEMMA PublishKeeps == IInv /\ (Publish \/ PublishFails) => IInv'
<1> SUFFICES ASSUME IInv, Publish \/ PublishFails PROVE IInv'
  OBVIOUS
<1> USE DEF IInv, Publish, PublishFails, envVars, loopVars, outVars
<1>1. TypeOK'
  BY DEF TypeOK, Steps
<1>2. FreshInv' /\ ProbeInv' /\ LoopInv' /\ InputInv' /\ UrlInv'
  BY DEF FreshInv, ProbeInv, LoopInv, InputInv, UrlInv, DirectURL, Looping, Handling, Listed
<1>3. HealthyIsEarned' /\ HealthyCredentialsTried' /\ EmptyServerIsOffline'
  BY DEF HealthyIsEarned, HealthyCredentialsTried, EmptyServerIsOffline
<1> QED BY <1>1, <1>2, <1>3

\* The environment.
LEMMA ChangesKeep ==
  \A c \in Clusters : IInv /\ (ChangeMode(c) \/ AgentReports(c) \/ DisturbWork(c)) => IInv'
<1> SUFFICES ASSUME NEW c \in Clusters, IInv, ChangeMode(c) \/ AgentReports(c) \/ DisturbWork(c)
             PROVE  IInv'
  OBVIOUS
<1>1. TypeOK
  BY DEF IInv
<1>2. UNCHANGED <<facts, hub, step, loopVars, outVars>>
  BY DEF ChangeMode, AgentReports, DisturbWork
<1>3. changes' \in 0..MaxChanges
  BY <1>1 DEF TypeOK, ChangeMode, AgentReports, DisturbWork
<1>4. mode' \in [Clusters -> {"direct", "proxy"}]
  BY <1>1 DEF TypeOK, ChangeMode, AgentReports, DisturbWork
<1>5. work' \in [Clusters -> Works]
  BY <1>1 DEF TypeOK, ChangeMode, AgentReports, DisturbWork, Works
<1> QED BY <1>2, <1>3, <1>4, <1>5, EnvironmentKeeps

-----------------------------------------------------------------------------
\* Every step keeps the invariant.
LEMMA NextKeeps == IInv /\ [Next]_vars => IInv'
<1> SUFFICES ASSUME IInv, [Next]_vars PROVE IInv'
  OBVIOUS
<1>1. CASE UNCHANGED vars
  BY <1>1 DEF vars, envVars, loopVars, outVars, IInv, TypeOK, FreshInv, ProbeInv, LoopInv,
     InputInv, UrlInv, DirectURL, Listed, HealthyIsEarned, HealthyCredentialsTried, EmptyServerIsOffline
<1>2. CASE ReconcileStep
  BY <1>2, StartKeeps, BuildInputKeeps, ProbeKeeps, SkipKeeps, GetProxyConfigKeeps, ProxyKeeps,
     CredentialsKeep, PublishKeeps DEF ReconcileStep
<1> QED BY <1>1, <1>2, PublishKeeps, ProxyKeeps, ChangesKeep DEF Next

\* The inductive invariant of one discovery: the loops report each cluster
\* exactly when its turn comes, and what they report agrees with the facts, the
\* two looks at the proxy mode and the probes of the same discovery.
THEOREM Invariant == Spec => []IInv
  BY InitInv, NextKeeps, PTL DEF Spec

\* The variables of Reconcile and of its environment keep their types.
THEOREM TypeCorrect == Spec => []TypeOK
<1>1. IInv => TypeOK
  BY DEF IInv
<1> QED BY <1>1, Invariant, PTL

\* However many clusters lack configs, tokens or ManifestWorks and whatever
\* calls fail, the published list has an entry for every cluster listed, and
\* published credentials are for the URL shown.
THEOREM AllListed == Spec => []EveryClusterListed
<1>1. IInv => EveryClusterListed
  BY DEF IInv, LoopInv, Listed, EveryClusterListed, Looping
<1> QED BY <1>1, Invariant, PTL

\* Healthy is only reported of a cluster that ACM has available and that
\* answered its probe in this very discovery.
THEOREM HealthyEarned == Spec => []HealthyIsEarned
<1>1. IInv => HealthyIsEarned
  BY DEF IInv
<1> QED BY <1>1, Invariant, PTL

\* A cluster reported healthy with credentials has had those very credentials
\* validated in this discovery, and one whose credentials failed is neither
\* online nor in the Secret.
THEOREM CredentialsTried == Spec => []HealthyCredentialsTried
<1>1. IInv => HealthyCredentialsTried
  BY DEF IInv
<1> QED BY <1>1, Invariant, PTL

\* A kubeconfig without a server is published only after two different looks at
\* the mode, or for an offline cluster whose client config has no URL.
THEOREM EmptyServerOffline == Spec => []EmptyServerIsOffline
<1>1. IInv => EmptyServerIsOffline
  BY DEF IInv
<1> QED BY <1>1, Invariant, PTL

-----------------------------------------------------------------------------
\* What follows for a cluster whose mode stays as it is.

\* While cluster c is in proxy mode, neither a direct nor an empty URL is on its
\* way into its credentials, and nothing direct is reported or remembered.
ProxyOnly(c) ==
  /\ creds[c] \notin {"direct", "none"}
  /\ target[c].url # "direct" /\ input[c].url # "direct"
  /\ current = c => step # "secret" /\ (step = "validate" => url = "proxy")

\* Every step keeps this.
LEMMA ProxyOnlyKept ==
  ASSUME NEW c \in Clusters, IInv, ProxyOnly(c), mode[c] = "proxy", [Next]_vars
  PROVE  ProxyOnly(c)'
<1> USE DEF ProxyOnly
<1>1. TypeOK /\ c # NoCluster
  BY DEF IInv
<1>2. ASSUME NEW d \in Clusters, NEW t, NEW u, AppendTarget(d, t, u),
             d = c => t.url # "direct" /\ u \notin {"direct", "none"}
      PROVE  ProxyOnly(c)'
  BY <1>1, <1>2 DEF AppendTarget, TypeOK
<1>3. ASSUME NEW d \in Clusters, PrerequisiteFailed(d) PROVE ProxyOnly(c)'
  BY <1>2, <1>3 DEF PrerequisiteFailed, Target, NoCreds
<1>4. CASE UNCHANGED vars
  BY <1>4 DEF vars, loopVars, outVars
<1>5. CASE Start
  BY <1>1, <1>5 DEF Start, NoTarget, NoCreds
<1>6. ASSUME NEW d \in Clusters, BuildInput(d) PROVE ProxyOnly(c)'
  BY <1>1, <1>6 DEF BuildInput, outVars, TypeOK
<1>7. ASSUME NEW d \in Clusters, SkipWithoutConfigs(d) PROVE ProxyOnly(c)'
  BY <1>2, <1>7 DEF SkipWithoutConfigs, Target, NoCreds
<1>8. ASSUME NEW d \in Clusters, GetProxyConfig(d) PROVE ProxyOnly(c)'
  BY <1>8 DEF GetProxyConfig, outVars
<1>9. CASE Probe \/ Publish \/ PublishFails
  BY <1>9 DEF Probe, Publish, PublishFails, loopVars, outVars
<1>10. CASE EnsureManifestWork \/ CreateManifestWork \/ VerifyManifestWork \/ ResolveRoute \/ ProxyCallFails
  <2>1. current \in Clusters
    BY <1>10, CurrentInLoop
    DEF EnsureManifestWork, CreateManifestWork, VerifyManifestWork, ResolveRoute, ProxyCallFails, Handling
  <2>2. \/ PrerequisiteFailed(current)
        \/ /\ UNCHANGED <<current, input, outVars>>
           /\ step' \in {"create", "verify", "route"} \/ (step' = "validate" /\ url' = "proxy")
    BY <1>10
    DEF EnsureManifestWork, CreateManifestWork, VerifyManifestWork, ResolveRoute, ProxyCallFails, loopVars
  <2> QED BY <1>3, <2>1, <2>2 DEF outVars
<1>11. CASE GetToken
  <2>1. current \in Clusters /\ current # c
    BY <1>11, CurrentInLoop DEF GetToken, Handling
  <2>2. (UNCHANGED <<loopVars, outVars>>) \/ \E t, u : AppendTarget(current, t, u)
    BY <1>11 DEF GetToken
  <2> QED BY <1>2, <2>1, <2>2 DEF loopVars, outVars
<1>12. CASE ValidateCredentials
  <2>1. current \in Clusters /\ (current = c => url = "proxy")
    BY <1>12, CurrentInLoop DEF ValidateCredentials, Handling
  <2>2. \E online, status : \E u \in {url, NoCreds} : AppendTarget(current, Target(url, online, status), u)
    BY <1>12 DEF ValidateCredentials
  <2> QED BY <1>2, <2>1, <2>2 DEF Target, NoCreds
<1>13. ASSUME NEW d \in Clusters, ChangeMode(d) \/ AgentReports(d) \/ DisturbWork(d) PROVE ProxyOnly(c)'
  BY <1>13 DEF ChangeMode, AgentReports, DisturbWork, loopVars, outVars
<1> QED
  BY <1>4, <1>5, <1>6, <1>7, <1>8, <1>9, <1>10, <1>11, <1>12, <1>13 DEF Next, ReconcileStep

\* Fail fast, whatever else changes and fails: a cluster that stays in proxy
\* mode is never published with direct credentials, a direct URL or credentials
\* without a server.
THEOREM NeverFallsBack == Spec => NoFallback
<1>1. ASSUME NEW c \in Clusters
      PROVE  Spec => ([](mode[c] = "proxy") => [](creds[c] \notin {"direct", "none"} /\ target[c].url # "direct"))
  <2>1. Init => ProxyOnly(c)
    BY DEF Init, ProxyOnly, NoTarget, NoCreds, NoInput
  <2>2. IInv /\ ProxyOnly(c) /\ mode[c] = "proxy" /\ [Next]_vars => ProxyOnly(c)'
    BY ProxyOnlyKept
  <2>3. ProxyOnly(c) => creds[c] \notin {"direct", "none"} /\ target[c].url # "direct"
    BY DEF ProxyOnly
  <2> QED BY <2>1, <2>2, <2>3, Invariant, PTL DEF Spec
<1> QED BY <1>1 DEF NoFallback

\* Facts are given once and for all.
LEMMA FactsFixed == [Next]_vars => facts' = facts
  BY DEF Next, ReconcileStep, Start, BuildInput, SkipWithoutConfigs, GetProxyConfig, Probe,
     EnsureManifestWork, CreateManifestWork, VerifyManifestWork, ResolveRoute, GetToken,
     ValidateCredentials, Publish, PublishFails, ProxyCallFails, ChangeMode, AgentReports,
     DisturbWork, vars, envVars

\* While cluster c is in direct mode, it is served once its turn is over, and
\* its direct URL is on its way during its turn.
DirectServed(c) ==
  facts[c].configs = "ok" /\ facts[c].secret = "ok" =>
    /\ current = c => step \in {"secret", "validate"} /\ url = "direct"
    /\ step \in Looping /\ c \notin todo => Served(c)

\* Every step keeps this.
LEMMA DirectServedKept ==
  ASSUME NEW c \in Clusters, IInv, DirectServed(c), mode[c] = "direct", [Next]_vars
  PROVE  DirectServed(c)'
<1> SUFFICES ASSUME facts[c].configs = "ok", facts[c].secret = "ok",
                    current = c => step \in {"secret", "validate"} /\ url = "direct",
                    step \in Looping /\ c \notin todo => Served(c)
             PROVE  DirectServed(c)'
  BY FactsFixed DEF DirectServed
<1>1. TypeOK /\ c # NoCluster
  BY DEF IInv
<1> USE DEF DirectServed
<1>2. ASSUME NEW d \in Clusters, NEW t, NEW u, AppendTarget(d, t, u), step \in Looping,
             d # c => tried'[c] = tried[c],
             d = c => u = "direct" \/ (tried'[c] = Rejected /\ t = Target("direct", FALSE, "Unhealthy"))
      PROVE  DirectServed(c)'
  <2>1. d = c => Served(c)'
    BY <1>1, <1>2 DEF AppendTarget, Served, TypeOK, Target
  <2>2. d # c /\ Served(c) => Served(c)'
    BY <1>1, <1>2 DEF AppendTarget, Served, TypeOK, Target
  <2> QED BY <1>1, <1>2, <2>1, <2>2 DEF AppendTarget, Looping
<1>3. ASSUME NEW d \in Clusters, PrerequisiteFailed(d), step \in Looping, d # c PROVE DirectServed(c)'
  BY <1>2, <1>3 DEF PrerequisiteFailed
<1>4. ASSUME UNCHANGED outVars PROVE Served(c) => Served(c)'
  BY <1>4 DEF Served, outVars, Target
<1>5. CASE UNCHANGED vars
  BY <1>4, <1>5 DEF vars, loopVars
<1>6. CASE Start
  BY <1>1, <1>6 DEF Start, TypeOK, Looping, Handling
<1>7. ASSUME NEW d \in Clusters, BuildInput(d) PROVE DirectServed(c)'
  BY <1>7 DEF BuildInput, Looping, Handling
<1>8. CASE Probe
  BY <1>8 DEF Probe
<1>9. ASSUME NEW d \in Clusters, SkipWithoutConfigs(d) PROVE DirectServed(c)'
  BY <1>2, <1>9 DEF SkipWithoutConfigs, Looping
<1>10. ASSUME NEW d \in Clusters, GetProxyConfig(d) PROVE DirectServed(c)'
  <2>1. d = c => step' = "secret" /\ url' = "direct"
    BY <1>10 DEF GetProxyConfig, DirectURL
  <2> QED BY <1>4, <1>10, <2>1 DEF GetProxyConfig, Looping
<1>11. CASE EnsureManifestWork \/ CreateManifestWork \/ VerifyManifestWork \/ ResolveRoute \/ ProxyCallFails
  <2>1. step \in Handling /\ step \in Looping /\ step \notin {"secret", "validate"}
    BY <1>11
    DEF EnsureManifestWork, CreateManifestWork, VerifyManifestWork, ResolveRoute, ProxyCallFails,
        Handling, Looping
  <2>2. current \in Clusters /\ current # c
    BY <2>1, CurrentInLoop
  <2>3. PrerequisiteFailed(current) \/ UNCHANGED <<current, todo, outVars>>
    BY <1>11
    DEF EnsureManifestWork, CreateManifestWork, VerifyManifestWork, ResolveRoute, ProxyCallFails, loopVars
  <2> QED BY <1>3, <1>4, <2>1, <2>2, <2>3
<1>12. CASE GetToken \/ ValidateCredentials
  <2>1. step \in Handling /\ step \in Looping
    BY <1>12 DEF GetToken, ValidateCredentials, Handling, Looping
  <2>2. current \in Clusters
    BY <2>1, CurrentInLoop
  <2>3. CASE current # c /\ \E t, u : AppendTarget(current, t, u)
    <3>1. tried'[c] = tried[c]
      BY <1>1, <1>12, <2>3 DEF GetToken, ValidateCredentials, outVars, TypeOK
    <3> QED BY <1>2, <2>1, <2>2, <2>3, <3>1
  <2>4. CASE step' = "validate" /\ UNCHANGED <<loopVars, outVars>>
    BY <1>4, <2>1, <2>4 DEF loopVars
  <2>5. CASE current = c /\ GetToken
    BY <2>4, <2>5 DEF GetToken
  <2>6. CASE current = c /\ ValidateCredentials
    <3>1. url = "direct"
      BY <2>6
    <3>2. \/ /\ AppendTarget(c, Target(url, FALSE, "Unhealthy"), NoCreds)
             /\ tried' = [tried EXCEPT ![c] = Rejected]
          \/ \E t : AppendTarget(c, t, url)
      BY <2>6 DEF ValidateCredentials
    <3>3. tried' = [tried EXCEPT ![c] = Rejected] => tried'[c] = Rejected
      BY <1>1 DEF TypeOK
    <3> QED BY <1>2, <2>1, <3>1, <3>2, <3>3
  <2> QED BY <1>12, <2>3, <2>4, <2>5, <2>6 DEF GetToken, ValidateCredentials
<1>13. CASE Publish \/ PublishFails
  BY <1>4, <1>13 DEF Publish, PublishFails, loopVars, Looping, Handling
<1>14. ASSUME NEW d \in Clusters, ChangeMode(d) \/ AgentReports(d) \/ DisturbWork(d)
       PROVE  DirectServed(c)'
  BY <1>4, <1>14 DEF ChangeMode, AgentReports, DisturbWork, loopVars
<1> QED
  BY <1>5, <1>6, <1>7, <1>8, <1>9, <1>10, <1>11, <1>12, <1>13, <1>14 DEF Next, ReconcileStep

\* Whatever other clusters lack and whatever changes or fails for them, a
\* cluster that stays in direct mode and has its URL and its token gets its
\* credentials published, unless they were tried and rejected.
THEOREM GoodServed == Spec => GoodClusterServed
<1>1. ASSUME NEW c \in Clusters
      PROVE  Spec => ([](mode[c] = "direct") =>
               [](step = "published" /\ facts[c].configs = "ok" /\ facts[c].secret = "ok" => Served(c)))
  <2>1. Init => DirectServed(c)
    BY DEF Init, DirectServed, Looping, Handling
  <2>2. IInv /\ DirectServed(c) /\ mode[c] = "direct" /\ [Next]_vars => DirectServed(c)'
    BY DirectServedKept
  <2>3. IInv /\ DirectServed(c) =>
          (step = "published" /\ facts[c].configs = "ok" /\ facts[c].secret = "ok" => Served(c))
    BY DEF IInv, LoopInv, DirectServed, Looping
  <2> QED BY <2>1, <2>2, <2>3, Invariant, PTL DEF Spec
<1> QED BY <1>1 DEF GoodClusterServed
============================================================================
