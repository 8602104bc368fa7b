# A TLA+ model of krkn-operator-acm

krkn-operator-acm is a Kubernetes operator that answers *target requests*: a
`KrknTargetRequest` asks which clusters an ACM hub manages and how to reach them.
Several operators of the Krkn family may serve the same request, each adding its
own clusters. A second resource, `KrknOperatorTargetProviderConfig`, collects from
every operator a form for its settings; what a user submits is kept in a ConfigMap
that the operator copies into its config store and discovery reads. This directory
models both protocols, the discovery inside one operator and the way of the
settings, checks the models with TLC and proves the central results with TLAPS.

## The system

| Component | State | Operations | Interacts with |
|---|---|---|---|
| `KrknTargetRequest` reconciler, protocol (`krkntargetrequest_controller.go`, `provider_helpers.go`) | the request's label, `status.status`, `status.targetData[operator]`; the Secret named after the UUID, with `managed-clusters` per operator | initialise, check provider, contribute, complete, clean up | other operators through the API server, informer caches, workqueue |
| Discovery of clusters and credentials (same file, `proxy_helpers.go`) | probe inputs, targets and credentials of one Reconcile; a ManifestWork per proxied cluster | probe input, proxy prerequisites, token, validation | config store, OCM agent, proxy service, cluster APIs |
| Probe pool (`probeManagedClusters`, `cluster_liveness.go`) | channel, WaitGroup, results slice | send, probe three endpoints, store, wait | cluster APIs |
| `KrknOperatorTargetProviderConfig` reconciler | the config's status and `configData[operator]` | initialise, build schema, contribute, complete, clean up | other operators, config store, krkn-operator library |
| ConfigMap reconciler, config store | key/value store shared by all reconcilers of the process | copy the ConfigMap into the store | discovery, schema |
| Startup (`cmd/main.go`) | operator name and namespace in the reconcilers | load configuration, register, heartbeat | everything above |
| Provider registry (krkn-operator library) | `KrknOperatorTargetProvider.spec.active` | register, deactivate | both reconcilers |

What is hard to get right, and to test, in this code:

- **Concurrency between operators.** Request and Secret are shared; reads come
  from caches that lag, writes are optimistic. Reconcile holds its copy of the
  request over seconds of network probes.
- **Partial failure.** Secret and status are two writes; a crash, a conflict or an
  API error may come between them. Reconcile then starts over.
- **Triggers.** Only events on the request cause a Reconcile. Changes of the
  registry, the Secret, ManifestWorks or the config store do not.
- **Values read twice.** The proxy mode and the ManifestWork are each read twice
  within one Reconcile; a provider config is read three times and its status is
  looked at once.
- **Startup.** The loader fills the config store and renames the reconcilers while
  these are already running.
- **Goroutines** that share a slice by index.

The properties that make each part correct are listed with the runs below, the
places where they could break under `hazards` in `PROJECT.json`.

## Modules

| Module | Models |
|---|---|
| `RequestLifecycle` | abstract specification: what all operators together promise about one request |
| `TargetRequest` | the protocol: several operators, caches, API server, crashes |
| `TargetRequestProofs` | its proofs |
| `ProbePool`, `ProbePoolProofs` | the probe pool, and its proofs |
| `ClusterDiscovery`, `ClusterDiscoveryProofs` | discovery in one Reconcile, the detail of `TargetRequest!Discover`, and its proofs |
| `ConfigLifecycle` | abstract specification: what all operators together promise about one provider config |
| `ProviderConfig`, `ProviderConfigProofs`, `ProviderConfigBoundProofs` | the protocol of provider configs, its proofs, and the proof of the bound on its versions |
| `ConfigSchema` | pure operators: fields and defaults of the form, and what discovery reads from the same settings |
| `ConfigStore`, `ConfigStoreProofs` | startup loader, ConfigMap reconciler, store, construction of the form, the detail of `ProviderConfig!BuildConfigSchema`; uses `ConfigSchema`; and its proofs |
| `MC…` | instances for TLC |

A definition whose comment says "Mutant of X" is a plausible mistake in the code
that `X` models; replacing `X` by it makes the property named in
`PROJECT.json` fail. Mutants take no part in the specifications.

### TargetRequest

`request` is the sequence of all versions of the request at the API server, so
that a cached or a local copy (`reqSeen`, `got`) is an index into it; a write
(`Accepted`) succeeds when the local copy is the last version. The registry of
active providers is kept the same way. Of the Secret only the last version is
kept; copies are `fresh`, `stale` or `missing`, because a write from a stale copy
is rejected whatever it contains. `pc[o]` is the next API call of operator `o`'s
Reconcile: `Begin` (Get and the checks on the status), `AddLabel`, `InitStatus`,
`CheckProviderActive`, then either `CompleteIfAll` (already contributed) or
`Discover`, `GetSecret`, `UpdateSecret` / `CreateSecret` / `RegetSecret` +
`OverwriteSecret`, `UpdateStatus`, and `Cleanup`. Everything between two calls is
local and part of the preceding step. `ApiError` lets any call fail, `Crash` ends
the process anywhere, `Restart` lists the caches anew.

`SyncRequest` delivers versions one by one and adds the key. Informers may skip
versions; a Reconcile that starts only after several deliveries covers that.
`LateAdd` is a second run for a version already seen: an event handler runs after
the cache was updated, and a requeue may come after the event. `Resync` is the
10-hour replay of the informer. `CleanupElsewhere` is the cleanup at the end of
the Reconcile of some other request: the controller has one worker, so it happens
when this request is not being reconciled.

A *snapshot* stands for the result of one discovery, credentials and targets
together; two snapshots are enough to tell an older discovery from a newer one.
The empty status is written `"unset"`.

### ProbePool

The caller sends the indices over an unbuffered channel, so `Send(w)` is a
rendezvous with a worker that is receiving. Each worker goes through `/readyz`,
`/livez` and `/healthz`; the reply to each is fixed in `answers` (no response,
404/405, another failure, 2xx). A call with no inputs returns at once and is not
modelled.

### ClusterDiscovery

Facts about a cluster (no client config, or a first one without or with a URL; token
Secret; ACM condition) and the hub (proxy route, service CA, own token) are chosen at
the start. The proxy mode and
the ManifestWork change while Reconcile runs. URLs are `direct`, `proxy` or `none`
(the empty string). A ManifestWork is `absent`, `created` (no conditions),
`progressing` (conditions, not both Applied and Available) or `ready`. A
credential check, made only after a healthy probe, succeeds or fails, and fails when
there is no server address; the history variable `tried`, which no action reads,
records its outcome in this discovery.
The specification ends with the publication: from then on
`status.targetData[operator]` exists and Reconcile takes the branch of
`TargetRequest!CompleteIfAll`, which does no discovery.

`NoFallback` and `GoodClusterServed` are about a cluster whose own mode stays as it
is while anything else may change or fail; they are temporal formulas because the
mode is an input that only a whole behaviour can be said to keep.

### ProviderConfig

Versions, caches, workqueue, faults and restarts are as in `TargetRequest`. The
steps of Reconcile are `Begin`, `AddLabel`, `InitStatus`, `CheckProviderActive`,
`BuildConfigSchema`, `GetFreshConfig`, `UpdateProviderConfig` (the library's write
of this operator's entry), `GetUpdatedConfig`, `UpdateStatus` and `Cleanup`. There
is no "already contributed": every Reconcile of a pending config writes its entry
and the status again. The API server makes no new version, and hence no event, of
a write that changes nothing (`Put`); without that the operators would wake each
other for ever. `done` counts how often `status.completed` was set, because a
second completion of a completed config differs from it by the time only.

`current[o]` is the schema the operator would build now; `ChangeClusters` changes
it. Two things the model shows that are not errors: a contribution may be refreshed
after the config has been completed, and `status.completed` may be rewritten, by
operators whose Reconcile was under way or started from an older cache; `NoChatter`
bounds both. And a rejected write need not be retried for the config to be
completed: the version that caused the conflict is itself an event.

### ConfigSchema and ConfigStore

The two keys of a cluster, `ACM_SECRET_<CLUSTER>` and `ACM_USE_PROXY_<CLUSTER>`,
are a record of settings. Secrets are numbers in alphabetical order, of which one
is `application-manager`. A proxy value is one of the classes the code tells apart;
`"loose"` is a spelling of true that only the form understands (`True`, a blank at
the end).

`cm` is the sequence of versions of the ConfigMap. The loader's steps are
`GetOperatorConfig`, `LoadConfigMap`, `SyncAtStartup` and `SetNames`; the
reconciler's are `ReadConfigMap` and `SyncConfigMap`. They interleave, as the code
lets them: the manager starts controllers and runnables together. The library's
`SyncConfigMapToStore` sets every key of the ConfigMap; whether it removes others is
not visible in this repository, so the model allows both, and the properties hold
either way. `BeginSchema`, `AddSecretField`, `BeginProxyFields`, `AddProxyField` and
`ShowForm` build the form, in the two loops of the code; the store may change between
any two clusters of either. `Submit` is the
user and krkn-operator: a value for every field that is shown and not excluded.

## Runs that pass

| Run | Bounds | Shows |
|---|---|---|
| `request_safety` | 2 operators, 2 snapshots, 1 fault, late keys | `TypeOK`; `LifecycleSpec` (refinement: no lost or repeated contribution, status moves forward only); `PublishesWhatItStored`; `CompletedCoversActive`, which holds while the registry is fixed |
| `request_registry` | 2 operators, 2 registry changes, resyncs, Secret of an earlier release | `CompletedJustified`, `OnlyOverwriteLosesEntries` |
| `request_live` | 2 operators, 1 fault, request may grow old, no resync | `EventuallyCompleted`, for good, by events and retries alone; `SecretCollected` |
| `probe_pool` | 3 clusters, 2 workers, one answer of each kind | `TypeOK`, `OneProbePerCluster`, `ResultsInOrder`, `NoWriteAfterReturn`, `Returns`, no deadlock |
| `discovery` | 2 clusters (usable, without token, without client configs, with a client config without a URL), proxy installed or not, 1 change | `TypeOK`, `EveryClusterListed`, `HealthyIsEarned`; `HealthyCredentialsTried`: what is published as healthy with credentials has had those very credentials validated; `EmptyServerIsOffline`: a kubeconfig without a server takes two looks at the mode that differ, or a client config without a URL, and is offline then; `NoFallback`, `GoodClusterServed`, `Publishes` |
| `provider_config` | 2 operators, 1 or both active, 2 schemas, late keys, 1 change: of a schema, of the registry, an hour, a crash or a failed call | `TypeOK`; `LifecycleSpec` (refinement); `CompletedJustified`; `NoChatter`; `EventuallyCompleted` |
| `config_store` | 1 cluster, 3 Secrets, 3 versions of the ConfigMap, 1 failing call, crash or changed namespace; name from the environment | `TypeOK`, `LoadedAtBoot`, `NameIsRegistered`, `FormConsistent`, `ChoiceSticks`, `StoreAdvances`, `EventuallyInStep` |

Two operators are enough for every race on the request and the Secret that the
properties speak of: each is between one writer and one other; the proofs remove
the bound for the safety properties. One fault is enough to separate the two
writes. The safety properties of `ProviderConfig` also hold with two changes (10.8
million states), those of `ConfigStore` with two clusters and two versions. Three
versions of the ConfigMap let a submission follow a hand edit, and the loader put
an older version over a newer one. One cluster is enough there because each
cluster's keys and fields are handled on their own. Operators are interchangeable, hence the
symmetry in the safety runs of the protocol; it is not used for liveness. Deadlock is not checked
for requests and discovery, which really end; the pool marks its end with
`Finished`, and there it is checked.

**Fairness.** Weak fairness of each operator's Reconcile, of the delivery of watch
events and of restarts: a goroutine that can run does, a watch that breaks is
re-established, a pod is restarted. `Resync` is fair too, as a timer is; no
liveness run of the target request enables it, and `ProviderConfig` relies on it only
after the registry has changed (`Len(registry) > 1`), so that without such a
change events and retries must do. `ConfigStore` relies on it: when the loader puts
an older version over a newer one, nothing else repairs the store
(`EventuallyInStep`), up to ten hours later. Failures, registry changes, ageing and changes of mode are never
forced. In the pool a probe ends because of the 2 s timeout. In discovery the OCM
agent reports eventually.

## Runs that find a disagreement

Each of these checks one statement of a comment, a message or a document, and TLC
finds a behaviour of the code against it. The quotations are in `PROJECT.json`.

| Run | What happens |
|---|---|
| `request_lost_credentials` | Two operators find no Secret. The second gets AlreadyExists, re-reads the Secret and replaces its data by its own: the first operator's credentials are gone while its targets are published. |
| `request_early_completion` | Three operators; `a` contributes, becomes inactive; `b` contributes and counts 2 contributors against 2 active providers: completed without `c`. |
| `request_blocked` | `b` becomes inactive after `a` has contributed; no event re-evaluates the request. Only the 10-hour resync or a restart would. |
| `startup_name` | `OPERATOR_NAME` is not set, `krkn-operator-config` has `operator-name`: the loader renames the reconcilers, the provider is registered under the default. From then on `checkProviderActive` finds no provider of that name and the operator skips every request. |
| `config_form` | The ConfigMap says `True` or has a blank after the value: the form shows proxy mode on, discovery connects directly. |

More disagreements were met while modelling and have no run of their own:

- a Reconcile from a cache without the operator's own status write stores a second
  snapshot in the Secret before its status write is rejected, while the comment at
  `krkntargetrequest_controller.go:207` says to "keep its snapshot stable";
- when `ensureManifestWork` has just created the ManifestWork, the second look
  accepts any condition (`proxy_helpers.go:484`), so proxy mode may be enabled before
  it is Available, while line 451 says "only AFTER verifying all prerequisites";
- proxy mode switched off between its two reads, for a cluster without client
  configs, publishes credentials without a server address, online if the API
  answered its probe (line 399: "Do not advertise a target whose generated
  credentials cannot access the API"). `EmptyServerIsOffline` and
  `NoFallback` show that an online target without a server takes such a switch;
- a first client config whose URL is empty is used as it is (line 257): the cluster
  is probed as offline, and its kubeconfig without a server is published in the
  Secret unvalidated, without any switch;
- `DEPLOYMENT.md:358` says "a cluster can be `healthy` according to ACM while its API
  endpoint is offline"; the code (`clusterHealthStatusAfterLiveness`) reports such a
  cluster as unknown, as `DEPLOYMENT.md:361` says and `HealthyIsEarned` checks;
- `specs.orig/MIGRATION.md:99` says of `krkn-operator-config` "The operator will fail to
  start without it"; `getOperatorConfig` uses the environment and defaults then
  (`GetOperatorConfig`);
- `specs.orig/MIGRATION.md:393` says that an old Secret reads as "Empty (new
  structure)"; the code moves its entries under the default operator name
  (`krkntargetrequest_controller.go:762`, `AllOperatorData`);
- between the start of the controllers and the end of the loader a Reconcile may
  read an empty store and use defaults;
- the form of a cluster named `group` uses the variables of the two group fields;
- the cleanup (`krkntargetrequest_controller.go:489`) deletes pending requests by
  age, while `constants.go:75` speaks of "old completed" ones;
- a cluster in direct mode without a token keeps `online: true` when its probe
  succeeded, while the message logged says "marking cluster offline" (line 355);
- a cluster skipped because its ManifestWork is not ready is not looked at again
  for the same request, since the operator has then contributed (line 210), while
  the error says it "will be retried in next reconcile" (`proxy_helpers.go:488`).

## Proofs

`TargetRequestProofs` holds for every value of the
constants that satisfies the named assumptions of `TargetRequest` (`None` is not
a snapshot, the bounds are naturals, operators are finitely many).

- `TypeCorrect`: `Spec => []TypeOK`. A version once written is never changed
  (`RequestGrows`, `RegistryGrows`, `HistoriesGrow`), so indices stay valid.
- `Invariant`: `TypeOK` is not enough to show that a step is a lifecycle step: one
  must know what the copy says that Reconcile is about to write back. `Local(o)`
  states it per step: an operator about to initialise holds an unset version, one
  about to contribute a pending version without its own entry, and so on. Since
  versions do not change, nobody else's step can falsify it (`LocalKept`).
- `ImplementsLifecycle`: `Spec => LifecycleSpec`. An accepted write is based on the
  last version, so what the operator knows of its copy is true of the request
  (`AcceptedKnowsLatest`), and each accepted write is a lifecycle step.
- `CompletionJustified`: the list of providers used contains the operator itself, so
  it is not empty, and the count was made on the version written.
- `StoredBeforeStatus`, `PublishedIsStored`: between its Secret write and its status
  write an operator's snapshot is in the Secret, or another operator's entry is
  there instead.
- `MergeKeepsEntries`: by cases on the writers of the Secret.
- `FixedRegistryCovers`: as long as the registry has its first version only, in
  which every operator is active, a completed request has a contribution of every
  active provider. Being justified then means to have as many contributors as
  there are operators, and the contributors are operators (`AllContributed`). The
  run `request_early_completion` refutes the same property when the registry changes.

`ProbePoolProofs`: `PoolTypes`, `ResultsCorrect`, `SingleWriter` and `NoLateWrite` for any
number of clusters and workers. The invariant says that every index sent is being
probed by exactly one worker or has its result (`ResultInv`), and that a worker at
its k-th endpoint has found the earlier ones missing (`ProbeInv`).

`ProviderConfigProofs`, from the assumptions of `ProviderConfig` (`None` is no
schema, operators are finitely many, initial values are well typed):

- `TypeCorrect` as above. `ConfigWriters` reduces every step to the five kinds of
  writes there are, `Writes(o, v)`, and the later proofs go by these.
- `Invariant`: besides what each Reconcile knows of its copies it needs `MonoInv`, that
  a config once accepted stays so in all later versions: Reconcile looks at the
  status of its first copy only and writes later ones, which it read from a cache
  that has only moved forward (`SeenKept`).
- `ImplementsLifecycle`: `Spec => LifecycleSpec`; completion has a contributor because
  the count is positive (`CountedContributors`).
- `CompletionJustified`: a completed version was counted, or refreshes an entry of one
  that was, and refreshing loses no contributor.

`ProviderConfigBoundProofs`: `NoEndlessWrites`, `Spec => []NoChatter`. Every version
makes all operators reconcile, and a Reconcile of a pending config always writes,
so that the versions are finitely many is not obvious. The argument is one of
potential, in two parts:

- `DoneInv`: after the first completion, whoever completes the config again has read
  its copy from a cache that has a completion already (`CopyInv`, `FinalInv`), and so
  has seen it and will not start again: it joins `Spent`, which never shrinks
  (`SpentGrows`). So there are at most one completion more than operators.
- `PaidInv`: the versions written and those owed are at most those paid for. An
  operator owes a version if it has built a schema that is not published
  (`Unpublished`) or if the last one it built or published is not current
  (`Outdated`). Building moves a debt from the second set to the first, publishing
  pays it, failing moves it back, a change of the clusters adds one; the other
  versions are the label, the acceptance, the deletion and the completions.

`ClusterDiscoveryProofs`, from the assumptions of `ClusterDiscovery` (clusters are
finitely many, `NoCluster` is none of them, the facts are well typed):

- `Invariant` gives `TypeCorrect`, `AllListed`, `HealthyEarned`, `CredentialsTried` and
  `EmptyServerOffline`. It
  says where the loop is (`LoopInv`: clusters to come have no entry, no credentials and
  no history, those done have an entry that agrees with their credentials), that
  an empty URL was not probed (`ProbeInv`), that a cluster first found in direct mode
  was probed at its client config's URL (`InputInv`), and how an empty URL may be on
  its way into a kubeconfig (`UrlInv`). The actions that end a cluster's turn all
  append an entry; `AppendKeeps` proves them together, for an entry that is `Sound`
  given the outcome of the validation.
- `NeverFallsBack`, `GoodServed`: for one cluster whose mode stays, a second invariant
  about that cluster only (`ProxyOnly`, `DirectServed`), kept by every step from a
  state to a state with the mode unchanged, whatever the step does to the others.

`ConfigStoreProofs`, from the assumptions of `ConfigSchema` and `ConfigStore` (Secrets
are numbers and settings and namespaces are well typed):

- `Invariant`: what the loader knows of the ConfigMap (`LoaderInv`), the name on its way
  to the reconcilers (`NameInv`), that nobody copies a version the cache does not have
  and that a reconciler that copies an older one has its key queued (`SyncInv`), that
  the toggles built so far agree with the Secret fields (`FormInv`), and that the last version says what was submitted (`ChoiceInv`).
- `SettingsLoaded`, `FormsConsistent`, `ChoicesStick` and `StoreOnlyAdvances` follow. The
  default of a Secret field is one of its options because any set of Secrets has a
  first one; this uses that the naturals are well-founded.
- `NameRegistered`: `NameIsRegistered` whenever the environment sets the name or
  `krkn-operator-config` does not, for any names; the remaining case is the one that
  the run `startup_name` refutes.

The invariants of these last three modules were checked with TLC before they were
proved: with two changes for provider configs, three for discovery (one cluster with all facts), and two
clusters for the store.

With this, every invariant and every action property of the passing runs is proved.
Only model-checked: the liveness properties (`EventuallyCompleted` of both protocols,
`SecretCollected`, `Returns`, `Publishes`, `EventuallyInStep`), which are out of the
prover's reach because they rest on fairness; and the counterexamples.

## Not modelled

The text of kubeconfigs, URLs and log messages; TLS details; RBAC; metrics and
webhook servers; manifests and release scripts; two requests with the same UUID;
two operators configured with the same name; the formatting of variable names
(one-to-one on names of clusters, up to the name `group`); descriptions and JSON of
the form's fields. The krkn-operator library (registration,
heartbeat, `CleanupOldResources`, `UpdateProviderConfig`) is modelled by its effect
where it is used.

## Plan

1. Done: both protocols with their abstract specifications, the probe pool, discovery,
   the config store with startup and form; proofs of all their safety properties.
2. Composition: `ClusterDiscovery` under the store of `ConfigStore`, and as an
   implementation of the discovery step of `TargetRequest`; cleanup with several
   requests.
3. Proofs: for `TargetRequest`, when a published contribution keeps its credentials
   (`PublishedHasCredentials` is refuted only by the overwrite after AlreadyExists), and
   a bound on its versions like the one of provider configs.
