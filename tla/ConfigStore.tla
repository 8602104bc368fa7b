---------------------------- MODULE ConfigStore ----------------------------
(***************************************************************************)
(* The config store of one operator process: who fills it, who reads it.   *)
(*                                                                         *)
(* The settings are in a ConfigMap.  When the process starts, the loader   *)
(* runnable of cmd/main.go copies it into the store and then sets the name *)
(* of the operator in the reconcilers, while the ConfigMap reconciler,     *)
(* which runs at the same time, copies every version it is told of.  Both  *)
(* read through the informer cache.  The provider config reconciler builds *)
(* a form from the store, in two loops over the clusters; what a user      *)
(* submits becomes a version of the ConfigMap.  Administrators edit the    *)
(* ConfigMap by hand, too.                                                 *)
(***************************************************************************)
EXTENDS ConfigSchema, Sequences

CONSTANTS
  Clusters,      \* the managed clusters
  Namespaces,    \* contents that a cluster's namespace may have
  HandEdits,     \* settings that an administrator may write
  DefaultName,   \* the name "krkn-operator-acm"
  EnvNames,      \* what OPERATOR_NAME may be
  MapNames,      \* what operator-name in krkn-operator-config may be
  MaxVersions,   \* bound: versions of the ConfigMap
  MaxChanges     \* bound: other changes by the environment, and failures

ASSUME StoreAssumption ==
  /\ Namespaces \subseteq Namespace /\ HandEdits \subseteq Settings
  /\ MaxVersions \in Nat /\ MaxChanges \in Nat

VARIABLES
  cm,        \* versions of the ConfigMap at the API server
  cmSeen,    \* the version in the informer cache
  ns,        \* the contents of each cluster's namespace
  env,       \* OPERATOR_NAME of the deployment, or Unset
  mapName,   \* operator-name in krkn-operator-config, or Unset
  loader,    \* where ConfigLoaderRunnable.Start is; "down": no process
  loaded,    \* its local acmConfigMap: the version
  newName,   \* its local config.OperatorName
  name,      \* OperatorName of the reconcilers
  queued,    \* the ConfigMap's key is in the workqueue
  syncing,   \* the ConfigMap reconciler's local cm: the version, or 0
  store,     \* the settings of each cluster in the store
  from,      \* the version the store was last copied from, 0 if none
  building,  \* where buildConfigSchema is
  todo,      \* the clusters its current loop has not reached
  form,      \* the fields built for each cluster
  choice,    \* the last submission
  changes    \* other changes and failures so far

serverVars == <<cm, ns, env, mapName>>
loadVars   == <<loader, loaded, newName, name>>
syncVars   == <<queued, syncing>>
storeVars  == <<store, from>>
formVars   == <<building, todo, form>>
vars == <<serverVars, cmSeen, loadVars, syncVars, storeVars, formVars, choice, changes>>

Version    == [exists : BOOLEAN, data : [Clusters -> Settings]]
NoForm     == [c \in Clusters |-> [secret |-> NoField, proxy |-> [default |-> "false", excludes |-> FALSE]]]
NoChoice   == [version |-> 0, secret |-> [c \in Clusters |-> Unset], proxy |-> [c \in Clusters |-> FALSE]]
Names      == {DefaultName} \cup ((EnvNames \cup MapNames) \ {Unset})

Latest == cm[Len(cm)]
Up     == loader # "down"
Change == changes < MaxChanges /\ changes' = changes + 1

\* operatorName in main: the placeholder of the reconcilers and the name under
\* which the provider is registered.
RegisteredName == IF env # Unset THEN env ELSE DefaultName

-----------------------------------------------------------------------------
\* The store.

\* The library's SyncConfigMapToStore: sets every key of the ConfigMap.  What
\* becomes of the keys that are not in it is the library's choice.
SyncConfigMapToStore(v) ==
  LET data == cm[v].data IN
  /\ \E keep \in BOOLEAN :
       store' = [c \in Clusters |->
         [secret |-> IF data[c].secret = Unset /\ keep THEN store[c].secret ELSE data[c].secret,
          proxy  |-> IF data[c].proxy = "unset" /\ keep THEN store[c].proxy ELSE data[c].proxy]]
  /\ from' = v

-----------------------------------------------------------------------------
\* ConfigLoaderRunnable.Start.

\* Mutant of GetOperatorConfig: krkn-operator-config before the environment.
GetOperatorConfigMapFirst ==
  /\ loader = "config"
  /\ newName' = IF mapName # Unset THEN mapName ELSE RegisteredName
  /\ loader' = "get"
  /\ UNCHANGED <<serverVars, cmSeen, loaded, name, syncVars, storeVars, formVars, choice, changes>>

\* getOperatorConfig: the environment before krkn-operator-config.
GetOperatorConfig ==
  /\ loader = "config"
  /\ newName' = IF env = Unset /\ mapName # Unset THEN mapName ELSE RegisteredName
  /\ loader' = "get"
  /\ UNCHANGED <<serverVars, cmSeen, loaded, name, syncVars, storeVars, formVars, choice, changes>>

\* Get of the ConfigMap; not found is not an error.
LoadConfigMap ==
  /\ loader = "get"
  /\ \/ cm[cmSeen].exists /\ loaded' = cmSeen /\ loader' = "sync"
     \/ ~cm[cmSeen].exists /\ UNCHANGED loaded /\ loader' = "names"
  /\ UNCHANGED <<serverVars, cmSeen, newName, name, syncVars, storeVars, formVars, choice, changes>>

\* The version read is copied into the store.
SyncAtStartup ==
  /\ loader = "sync"
  /\ SyncConfigMapToStore(loaded)
  /\ loader' = "names"
  /\ UNCHANGED <<serverVars, cmSeen, loaded, newName, name, syncVars, formVars, choice, changes>>

\* The reconcilers get their name; the runnable then waits for the end.
SetNames ==
  /\ loader = "names"
  /\ name' = newName
  /\ loader' = "done"
  /\ UNCHANGED <<serverVars, cmSeen, loaded, newName, syncVars, storeVars, formVars, choice, changes>>

\* The process ends: what it had in memory is gone.
Exit ==
  /\ loader' = "down" /\ loaded' = 0 /\ newName' = DefaultName /\ name' = DefaultName
  /\ queued' = FALSE /\ syncing' = 0
  /\ store' = [c \in Clusters |-> NoSettings] /\ from' = 0
  /\ building' = "no" /\ todo' = {} /\ form' = NoForm
  /\ UNCHANGED <<serverVars, cmSeen, choice>>

\* Mutant of LoaderFails: a failing Get is taken for a missing ConfigMap.
LoaderGoesOn ==
  /\ loader = "get"
  /\ Change
  /\ loader' = "names"
  /\ UNCHANGED <<serverVars, cmSeen, loaded, newName, name, syncVars, storeVars, formVars, choice>>

\* A call of the loader fails: Start returns the error and the manager stops.
LoaderFails ==
  /\ loader \in {"config", "get", "sync"}
  /\ Change
  /\ Exit

LoaderStep == GetOperatorConfig \/ LoadConfigMap \/ SyncAtStartup \/ SetNames

\* The process is killed.
Crash == Up /\ Change /\ Exit

\* main: an empty store, reconcilers with the placeholder name, caches listed.
Start ==
  /\ ~Up
  /\ loader' = "config"
  /\ name' = RegisteredName
  /\ cmSeen' = Len(cm)
  /\ queued' = Latest.exists
  /\ UNCHANGED <<serverVars, loaded, newName, syncing, storeVars, formVars, choice, changes>>

-----------------------------------------------------------------------------
\* The ConfigMap reconciler.

\* A watch event brings the next version into the cache and adds the key.
DeliverEvent ==
  /\ Up /\ cmSeen < Len(cm)
  /\ cmSeen' = cmSeen + 1
  /\ queued' = TRUE
  /\ UNCHANGED <<serverVars, loadVars, syncing, storeVars, formVars, choice, changes>>

\* The informer's resync, every 10 hours, replays the cached ConfigMap.
Resync ==
  /\ loader = "done" /\ ~queued /\ syncing = 0
  /\ cmSeen = Len(cm) /\ Latest.exists
  /\ queued' = TRUE
  /\ UNCHANGED <<serverVars, cmSeen, loadVars, syncing, storeVars, formVars, choice, changes>>

\* Mutants of ReadConfigMap: a missing ConfigMap empties the store, or only the
\* first version is read.
ReadClearing ==
  /\ Up /\ queued /\ syncing = 0
  /\ queued' = FALSE
  /\ \/ cm[cmSeen].exists /\ syncing' = cmSeen /\ UNCHANGED storeVars
     \/ /\ ~cm[cmSeen].exists /\ UNCHANGED syncing
        /\ store' = [c \in Clusters |-> NoSettings] /\ from' = cmSeen
  /\ UNCHANGED <<serverVars, cmSeen, loadVars, formVars, choice, changes>>
ReadOnce ==
  /\ Up /\ queued /\ syncing = 0 /\ from = 0
  /\ queued' = FALSE
  /\ IF cm[cmSeen].exists THEN syncing' = cmSeen ELSE UNCHANGED syncing
  /\ UNCHANGED <<serverVars, cmSeen, loadVars, storeVars, formVars, choice, changes>>

\* Reconcile: r.Get of the ConfigMap; without it the store is left alone.
ReadConfigMap ==
  /\ Up /\ queued /\ syncing = 0
  /\ queued' = FALSE
  /\ IF cm[cmSeen].exists THEN syncing' = cmSeen ELSE UNCHANGED syncing
  /\ UNCHANGED <<serverVars, cmSeen, loadVars, storeVars, formVars, choice, changes>>

\* Reconcile: the version read is copied into the store.
SyncConfigMap ==
  /\ Up /\ syncing # 0
  /\ SyncConfigMapToStore(syncing)
  /\ syncing' = 0
  /\ UNCHANGED <<serverVars, cmSeen, loadVars, queued, formVars, choice, changes>>

\* Get or the copy fails; the error adds the key again.
ReconcileFails ==
  /\ Up /\ (queued \/ syncing # 0)
  /\ Change
  /\ queued' = TRUE /\ syncing' = 0
  /\ UNCHANGED <<serverVars, cmSeen, loadVars, storeVars, formVars, choice>>

ReconcileStep == ReadConfigMap \/ SyncConfigMap

-----------------------------------------------------------------------------
\* buildConfigSchema, in a Reconcile of a provider config.

BeginSchema ==
  /\ Up /\ building \in {"no", "shown"}
  /\ building' = "secrets"
  /\ todo' = Clusters
  /\ form' = NoForm
  /\ UNCHANGED <<serverVars, cmSeen, loadVars, syncVars, storeVars, choice, changes>>

\* First loop: the Secret field of one cluster; when its namespace cannot be
\* listed, the cluster is skipped.
AddSecretField(c) ==
  /\ building = "secrets" /\ c \in todo
  /\ todo' = todo \ {c}
  /\ \/ form' = [form EXCEPT ![c].secret = SecretFieldOf(store[c], ns[c])] /\ UNCHANGED changes
     \/ UNCHANGED form /\ Change
  /\ UNCHANGED <<serverVars, cmSeen, loadVars, syncVars, storeVars, building, choice>>

\* Second loop: the proxy toggle of one cluster, whether it was skipped or not.
BeginProxyFields ==
  /\ building = "secrets" /\ todo = {}
  /\ building' = "proxies" /\ todo' = Clusters
  /\ UNCHANGED <<serverVars, cmSeen, loadVars, syncVars, storeVars, form, choice, changes>>

AddProxyField(c) ==
  /\ building = "proxies" /\ c \in todo
  /\ todo' = todo \ {c}
  /\ form' = [form EXCEPT ![c].proxy = ProxyFieldOf(store[c], form[c].secret)]
  /\ UNCHANGED <<serverVars, cmSeen, loadVars, syncVars, storeVars, building, choice, changes>>

\* The fields are serialised and published.
ShowForm ==
  /\ building = "proxies" /\ todo = {}
  /\ building' = "shown"
  /\ UNCHANGED <<serverVars, cmSeen, loadVars, syncVars, storeVars, todo, form, choice, changes>>

-----------------------------------------------------------------------------
\* The environment.

NewVersion(v) == Len(cm) < MaxVersions /\ v # Latest /\ cm' = Append(cm, v)

\* A user picks a value for every field of the form that is shown and not
\* excluded; krkn-operator stores them in the ConfigMap.
Submit ==
  /\ building = "shown"
  /\ \E secret \in [Clusters -> SecretNames \cup {Unset}], proxy \in [Clusters -> BOOLEAN] :
       /\ \A c \in Clusters :
            IF form[c].secret = NoField \/ (proxy[c] /\ form[c].proxy.excludes)
              THEN secret[c] = Unset ELSE secret[c] \in form[c].secret.options
       /\ NewVersion([exists |-> TRUE, data |-> [c \in Clusters |->
            [secret |-> IF secret[c] = Unset THEN Latest.data[c].secret ELSE secret[c],
             proxy  |-> IF proxy[c] THEN "true" ELSE "false"]]])
       /\ choice' = [version |-> Len(cm'), secret |-> secret, proxy |-> proxy]
  /\ building' = "no" /\ form' = NoForm
  /\ UNCHANGED <<ns, env, mapName, cmSeen, loadVars, syncVars, storeVars, todo, changes>>

\* An administrator edits a cluster's settings, or deletes the ConfigMap.
EditByHand(c) ==
  /\ \E s \in HandEdits : NewVersion([exists |-> TRUE, data |-> [Latest.data EXCEPT ![c] = s]])
  /\ UNCHANGED <<ns, env, mapName, cmSeen, loadVars, syncVars, storeVars, formVars, choice, changes>>

DeleteConfigMap ==
  /\ NewVersion([exists |-> FALSE, data |-> [c \in Clusters |-> NoSettings]])
  /\ UNCHANGED <<ns, env, mapName, cmSeen, loadVars, syncVars, storeVars, formVars, choice, changes>>

\* Secrets come and go in a cluster's namespace.
ChangeNamespace(c) ==
  /\ Change
  /\ \E n \in Namespaces \ {ns[c]} : ns' = [ns EXCEPT ![c] = n]
  /\ UNCHANGED <<cm, env, mapName, cmSeen, loadVars, syncVars, storeVars, formVars, choice>>

Init ==
  /\ \E s \in HandEdits :
       cm \in {<<[exists |-> FALSE, data |-> [c \in Clusters |-> NoSettings]]>>,
               <<[exists |-> TRUE, data |-> [c \in Clusters |-> s]]>>}
  /\ cmSeen = 1
  /\ ns \in [Clusters -> Namespaces]
  /\ env \in EnvNames /\ mapName \in MapNames
  /\ loader = "down" /\ loaded = 0 /\ newName = DefaultName /\ name = DefaultName
  /\ queued = FALSE /\ syncing = 0
  /\ store = [c \in Clusters |-> NoSettings] /\ from = 0
  /\ building = "no" /\ todo = {} /\ form = NoForm
  /\ choice = NoChoice
  /\ changes = 0

Next ==
  \/ LoaderStep \/ LoaderFails \/ Crash \/ Start
  \/ DeliverEvent \/ Resync \/ ReconcileStep \/ ReconcileFails
  \/ BeginSchema \/ BeginProxyFields \/ ShowForm \/ Submit \/ DeleteConfigMap
  \/ \E c \in Clusters : AddSecretField(c) \/ AddProxyField(c) \/ EditByHand(c) \/ ChangeNamespace(c)

Spec == Init /\ [][Next]_vars

\* Goroutines, watches, the kubelet and the resync timer make progress.
Fairness ==
  /\ WF_vars(LoaderStep) /\ WF_vars(ReconcileStep)
  /\ WF_vars(DeliverEvent) /\ WF_vars(Start)
  /\ WF_vars(Resync)

FairSpec == Spec /\ Fairness

-----------------------------------------------------------------------------
\* Properties.

\* Every variable has its type; copies name versions that exist.
TypeOK ==
  /\ cm \in Seq(Version) /\ cm # << >> /\ cmSeen \in 1..Len(cm)
  /\ ns \in [Clusters -> Namespace]
  /\ env \in EnvNames /\ mapName \in MapNames
  /\ loader \in {"down", "config", "get", "sync", "names", "done"}
  /\ loaded \in 0..Len(cm) /\ newName \in Names /\ name \in Names
  /\ queued \in BOOLEAN /\ syncing \in 0..Len(cm)
  /\ store \in [Clusters -> Settings] /\ from \in 0..Len(cm)
  /\ building \in {"no", "secrets", "proxies", "shown"} /\ todo \subseteq Clusters
  /\ form \in [Clusters -> [secret : SecretField, proxy : ProxyField]]
  /\ choice.version \in 0..Len(cm)
  /\ choice.secret \in [Clusters -> SecretNames \cup {Unset}]
  /\ choice.proxy \in [Clusters -> BOOLEAN]
  /\ changes \in Nat

\* The store has every key of the latest ConfigMap.
InStep ==
  /\ Latest.exists
  /\ \A c \in Clusters :
       /\ Latest.data[c].secret \in {Unset, store[c].secret}
       /\ Latest.data[c].proxy \in {"unset", store[c].proxy}

\* Once the loader is done, the store has been filled, unless the ConfigMap was
\* really missing at some time: no failing call leaves the operator running
\* with defaults instead of its settings.
LoadedAtBoot == loader = "done" /\ from = 0 => \E v \in 1..Len(cm) : ~cm[v].exists

\* A running process only ever puts an existing version into the store, so a
\* deleted ConfigMap leaves the settings as they were.  And whenever it puts an
\* older version over a newer one, it is the loader, before it is done, or the
\* reconciler, whose key is then queued for the newer version already.
StoreAdvances ==
  [][Up' /\ storeVars' # storeVars =>
       /\ cm[from'].exists
       /\ from' < from => loader = "sync" \/ queued]_vars

\* Every field offers its default, and a toggle excludes a Secret field exactly
\* when the form has it, although the two are built in different loops.
FormConsistent ==
  \A c \in Clusters :
    /\ form[c].secret # NoField => form[c].secret.default \in form[c].secret.options
    /\ building = "shown" => (form[c].proxy.excludes <=> form[c].secret.options # {})

\* What a user submits is what discovery uses and what the next form shows, as
\* soon as the store has the submitted version.
ChoiceSticks ==
  choice.version = Len(cm) /\ InStep =>
    \A c \in Clusters :
      /\ IsProxyModeEnabled(store[c]) = choice.proxy[c]
      /\ GetDefaultProxyMode(store[c]) = IF choice.proxy[c] THEN "true" ELSE "false"
      /\ choice.secret[c] # Unset =>
           /\ GetConfiguredSecretName(store[c]) = choice.secret[c]
           /\ LET secrets == ListSecretsInNamespace(ns[c]) IN
              choice.secret[c] \in secrets => GetDefaultSecret(store[c], secrets) = choice.secret[c]

\* Whatever the loader and the reconciler did to each other at startup, the
\* store gets in step with a ConfigMap that no longer changes, and stays so.
EventuallyInStep == <>[]Latest.exists => <>[]InStep

-----------------------------------------------------------------------------
\* What the documentation says and the code does not guarantee.

\* The operator contributes under the name it has registered.  This holds when
\* the name is in the environment, and fails when krkn-operator-config sets it.
NameIsRegistered == loader = "done" => name = RegisteredName

\* The default of a proxy toggle is the mode in effect when it is built.
ShownIsUsed ==
  [][\A c \in Clusters : AddProxyField(c) =>
       (form'[c].proxy.default = "true" <=> IsProxyModeEnabled(store[c]))]_vars
============================================================================
