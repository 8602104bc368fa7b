--------------------------- MODULE ProviderConfig ---------------------------
(***************************************************************************)
(* One KrknOperatorTargetProviderConfig served by several operators that   *)
(* run the reconciler of krknoperatortargetproviderconfig_controller.go.   *)
(*                                                                         *)
(* As in TargetRequest the API server keeps the versions of the config and *)
(* of the registry of active providers, every operator reads them through  *)
(* a cache that lags, and a write is accepted only when it is based on the *)
(* last version.  A write that changes nothing makes no new version, hence *)
(* no event.                                                               *)
(*                                                                         *)
(* One Reconcile reads the config three times: config, freshConfig for the *)
(* write of its own schema by the library, and updatedConfig for the count *)
(* and the second write.  Its status is only looked at in the first copy.  *)
(*                                                                         *)
(* current[o] is the schema that operator o would build now: it changes    *)
(* with the managed clusters, their Secrets and the config store.          *)
(***************************************************************************)
EXTENDS Naturals, Sequences, FiniteSets

CONSTANTS
  Operators,        \* the operators, by their OperatorName
  Schemas,          \* what buildConfigSchema may return
  None,             \* no schema
  InitialSchemas,   \* what each operator may build at first
  InitialActive,    \* the sets of providers that may be active at first
  MaxChanges,       \* bound: changes by the environment, crashes, failed calls
  LateAdds          \* whether keys are also added late

ASSUME NoneAssumption == None \notin Schemas
ASSUME OperatorsAssumption == IsFiniteSet(Operators)
ASSUME InitialAssumption ==
  InitialSchemas \subseteq [Operators -> Schemas] /\ InitialActive \subseteq SUBSET Operators
ASSUME BoundsAssumption == MaxChanges \in Nat /\ LateAdds \in BOOLEAN

VARIABLES
  config,    \* versions of the config at the API server
  seen,      \* the version in each operator's cache
  registry,  \* versions of the set of active providers
  regSeen,   \* the version in each operator's cache
  queued,    \* the config's key is in the operator's workqueue
  pc,        \* the next API call of the operator's Reconcile
  got,       \* Reconcile's last copy of the config: its version
  listed,    \* Reconcile's local providerList: its version
  built,     \* Reconcile's local jsonSchema
  current,   \* the schema each operator would build now
  old,       \* Status.Created is more than CleanupThresholdSeconds ago
  changes    \* changes by the environment, crashes and failed calls so far

serverVars == <<config, registry>>
cacheVars  == <<seen, regSeen>>
localVars  == <<pc, got, listed, built>>
envVars    == <<current, old, changes>>
vars == <<serverVars, cacheVars, queued, localVars, envVars>>

Entries  == Schemas \cup {None}
Statuses == {"unset", "pending", "Completed", "deleted"}
Steps    == {"down", "idle", "label", "init", "providers", "build", "fetch",
             "contribute", "refetch", "status", "cleanup"}

\* A version of the config: status.status ("unset" stands for the empty
\* string), whether the UUID label is set, status.configData, and how often
\* status.completed has been set.
Version == [status : Statuses, label : BOOLEAN, data : [Operators -> Entries], done : Nat]

Latest  == config[Len(config)]
Deleted == Latest.status = "deleted"
Active  == registry[Len(registry)]
Contributors(v) == {o \in Operators : v.data[o] # None}

\* Mutant of ShouldMarkAsCompleted: any contributor will do.
ShouldMarkAny(active, contributors) == active > 0 /\ contributors > 0

\* The number of active providers against the number of contributors.
ShouldMarkAsCompleted(active, contributors) ==
  active > 0 /\ contributors >= active

-----------------------------------------------------------------------------
\* Returns of Reconcile.  An error or RequeueAfter adds the key again.

ClearLocals(o) ==
  /\ got'    = [got    EXCEPT ![o] = 0]
  /\ listed' = [listed EXCEPT ![o] = 0]
  /\ built'  = [built  EXCEPT ![o] = None]

Goto(o, step) == pc' = [pc EXCEPT ![o] = step]

Return(o)  == Goto(o, "idle") /\ ClearLocals(o) /\ UNCHANGED queued
Requeue(o) == Goto(o, "idle") /\ ClearLocals(o) /\ queued' = [queued EXCEPT ![o] = TRUE]

\* A write is accepted when the local copy is the last version.
Accepted(o) == got[o] = Len(config) /\ ~Deleted

\* The API server stores v as the next version, unless it changes nothing.
Put(v) == config' = IF v = Latest THEN config ELSE Append(config, v)

\* One of the changes that the bound allows.
Change == changes < MaxChanges /\ changes' = changes + 1

-----------------------------------------------------------------------------
\* The steps of Reconcile.

\* Mutant of Begin: a completed config is processed like a pending one.
BeginCompleted(o) ==
  /\ pc[o] = "idle" /\ queued[o]
  /\ queued' = [queued EXCEPT ![o] = FALSE]
  /\ LET i == seen[o] IN
     \/ /\ i = 0 \/ config[i].status = "deleted"
        /\ UNCHANGED <<pc, got>>
     \/ /\ i > 0 /\ config[i].status # "deleted"
        /\ Goto(o, IF config[i].status # "unset" THEN "providers"
                   ELSE IF config[i].label THEN "init" ELSE "label")
        /\ got' = [got EXCEPT ![o] = i]
  /\ UNCHANGED <<serverVars, cacheVars, listed, built, envVars>>

\* r.Get of config and the checks on its status.
Begin(o) ==
  /\ pc[o] = "idle" /\ queued[o]
  /\ queued' = [queued EXCEPT ![o] = FALSE]
  /\ LET i == seen[o] IN
     \/ /\ i = 0 \/ config[i].status \in {"deleted", "Completed"}
        /\ UNCHANGED <<pc, got>>
     \/ /\ i > 0 /\ config[i].status = "unset"
        /\ Goto(o, IF config[i].label THEN "init" ELSE "label")
        /\ got' = [got EXCEPT ![o] = i]
     \/ /\ i > 0 /\ config[i].status = "pending"
        /\ Goto(o, "providers")
        /\ got' = [got EXCEPT ![o] = i]
  /\ UNCHANGED <<serverVars, cacheVars, listed, built, envVars>>

\* r.Update that adds the UUID label.
AddLabel(o) ==
  /\ pc[o] = "label"
  /\ \/ /\ Accepted(o)
        /\ Put([Latest EXCEPT !.label = TRUE])
        /\ got' = [got EXCEPT ![o] = Len(config')]
        /\ Goto(o, "init")
        /\ UNCHANGED <<queued, listed, built>>
     \/ /\ ~Accepted(o)
        /\ Requeue(o)
        /\ UNCHANGED config
  /\ UNCHANGED <<registry, cacheVars, envVars>>

\* Status().Update that sets the status to pending and Status.Created.
InitStatus(o) ==
  /\ pc[o] = "init"
  /\ \/ /\ Accepted(o)
        /\ Put([config[got[o]] EXCEPT !.status = "pending"])
        /\ Return(o)
     \/ /\ ~Accepted(o)
        /\ Requeue(o)
        /\ UNCHANGED config
  /\ UNCHANGED <<registry, cacheVars, envVars>>

\* checkProviderActive.
CheckProviderActive(o) ==
  /\ pc[o] = "providers"
  /\ \/ /\ o \notin registry[regSeen[o]]
        /\ Return(o)
     \/ /\ o \in registry[regSeen[o]]
        /\ listed' = [listed EXCEPT ![o] = regSeen[o]]
        /\ Goto(o, "build")
        /\ UNCHANGED <<queued, got, built>>
  /\ UNCHANGED <<serverVars, cacheVars, envVars>>

\* buildConfigSchema, whose detail is in ConfigStore.
BuildConfigSchema(o) ==
  /\ pc[o] = "build"
  /\ built' = [built EXCEPT ![o] = current[o]]
  /\ Goto(o, "fetch")
  /\ UNCHANGED <<serverVars, cacheVars, queued, got, listed, envVars>>

\* r.Get from the cache into freshConfig or updatedConfig; a config that is
\* gone is an error.
Fetch(o, step, next) ==
  /\ pc[o] = step
  /\ \/ /\ config[seen[o]].status = "deleted"
        /\ Requeue(o)
     \/ /\ config[seen[o]].status # "deleted"
        /\ got' = [got EXCEPT ![o] = seen[o]]
        /\ Goto(o, next)
        /\ UNCHANGED <<queued, listed, built>>
  /\ UNCHANGED <<serverVars, cacheVars, envVars>>

GetFreshConfig(o)   == Fetch(o, "fetch", "contribute")
GetUpdatedConfig(o) == Fetch(o, "refetch", "status")

\* Mutant of UpdateProviderConfig: ConfigData is replaced by this operator's
\* entry alone.
UpdateProviderConfigAlone(o) ==
  /\ pc[o] = "contribute"
  /\ \/ /\ Accepted(o)
        /\ Put([config[got[o]] EXCEPT !.data = [p \in Operators |-> IF p = o THEN built[o] ELSE None]])
        /\ Goto(o, "refetch")
        /\ UNCHANGED <<queued, got, listed, built>>
     \/ /\ ~Accepted(o)
        /\ Requeue(o)
        /\ UNCHANGED config
  /\ UNCHANGED <<registry, cacheVars, envVars>>

\* The library's UpdateProviderConfig: a status update of freshConfig with
\* this operator's entry.
UpdateProviderConfig(o) ==
  /\ pc[o] = "contribute"
  /\ \/ /\ Accepted(o)
        /\ Put([config[got[o]] EXCEPT !.data[o] = built[o]])
        /\ Goto(o, "refetch")
        /\ UNCHANGED <<queued, got, listed, built>>
     \/ /\ ~Accepted(o)
        /\ Requeue(o)
        /\ UNCHANGED config
  /\ UNCHANGED <<registry, cacheVars, envVars>>

\* Mutant of Evaluated: the status is misspelt.
EvaluatedMisspelt(o, v) == [v EXCEPT !.status = "completed"]

\* updatedConfig as it is written: completed, at the current time, if its
\* contributors are as many as the active providers listed earlier.
Evaluated(o, v) ==
  IF ShouldMarkAsCompleted(Cardinality(registry[listed[o]]), Cardinality(Contributors(v)))
    THEN [status |-> "Completed", label |-> v.label, data |-> v.data, done |-> v.done + 1]
    ELSE v

\* Status().Update of updatedConfig.
UpdateStatus(o) ==
  /\ pc[o] = "status"
  /\ \/ /\ Accepted(o)
        /\ Put(Evaluated(o, config[got[o]]))
        /\ Goto(o, "cleanup")
        /\ UNCHANGED <<queued, got, listed, built>>
     \/ /\ ~Accepted(o)
        /\ Requeue(o)
        /\ UNCHANGED config
  /\ UNCHANGED <<registry, cacheVars, envVars>>

\* CleanupOldResources deletes the config if the cache lists it with an old
\* Status.Created.
DeleteIfOld(o) ==
  IF old /\ seen[o] > 0 /\ config[seen[o]].status \notin {"unset", "deleted"} /\ ~Deleted
    THEN Put([Latest EXCEPT !.status = "deleted"])
    ELSE UNCHANGED config

\* The cleanup at the end of Reconcile; its errors are only logged.
Cleanup(o) ==
  /\ pc[o] = "cleanup"
  /\ DeleteIfOld(o)
  /\ Return(o)
  /\ UNCHANGED <<registry, cacheVars, envVars>>

\* The same call at the end of this operator's Reconcile of another config.
CleanupElsewhere(o) ==
  /\ pc[o] = "idle" /\ old
  /\ DeleteIfOld(o)
  /\ UNCHANGED <<registry, cacheVars, queued, localVars, envVars>>

\* Mutant of ApiError: the error is logged and not returned.
ApiErrorSwallowed(o) ==
  /\ pc[o] \notin {"down", "idle", "cleanup"}
  /\ Change
  /\ Return(o)
  /\ UNCHANGED <<serverVars, cacheVars, current, old>>

\* A call fails and Reconcile returns the error.
ApiError(o) ==
  /\ pc[o] \notin {"down", "idle", "cleanup"}
  /\ Change
  /\ Requeue(o)
  /\ UNCHANGED <<serverVars, cacheVars, current, old>>

ReconcileStep(o) ==
  \/ Begin(o) \/ AddLabel(o) \/ InitStatus(o) \/ CheckProviderActive(o)
  \/ BuildConfigSchema(o) \/ GetFreshConfig(o) \/ UpdateProviderConfig(o)
  \/ GetUpdatedConfig(o) \/ UpdateStatus(o) \/ Cleanup(o)

-----------------------------------------------------------------------------
\* Informers and workqueue (controller-runtime).

\* A watch event brings the next version into the cache and adds the key.
SyncConfig(o) ==
  /\ pc[o] # "down"
  /\ seen[o] < Len(config)
  /\ seen' = [seen EXCEPT ![o] = @ + 1]
  /\ queued' = [queued EXCEPT ![o] = TRUE]
  /\ UNCHANGED <<serverVars, regSeen, localVars, envVars>>

\* The providers are cached too, but trigger no Reconcile.
SyncRegistry(o) ==
  /\ pc[o] # "down"
  /\ regSeen[o] < Len(registry)
  /\ regSeen' = [regSeen EXCEPT ![o] = @ + 1]
  /\ UNCHANGED <<serverVars, seen, queued, localVars, envVars>>

\* The key is added once more for a version Reconcile may have read already.
LateAdd(o) ==
  /\ LateAdds
  /\ pc[o] # "down" /\ ~queued[o]
  /\ seen[o] > 0 /\ config[seen[o]].status # "deleted"
  /\ queued' = [queued EXCEPT ![o] = TRUE]
  /\ UNCHANGED <<serverVars, cacheVars, localVars, envVars>>

\* The resync of the informer, every 10 hours, replays the cached object: by
\* then the operator has long been idle and its caches are current.
Resync(o) ==
  /\ pc[o] = "idle" /\ ~queued[o]
  /\ seen[o] = Len(config) /\ regSeen[o] = Len(registry) /\ ~Deleted
  /\ queued' = [queued EXCEPT ![o] = TRUE]
  /\ UNCHANGED <<serverVars, cacheVars, localVars, envVars>>

-----------------------------------------------------------------------------
\* The environment.

\* A provider is registered, set active or inactive.
SetActive(o) ==
  /\ Change
  /\ registry' = Append(registry, IF o \in Active THEN Active \ {o} ELSE Active \cup {o})
  /\ UNCHANGED <<config, cacheVars, queued, localVars, current, old>>

\* The clusters, Secrets or settings behind an operator's schema change.
ChangeClusters(o) ==
  /\ Change
  /\ \E s \in Schemas \ {current[o]} : current' = [current EXCEPT ![o] = s]
  /\ UNCHANGED <<serverVars, cacheVars, queued, localVars, old>>

\* An operator's process ends between two API calls.
Crash(o) ==
  /\ pc[o] # "down"
  /\ Change
  /\ Goto(o, "down") /\ ClearLocals(o)
  /\ queued' = [queued EXCEPT ![o] = FALSE]
  /\ UNCHANGED <<serverVars, cacheVars, current, old>>

\* It starts again with caches listed anew.
Restart(o) ==
  /\ pc[o] = "down"
  /\ Goto(o, "idle")
  /\ seen' = [seen EXCEPT ![o] = Len(config)]
  /\ regSeen' = [regSeen EXCEPT ![o] = Len(registry)]
  /\ queued' = [queued EXCEPT ![o] = ~Deleted]
  /\ UNCHANGED <<serverVars, got, listed, built, envVars>>

\* An hour has passed since Status.Created.
GrowOld ==
  /\ ~old /\ Latest.status # "unset"
  /\ Change
  /\ old' = TRUE
  /\ UNCHANGED <<serverVars, cacheVars, queued, localVars, current>>

Init ==
  /\ \E label \in BOOLEAN :
       config = <<[status |-> "unset", label |-> label,
                   data |-> [o \in Operators |-> None], done |-> 0]>>
  /\ \E active \in InitialActive : registry = <<active>>
  /\ current \in InitialSchemas
  /\ seen = [o \in Operators |-> 0]
  /\ regSeen = [o \in Operators |-> 1]
  /\ queued = [o \in Operators |-> FALSE]
  /\ pc = [o \in Operators |-> "idle"]
  /\ got = [o \in Operators |-> 0]
  /\ listed = [o \in Operators |-> 0]
  /\ built = [o \in Operators |-> None]
  /\ old = FALSE
  /\ changes = 0

Next ==
  \/ \E o \in Operators :
       \/ ReconcileStep(o) \/ CleanupElsewhere(o) \/ ApiError(o)
       \/ SyncConfig(o) \/ SyncRegistry(o) \/ LateAdd(o) \/ Resync(o)
       \/ SetActive(o) \/ ChangeClusters(o) \/ Crash(o) \/ Restart(o)
  \/ GrowOld

Spec == Init /\ [][Next]_vars

\* Goroutines, watches and the kubelet make progress; nothing forces faults,
\* changes or the passing of an hour.  The resync timer is relied on only when
\* the registry has changed: otherwise events and retries must do.
Fairness ==
  \A o \in Operators :
    /\ WF_vars(ReconcileStep(o))
    /\ WF_vars(SyncConfig(o))
    /\ WF_vars(SyncRegistry(o))
    /\ WF_vars(Len(registry) > 1 /\ Resync(o))
    /\ WF_vars(Restart(o))

FairSpec == Spec /\ Fairness

-----------------------------------------------------------------------------
\* Properties.

\* Every variable has its type; caches and local copies name versions that
\* exist.
TypeOK ==
  /\ config \in Seq(Version) /\ config # << >>
  /\ registry \in Seq(SUBSET Operators) /\ registry # << >>
  /\ seen \in [Operators -> 0..Len(config)]
  /\ regSeen \in [Operators -> 1..Len(registry)]
  /\ queued \in [Operators -> BOOLEAN]
  /\ pc \in [Operators -> Steps]
  /\ got \in [Operators -> 0..Len(config)]
  /\ listed \in [Operators -> 0..Len(registry)]
  /\ built \in [Operators -> Entries]
  /\ current \in [Operators -> Schemas]
  /\ old \in BOOLEAN
  /\ changes \in Nat

\* The versions of the config are a behaviour of ConfigLifecycle, although
\* Reconcile writes it twice from copies whose status it does not look at: no
\* entry of another operator is lost and no completed config pending again.
Lifecycle == INSTANCE ConfigLifecycle WITH status <- Latest.status, data <- Latest.data
LifecycleSpec == Lifecycle!CSpec

\* A version is only marked Completed when its contributors are at least as
\* many as the active providers of some version of the registry that had any,
\* although the count is taken on a copy re-read from the cache.
CompletedJustified ==
  \A i \in 1..Len(config) : config[i].status = "Completed" =>
    \E j \in 1..Len(registry) :
      /\ registry[j] # {}
      /\ Cardinality(Contributors(config[i])) >= Cardinality(registry[j])

\* Reconciles of a pending config always write, and every write is an event
\* for all operators; yet they do not keep each other busy.  The versions are
\* at most the initial one, label, pending and deleted, one per schema an
\* operator had to publish, and the completions: one from a pending version,
\* and one per operator whose Reconcile was under way or started from a cache
\* that did not have the first.
NoChatter ==
  /\ Latest.done <= 1 + Cardinality(Operators)
  /\ Len(config) <= 5 + 2 * Cardinality(Operators) + changes

\* Once the registry no longer changes and has an active provider, the config
\* is completed, unless it is deleted first: by events and retries alone if the
\* registry never changed, by the resync if a provider it waited for became
\* inactive or one became active only after its Reconcile.
EventuallyCompleted ==
  <>[](Active # {}) => <>(Latest.status \in {"Completed", "deleted"})
============================================================================
