--------------------------- MODULE TargetRequest ---------------------------
(***************************************************************************)
(* One KrknTargetRequest served by several operators that all run the      *)
(* reconciler of internal/controller/krkntargetrequest_controller.go.      *)
(*                                                                         *)
(* The API server keeps three objects: the request, the Secret named after *)
(* its UUID and the registry of KrknOperatorTargetProviders.  Every        *)
(* operator reads them through its own informer cache, which lags, and     *)
(* writes them through the API server, which rejects an update that is not *)
(* based on the latest resource version.  Each API call of Reconcile is a  *)
(* step of its own, so the steps of several operators interleave.          *)
(*                                                                         *)
(*   - request and registry are the sequences of their versions; a cache   *)
(*     is an index into them (0: nothing delivered yet).                   *)
(*   - of the Secret only the latest version is kept.  A cached version is *)
(*     "fresh" (the latest), "stale" (an older one, or one since deleted)  *)
(*     or "missing".  The contents of a stale version never matter, since  *)
(*     every write based on it is rejected.                                *)
(*   - a snapshot stands for what one discovery of the managed clusters    *)
(*     yields: the credentials for the Secret together with the target     *)
(*     list for the status.                                                *)
(***************************************************************************)
EXTENDS Naturals, Sequences, FiniteSets

CONSTANTS
  Operators,        \* the operators, by their OperatorName
  DefaultOperator,  \* the name "krkn-operator-acm"
  Snapshots,        \* what a discovery may find
  None,             \* no snapshot
  InitialLegacy,    \* what an earlier release may have left in the Secret
  MaxRegistry,      \* bound: versions of the provider registry
  MaxFaults,        \* bound: crashes and failing API calls
  LateAdds,         \* whether keys are also added late
  Resyncs,          \* whether 10 hours may pass
  Ages              \* whether the request may get older than an hour

ASSUME NoneAssumption == None \notin Snapshots
ASSUME OperatorsAssumption == IsFiniteSet(Operators)
ASSUME LegacyAssumption == InitialLegacy \subseteq Snapshots \cup {None}
ASSUME BoundsAssumption ==
  MaxRegistry \in Nat /\ MaxFaults \in Nat
  /\ LateAdds \in BOOLEAN /\ Resyncs \in BOOLEAN /\ Ages \in BOOLEAN

VARIABLES
  request,   \* versions of the KrknTargetRequest at the API server
  reqSeen,   \* the version in each operator's cache
  secret,    \* the Secret at the API server
  secSeen,   \* what each operator's cache holds of it
  registry,  \* versions of the set of active providers
  regSeen,   \* the version in each operator's cache
  queued,    \* the request's key is in the operator's workqueue
  pc,        \* the next API call of the operator's Reconcile
  got,       \* Reconcile's local copy krknRequest: its version
  gotSec,    \* Reconcile's local copy existingSecret
  listed,    \* Reconcile's local providerList: its version
  found,     \* Reconcile's local clustersData and targetData
  old,       \* the request is older than CleanupThresholdSeconds
  faults     \* crashes and failed API calls so far

serverVars == <<request, secret, registry>>
cacheVars  == <<reqSeen, secSeen, regSeen>>
localVars  == <<pc, got, gotSec, listed, found>>
envVars    == <<old, faults>>
vars == <<serverVars, cacheVars, queued, localVars, envVars>>

Names    == Operators \cup {DefaultOperator}
Entries  == Snapshots \cup {None}
NoData   == [n \in Names |-> None]
Views    == {"missing", "stale", "fresh"}
Statuses == {"unset", "pending", "Completed", "deleted"}
Steps    == {"down", "idle", "label", "init", "providers", "contributed",
             "discover", "getSecret", "updateSecret", "createSecret",
             "regetSecret", "overwriteSecret", "status", "cleanup"}

\* A version of the request: status.status ("unset" stands for the empty
\* string), whether the UUID label is set, and status.targetData, None where an
\* operator has no entry.  A history ends with status "deleted", if it ends.
Version == [status : Statuses, label : BOOLEAN, data : [Operators -> Entries]]

\* The Secret: whether it exists, whether it has the owner reference that
\* makes it go away with the request, its per-operator data, and the
\* contents of one still in the single-operator format of earlier releases.
Secret == [exists : BOOLEAN, owned : BOOLEAN,
           data : [Names -> Entries], legacy : Entries]

NoSecret == [exists |-> FALSE, owned |-> FALSE, data |-> NoData, legacy |-> None]

Latest      == request[Len(request)]
Deleted     == Latest.status = "deleted"
Active      == registry[Len(registry)]
Contributors(v) == {o \in Operators : v.data[o] # None}

\* Mutants of ShouldMarkAsCompleted: an off-by-one, and any contributor.
ShouldMarkOneEarly(active, contributors) == active > 0 /\ contributors + 1 >= active
ShouldMarkAny(active, contributors) == active > 0 /\ contributors > 0

\* The number of active providers against the number of contributors.
ShouldMarkAsCompleted(active, contributors) ==
  active > 0 /\ contributors >= active

\* json.Unmarshal of the Secret, with the migration of the old format.
AllOperatorData(s) ==
  IF s.legacy # None THEN [NoData EXCEPT ![DefaultOperator] = s.legacy]
  ELSE s.data

-----------------------------------------------------------------------------
\* Returns of Reconcile.  An error or RequeueAfter adds the key again.

ClearLocals(o) ==
  /\ got'    = [got    EXCEPT ![o] = 0]
  /\ gotSec' = [gotSec EXCEPT ![o] = "missing"]
  /\ listed' = [listed EXCEPT ![o] = 0]
  /\ found'  = [found  EXCEPT ![o] = None]

Goto(o, step) == pc' = [pc EXCEPT ![o] = step]

Return(o)  == Goto(o, "idle") /\ ClearLocals(o) /\ UNCHANGED queued
Requeue(o) == Goto(o, "idle") /\ ClearLocals(o) /\ queued' = [queued EXCEPT ![o] = TRUE]

\* A write of the request: accepted when the local copy is the latest version.
Accepted(o) == got[o] = Len(request) /\ ~Deleted

\* A write of the Secret makes every copy of the version it replaces stale; a
\* write that changes nothing does not produce a new version.
Outdated(view) == [p \in Operators |-> IF view[p] = "fresh" THEN "stale" ELSE view[p]]

PutSecret(s) ==
  /\ secret' = s
  /\ secSeen' = IF s = secret THEN secSeen ELSE Outdated(secSeen)

OutdateCopies(o, s) ==
  gotSec' = [(IF s = secret THEN gotSec ELSE Outdated(gotSec)) EXCEPT ![o] = "missing"]

-----------------------------------------------------------------------------
\* The steps of Reconcile.

\* r.Get of the request and the checks on its status.
Begin(o) ==
  /\ pc[o] = "idle" /\ queued[o]
  /\ queued' = [queued EXCEPT ![o] = FALSE]
  /\ LET seen == reqSeen[o] IN
     \/ /\ seen = 0 \/ request[seen].status \in {"deleted", "Completed"}
        /\ UNCHANGED <<pc, got>>
     \/ /\ seen > 0 /\ request[seen].status = "unset"
        /\ Goto(o, IF request[seen].label THEN "init" ELSE "label")
        /\ got' = [got EXCEPT ![o] = seen]
     \/ /\ seen > 0 /\ request[seen].status = "pending"
        /\ Goto(o, "providers")
        /\ got' = [got EXCEPT ![o] = seen]
  /\ UNCHANGED <<serverVars, cacheVars, gotSec, listed, found, envVars>>

\* r.Update that adds the UUID label.
AddLabel(o) ==
  /\ pc[o] = "label"
  /\ \/ /\ Accepted(o)
        /\ request' = Append(request, [Latest EXCEPT !.label = TRUE])
        /\ got' = [got EXCEPT ![o] = Len(request')]
        /\ Goto(o, "init")
        /\ UNCHANGED <<queued, gotSec, listed, found>>
     \/ /\ ~Accepted(o)
        /\ Requeue(o)
        /\ UNCHANGED request
  /\ UNCHANGED <<secret, registry, cacheVars, envVars>>

\* Status().Update that sets the status to pending.
InitStatus(o) ==
  /\ pc[o] = "init"
  /\ \/ /\ Accepted(o)
        /\ request' = Append(request, [Latest EXCEPT !.status = "pending"])
        /\ Return(o)
     \/ /\ ~Accepted(o)
        /\ Requeue(o)
        /\ UNCHANGED request
  /\ UNCHANGED <<secret, registry, cacheVars, envVars>>

\* Mutant of CheckProviderActive: the operator's earlier contribution is ignored.
CheckAndContributeAgain(o) ==
  /\ pc[o] = "providers"
  /\ \/ o \notin registry[regSeen[o]] /\ Return(o)
     \/ /\ o \in registry[regSeen[o]]
        /\ listed' = [listed EXCEPT ![o] = regSeen[o]]
        /\ Goto(o, "discover")
        /\ UNCHANGED <<queued, got, gotSec, found>>
  /\ UNCHANGED <<serverVars, cacheVars, envVars>>

\* List of the providers in checkProviderActive, then whether this operator
\* has already contributed.
CheckProviderActive(o) ==
  /\ pc[o] = "providers"
  /\ \/ /\ o \notin registry[regSeen[o]]
        /\ Return(o)
     \/ /\ o \in registry[regSeen[o]]
        /\ listed' = [listed EXCEPT ![o] = regSeen[o]]
        /\ Goto(o, IF request[got[o]].data[o] # None THEN "contributed" ELSE "discover")
        /\ UNCHANGED <<queued, got, gotSec, found>>
  /\ UNCHANGED <<serverVars, cacheVars, envVars>>

\* This operator has contributed: complete the request if nobody is missing.
CompleteIfAll(o) ==
  /\ pc[o] = "contributed"
  /\ LET all == ShouldMarkAsCompleted(Cardinality(registry[listed[o]]),
                                      Cardinality(Contributors(request[got[o]]))) IN
     \/ /\ ~all
        /\ Goto(o, "cleanup")
        /\ UNCHANGED <<request, queued, got, gotSec, listed, found>>
     \/ /\ all /\ Accepted(o)
        /\ request' = Append(request, [Latest EXCEPT !.status = "Completed"])
        /\ Goto(o, "cleanup")
        /\ UNCHANGED <<queued, got, gotSec, listed, found>>
     \/ /\ all /\ ~Accepted(o)
        /\ Requeue(o)
        /\ UNCHANGED request
  /\ UNCHANGED <<secret, registry, cacheVars, envVars>>

\* getManagedClusters, the probes and the credentials of every cluster.
Discover(o) ==
  /\ pc[o] = "discover"
  /\ \E s \in Snapshots : found' = [found EXCEPT ![o] = s]
  /\ Goto(o, "getSecret")
  /\ UNCHANGED <<serverVars, cacheVars, queued, got, gotSec, listed, envVars>>

\* createManagedClustersSecret: r.Get of the Secret.
GetSecret(o) ==
  /\ pc[o] = "getSecret"
  /\ gotSec' = [gotSec EXCEPT ![o] = secSeen[o]]
  /\ Goto(o, IF secSeen[o] = "missing" THEN "createSecret" ELSE "updateSecret")
  /\ UNCHANGED <<serverVars, cacheVars, queued, got, listed, found, envVars>>

\* Mutant of SecretWith: no owner reference.
SecretUnowned(o, d) ==
  [exists |-> TRUE, owned |-> FALSE, data |-> [d EXCEPT ![o] = found[o]], legacy |-> None]

\* The Secret written with this operator's entry merged into data d.
SecretWith(o, d) ==
  [exists |-> TRUE, owned |-> TRUE, data |-> [d EXCEPT ![o] = found[o]], legacy |-> None]

\* Mutant of UpdateSecret: the existing data is not merged.
UpdateUnmerged(o) ==
  /\ pc[o] = "updateSecret" /\ gotSec[o] = "fresh"
  /\ LET s == SecretWith(o, NoData) IN PutSecret(s) /\ OutdateCopies(o, s)
  /\ Goto(o, "status")
  /\ UNCHANGED <<request, registry, reqSeen, regSeen, queued, got, listed, found, envVars>>

\* r.Update of the Secret that Get returned, merged.
UpdateSecret(o) ==
  /\ pc[o] = "updateSecret"
  /\ \/ /\ gotSec[o] = "fresh"
        /\ LET s == SecretWith(o, AllOperatorData(secret)) IN
             PutSecret(s) /\ OutdateCopies(o, s)
        /\ Goto(o, "status")
        /\ UNCHANGED <<queued, got, listed, found>>
     \/ /\ gotSec[o] # "fresh"
        /\ Requeue(o)
        /\ UNCHANGED <<secret, secSeen>>
  /\ UNCHANGED <<request, registry, reqSeen, regSeen, envVars>>

\* Mutant of CreateSecret: AlreadyExists is taken for success.
CreateIgnoringExisting(o) ==
  /\ pc[o] = "createSecret"
  /\ LET s == IF secret.exists THEN secret ELSE SecretWith(o, NoData) IN
       PutSecret(s) /\ OutdateCopies(o, s)
  /\ Goto(o, "status")
  /\ UNCHANGED <<request, registry, reqSeen, regSeen, queued, got, listed, found, envVars>>

\* r.Create of the Secret that Get did not find.
CreateSecret(o) ==
  /\ pc[o] = "createSecret"
  /\ \/ /\ ~secret.exists
        /\ LET s == SecretWith(o, NoData) IN
             PutSecret(s) /\ OutdateCopies(o, s)
        /\ Goto(o, "status")
     \/ /\ secret.exists
        /\ Goto(o, "regetSecret")
        /\ UNCHANGED <<secret, secSeen, gotSec>>
  /\ UNCHANGED <<request, registry, reqSeen, regSeen, queued, got, listed,
                 found, envVars>>

\* r.Get after AlreadyExists; the cache may still not have the Secret.
RegetSecret(o) ==
  /\ pc[o] = "regetSecret"
  /\ \/ /\ secSeen[o] = "missing"
        /\ Requeue(o)
     \/ /\ secSeen[o] # "missing"
        /\ gotSec' = [gotSec EXCEPT ![o] = secSeen[o]]
        /\ Goto(o, "overwriteSecret")
        /\ UNCHANGED <<queued, got, listed, found>>
  /\ UNCHANGED <<serverVars, cacheVars, envVars>>

\* r.Update after AlreadyExists, with the data meant for the creation.
OverwriteSecret(o) ==
  /\ pc[o] = "overwriteSecret"
  /\ \/ /\ gotSec[o] = "fresh"
        /\ LET s == SecretWith(o, NoData) IN
             PutSecret(s) /\ OutdateCopies(o, s)
        /\ Goto(o, "status")
        /\ UNCHANGED <<queued, got, listed, found>>
     \/ /\ gotSec[o] # "fresh"
        /\ Requeue(o)
        /\ UNCHANGED <<secret, secSeen>>
  /\ UNCHANGED <<request, registry, reqSeen, regSeen, envVars>>

\* Mutant of Contributed: the status is misspelt.
ContributedMisspelt(o, v) == [v EXCEPT !.data[o] = found[o], !.status = "completed"]

\* The request with this operator's targetData, completed if that makes the
\* contributors as many as the active providers listed earlier.
Contributed(o, v) ==
  LET w == [v EXCEPT !.data[o] = found[o]] IN
  IF ShouldMarkAsCompleted(Cardinality(registry[listed[o]]), Cardinality(Contributors(w)))
    THEN [w EXCEPT !.status = "Completed"] ELSE w

\* Status().Update with this operator's contribution.
UpdateStatus(o) ==
  /\ pc[o] = "status"
  /\ \/ /\ Accepted(o)
        /\ request' = Append(request, Contributed(o, Latest))
        /\ Goto(o, "cleanup")
        /\ UNCHANGED <<queued, got, gotSec, listed, found>>
     \/ /\ ~Accepted(o)
        /\ Requeue(o)
        /\ UNCHANGED request
  /\ UNCHANGED <<secret, registry, cacheVars, envVars>>

\* CleanupOldResources deletes the request if the cache lists it and it is old.
DeleteIfOld(o) ==
  IF old /\ reqSeen[o] > 0 /\ request[reqSeen[o]].status # "deleted" /\ ~Deleted
    THEN request' = Append(request, [Latest EXCEPT !.status = "deleted"])
    ELSE UNCHANGED request

\* cleanupOldTargetRequests, the last call of Reconcile.
Cleanup(o) ==
  /\ pc[o] = "cleanup"
  /\ DeleteIfOld(o)
  /\ Return(o)
  /\ UNCHANGED <<secret, registry, cacheVars, envVars>>

\* The same call at the end of this operator's Reconcile of another request.
CleanupElsewhere(o) ==
  /\ pc[o] = "idle" /\ old
  /\ DeleteIfOld(o)
  /\ UNCHANGED <<secret, registry, cacheVars, queued, localVars, envVars>>

\* Mutant of ApiError: the error is logged and nil returned.
ApiErrorSwallowed(o) ==
  /\ pc[o] \notin {"down", "idle"}
  /\ faults < MaxFaults
  /\ faults' = faults + 1
  /\ Return(o)
  /\ UNCHANGED <<serverVars, cacheVars, old>>

\* A call fails (an API error, a timeout; the write may have been applied by
\* the step before) and Reconcile returns the error.
ApiError(o) ==
  /\ pc[o] \notin {"down", "idle"}
  /\ faults < MaxFaults
  /\ faults' = faults + 1
  /\ Requeue(o)
  /\ UNCHANGED <<serverVars, cacheVars, old>>

ReconcileStep(o) ==
  \/ Begin(o) \/ AddLabel(o) \/ InitStatus(o) \/ CheckProviderActive(o)
  \/ CompleteIfAll(o) \/ Discover(o) \/ GetSecret(o) \/ UpdateSecret(o)
  \/ CreateSecret(o) \/ RegetSecret(o) \/ OverwriteSecret(o) \/ UpdateStatus(o)
  \/ Cleanup(o)

-----------------------------------------------------------------------------
\* Informers and workqueue (controller-runtime).

\* A watch event brings the next version of the request into the cache and
\* adds the key to the workqueue, which holds it once.
SyncRequest(o) ==
  /\ pc[o] # "down"
  /\ reqSeen[o] < Len(request)
  /\ reqSeen' = [reqSeen EXCEPT ![o] = @ + 1]
  /\ queued' = [queued EXCEPT ![o] = TRUE]
  /\ UNCHANGED <<serverVars, secSeen, regSeen, localVars, envVars>>

\* The Secret and the providers are cached too, but trigger no Reconcile.
SyncSecret(o) ==
  /\ pc[o] # "down"
  /\ secSeen[o] # (IF secret.exists THEN "fresh" ELSE "missing")
  /\ secSeen' = [secSeen EXCEPT ![o] = IF secret.exists THEN "fresh" ELSE "missing"]
  /\ UNCHANGED <<serverVars, reqSeen, regSeen, queued, localVars, envVars>>

SyncRegistry(o) ==
  /\ pc[o] # "down"
  /\ regSeen[o] < Len(registry)
  /\ regSeen' = [regSeen EXCEPT ![o] = @ + 1]
  /\ UNCHANGED <<serverVars, reqSeen, secSeen, queued, localVars, envVars>>

\* The key is added a second time for a version that Reconcile may have read
\* already: the event handler runs after the cache has been updated, and a
\* delayed requeue may come after the event it was meant to wait for.
LateAdd(o) ==
  /\ LateAdds
  /\ pc[o] # "down" /\ ~queued[o]
  /\ reqSeen[o] > 0 /\ request[reqSeen[o]].status # "deleted"
  /\ queued' = [queued EXCEPT ![o] = TRUE]
  /\ UNCHANGED <<serverVars, cacheVars, localVars, envVars>>

\* The resync of the informer, every 10 hours, replays the cached object: by
\* then the operator has long been idle and its caches are current.
Resync(o) ==
  /\ Resyncs
  /\ pc[o] = "idle" /\ ~queued[o]
  /\ reqSeen[o] = Len(request) /\ regSeen[o] = Len(registry) /\ ~Deleted
  /\ queued' = [queued EXCEPT ![o] = TRUE]
  /\ UNCHANGED <<serverVars, cacheVars, localVars, envVars>>

-----------------------------------------------------------------------------
\* The environment.

\* A provider is registered, set active or inactive: by the registration
\* runnable of main.go when it starts and stops, or by an administrator.
SetActive(o) ==
  /\ Len(registry) < MaxRegistry
  /\ registry' = Append(registry, IF o \in Active THEN Active \ {o} ELSE Active \cup {o})
  /\ UNCHANGED <<request, secret, cacheVars, queued, localVars, envVars>>

\* An operator's process ends between two API calls.
Crash(o) ==
  /\ pc[o] # "down"
  /\ faults < MaxFaults
  /\ faults' = faults + 1
  /\ Goto(o, "down") /\ ClearLocals(o)
  /\ queued' = [queued EXCEPT ![o] = FALSE]
  /\ UNCHANGED <<serverVars, cacheVars, old>>

\* It starts again: the caches are listed anew, and the initial list is
\* delivered to the handler.
Restart(o) ==
  /\ pc[o] = "down"
  /\ Goto(o, "idle")
  /\ reqSeen' = [reqSeen EXCEPT ![o] = Len(request)]
  /\ secSeen' = [secSeen EXCEPT ![o] = IF secret.exists THEN "fresh" ELSE "missing"]
  /\ regSeen' = [regSeen EXCEPT ![o] = Len(registry)]
  /\ queued' = [queued EXCEPT ![o] = ~Deleted]
  /\ UNCHANGED <<serverVars, got, gotSec, listed, found, envVars>>

\* An hour has passed since the request was created.
GrowOld ==
  /\ Ages /\ ~old
  /\ old' = TRUE
  /\ UNCHANGED <<serverVars, cacheVars, queued, localVars, faults>>

\* The garbage collector removes an owned Secret once its owner is gone.
CollectSecret ==
  /\ Deleted /\ secret.exists /\ secret.owned
  /\ PutSecret(NoSecret)
  /\ gotSec' = Outdated(gotSec)
  /\ UNCHANGED <<request, registry, reqSeen, regSeen, queued, pc, got, listed,
                 found, envVars>>

Init ==
  /\ \E label \in BOOLEAN :
       request = <<[status |-> "unset", label |-> label, data |-> [o \in Operators |-> None]]>>
  /\ \E l \in InitialLegacy :
       secret = [exists |-> l # None, owned |-> l # None, data |-> NoData, legacy |-> l]
  /\ registry = <<Operators>>
  /\ reqSeen = [o \in Operators |-> 0]
  /\ secSeen = [o \in Operators |-> IF secret.exists THEN "fresh" ELSE "missing"]
  /\ regSeen = [o \in Operators |-> 1]
  /\ queued = [o \in Operators |-> FALSE]
  /\ pc = [o \in Operators |-> "idle"]
  /\ got = [o \in Operators |-> 0]
  /\ gotSec = [o \in Operators |-> "missing"]
  /\ listed = [o \in Operators |-> 0]
  /\ found = [o \in Operators |-> None]
  /\ old = FALSE
  /\ faults = 0

Next ==
  \/ \E o \in Operators :
       \/ ReconcileStep(o) \/ CleanupElsewhere(o) \/ ApiError(o)
       \/ SyncRequest(o) \/ SyncSecret(o) \/ SyncRegistry(o)
       \/ LateAdd(o) \/ Resync(o)
       \/ SetActive(o) \/ Crash(o) \/ Restart(o)
  \/ GrowOld
  \/ CollectSecret

Spec == Init /\ [][Next]_vars

\* Goroutines, watches, the garbage collector and the kubelet make progress;
\* nothing forces faults, registry changes or the passing of an hour.
Fairness ==
  /\ \A o \in Operators :
       /\ WF_vars(ReconcileStep(o))
       /\ WF_vars(SyncRequest(o))
       /\ WF_vars(SyncSecret(o))
       /\ WF_vars(SyncRegistry(o))
       /\ WF_vars(Resync(o))
       /\ WF_vars(Restart(o))
  /\ WF_vars(CollectSecret)

FairSpec == Spec /\ Fairness

-----------------------------------------------------------------------------
\* Properties.

\* Every variable has its type; caches and local copies name versions that
\* exist.
TypeOK ==
  /\ request \in Seq(Version) /\ request # << >>
  /\ secret \in Secret
  /\ registry \in Seq(SUBSET Operators) /\ registry # << >>
  /\ reqSeen \in [Operators -> 0..Len(request)]
  /\ secSeen \in [Operators -> Views]
  /\ regSeen \in [Operators -> 1..Len(registry)]
  /\ queued \in [Operators -> BOOLEAN]
  /\ pc \in [Operators -> Steps]
  /\ got \in [Operators -> 0..Len(request)]
  /\ gotSec \in [Operators -> Views]
  /\ listed \in [Operators -> 0..Len(registry)]
  /\ found \in [Operators -> Entries]
  /\ old \in BOOLEAN
  /\ faults \in Nat

\* The versions of the request, whatever the interleaving of stale reads and
\* rejected writes, are a behaviour of RequestLifecycle: no lost update of
\* status.targetData, no second contribution, no step back of the status.
Lifecycle == INSTANCE RequestLifecycle WITH status <- Latest.status, data <- Latest.data
LifecycleSpec == Lifecycle!LSpec

\* A version is only marked Completed when its contributors are at least as
\* many as the active providers of some version of the registry that had any.
CompletedJustified ==
  \A i \in 1..Len(request) : request[i].status = "Completed" =>
    \E j \in 1..Len(registry) :
      /\ registry[j] # {}
      /\ Cardinality(Contributors(request[i])) >= Cardinality(registry[j])

\* When an operator's entry appears in status.targetData, the Secret exists
\* and holds for that operator the very snapshot published, unless another
\* operator's overwrite, whose entry is then there, has dropped it in between.
PublishesWhatItStored ==
  [][\A o \in Operators :
       Latest.data[o] = None /\ Latest'.data[o] # None =>
         /\ secret.exists
         /\ \/ secret.data[o] = Latest'.data[o]
            \/ secret.data[o] = None /\ \E p \in Operators \ {o} : secret.data[p] # None]_vars

\* The merge never loses an entry of the Secret, those migrated from the old
\* format included: only the overwrite after AlreadyExists does, and the
\* garbage collector.
OnlyOverwriteLosesEntries ==
  [][\A n \in Names :
       AllOperatorData(secret)[n] # None /\ AllOperatorData(secret')[n] = None =>
         Deleted \/ \E o \in Operators : pc[o] = "overwriteSecret"]_vars

\* Once the registry no longer changes and has an active provider, the request
\* is completed and stays so, unless it is deleted.
EventuallyCompleted ==
  <>[](Active # {}) => <>[](Latest.status \in {"Completed", "deleted"})

\* The credentials of a deleted request disappear for good, also when an
\* operator was just writing them.
SecretCollected == <>[](Deleted => ~secret.exists)

-----------------------------------------------------------------------------
\* What the documentation says and the code does not guarantee.

\* A request is Completed only when every active provider has contributed.
CompletedCoversActive ==
  [][Latest.status # "Completed" /\ Latest'.status = "Completed" =>
       Active \subseteq Contributors(Latest')]_vars

\* Operators share the Secret without losing each other's data: a published
\* contribution has its credentials in the Secret.
PublishedHasCredentials ==
  ~Deleted => \A o \in Contributors(Latest) : secret.exists /\ secret.data[o] # None

\* An inactive provider does not block completion: once every active provider
\* has contributed, the request is completed.
InactiveDoNotBlock ==
  (Active # {} /\ Active \subseteq Contributors(Latest)) ~>
    (Latest.status \in {"Completed", "deleted"} \/ ~(Active \subseteq Contributors(Latest)))
============================================================================
