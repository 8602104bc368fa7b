----------------------- MODULE ProviderConfigProofs -----------------------
(***************************************************************************)
(* Proofs about ProviderConfig, for any number of operators, schemas,      *)
(* registry changes, crashes and failed calls.                             *)
(***************************************************************************)
EXTENDS ProviderConfig, FiniteSetTheorems, TLAPS

\* Where Reconcile writes a copy it has read, has listed the providers, has a
\* schema, and works on a config that has been accepted.
Writing == {"contribute", "status"}
Listing == {"build", "fetch", "contribute", "refetch", "status"}
Building == {"fetch", "contribute"}
Pending == Listing \cup {"providers"}

\* What an operator's cache and local copies say at each step of Reconcile.
Local(o) ==
  /\ pc[o] \in {"label", "init"} => got[o] > 0 /\ config[got[o]].status = "unset"
  /\ pc[o] \in Pending => seen[o] > 0 /\ config[seen[o]].status # "unset"
  /\ pc[o] \in Writing => got[o] > 0 /\ config[got[o]].status \notin {"unset", "deleted"}
  /\ pc[o] \in Listing => listed[o] > 0
  /\ pc[o] \in Building => built[o] \in Schemas

LocalInv == \A o \in Operators : Local(o)

\* A config that has been accepted stays so in all later versions.  Reconcile
\* needs this: it never looks at the status of the copies it re-reads.
MonoInv ==
  \A i, j \in 1..Len(config) :
    i <= j /\ config[i].status # "unset" => config[j].status # "unset"

IInv == TypeOK /\ MonoInv /\ LocalInv

-----------------------------------------------------------------------------
USE NoneAssumption, BoundsAssumption

\* Appending a version keeps the earlier ones and makes it the latest.
LEMMA AppendFacts ==
  ASSUME NEW S, NEW s \in Seq(S), NEW v \in S
  PROVE  /\ Append(s, v) \in Seq(S)
         /\ Append(s, v) # << >>
         /\ Len(Append(s, v)) = Len(s) + 1
         /\ \A i \in 1..Len(s) : Append(s, v)[i] = s[i]
         /\ Append(s, v)[Len(s) + 1] = v
  OBVIOUS

\* The latest version is a version.
LEMMA LatestVersion == TypeOK => Len(config) \in Nat \ {0} /\ Latest \in Version
  BY DEF TypeOK, Latest

\* Writing a version makes it the latest, whether or not it is a new one, keeps
\* the earlier ones and keeps indices into them in range.
LEMMA ConfigGrows ==
  ASSUME TypeOK, NEW v \in Version, Put(v)
  PROVE  /\ config' \in Seq(Version) /\ config' # << >>
         /\ Len(config') \in Nat /\ Len(config') >= Len(config)
         /\ config' = config \/ Len(config') = Len(config) + 1
         /\ Latest' = v
         /\ config'[Len(config')] = v
         /\ \A i \in 1..Len(config) : config'[i] = config[i]
         /\ seen \in [Operators -> 0..Len(config')]
         /\ got \in [Operators -> 0..Len(config')]
<1>1. config \in Seq(Version) /\ Len(config) \in Nat /\ config # << >>
  BY DEF TypeOK
<1>2. CASE v = Latest
  <2>1. config' = config
    BY <1>2 DEF Put
  <2> QED BY <1>1, <1>2, <2>1 DEF TypeOK, Latest
<1>3. CASE v # Latest
  <2>1. config' = Append(config, v)
    BY <1>3 DEF Put
  <2>2. /\ config' \in Seq(Version) /\ config' # << >>
        /\ Len(config') = Len(config) + 1
        /\ config'[Len(config) + 1] = v
        /\ \A i \in 1..Len(config) : config'[i] = config[i]
    BY <1>1, <2>1, AppendFacts
  <2>3. 0..Len(config) \subseteq 0..Len(config')
    BY <1>1, <2>2
  <2> QED BY <1>1, <2>2, <2>3 DEF TypeOK, Latest
<1> QED BY <1>2, <1>3

\* The same for the registry.
LEMMA RegistryGrows ==
  ASSUME TypeOK, NEW v \in SUBSET Operators, registry' = Append(registry, v)
  PROVE  /\ registry' \in Seq(SUBSET Operators) /\ registry' # << >>
         /\ Len(registry') = Len(registry) + 1
         /\ \A i \in 1..Len(registry) : registry'[i] = registry[i]
         /\ regSeen \in [Operators -> 1..Len(registry')]
         /\ listed \in [Operators -> 0..Len(registry')]
<1>1. Len(registry) \in Nat
  BY DEF TypeOK
<1>2. /\ registry' \in Seq(SUBSET Operators) /\ registry' # << >>
      /\ Len(registry') = Len(registry) + 1
      /\ \A i \in 1..Len(registry) : registry'[i] = registry[i]
  BY AppendFacts, SMTT(30) DEF TypeOK
<1>3. 0..Len(registry) \subseteq 0..Len(registry') /\ 1..Len(registry) \subseteq 1..Len(registry')
  BY <1>1, <1>2
<1> QED BY <1>1, <1>2, <1>3 DEF TypeOK

\* Every version an operator can write on top of another is a version.
LEMMA WrittenVersions ==
  ASSUME TypeOK, NEW o \in Operators, NEW v \in Version
  PROVE  /\ [v EXCEPT !.label = TRUE] \in Version
         /\ \A st \in Statuses : [v EXCEPT !.status = st] \in Version
         /\ [v EXCEPT !.data[o] = built[o]] \in Version
         /\ Evaluated(o, v) \in Version
<1>1. [status |-> "Completed", label |-> v.label, data |-> v.data, done |-> v.done + 1] \in Version
  BY DEF Version, Statuses
<1>2. [v EXCEPT !.data[o] = built[o]] \in Version
  BY DEF TypeOK, Version
<1> QED BY <1>1, <1>2 DEF Version, Evaluated

\* An accepted write is based on the latest version.
LEMMA AcceptedLatest == \A o \in Operators : Accepted(o) => config[got[o]] = Latest
  BY DEF Accepted, Latest

\* Returning from Reconcile, or stopping, clears the locals.
LEMMA ClearedTypes ==
  ASSUME TypeOK, NEW o \in Operators, NEW step \in Steps, NEW n \in Nat,
         got \in [Operators -> 0..n], Goto(o, step), ClearLocals(o)
  PROVE  /\ pc' \in [Operators -> Steps]
         /\ got' \in [Operators -> 0..n]
         /\ listed' \in [Operators -> 0..Len(registry)]
         /\ built' \in [Operators -> Entries]
<1>1. Len(registry) \in Nat
  BY DEF TypeOK
<1> QED BY <1>1 DEF TypeOK, Goto, ClearLocals, Entries

-----------------------------------------------------------------------------
\* Type correctness, action by action.

\* Types are right at the start.
LEMMA InitType == Init => TypeOK
<1> SUFFICES ASSUME Init PROVE TypeOK
  OBVIOUS
<1>1. config \in Seq(Version) /\ config # << >> /\ Len(config) = 1
  BY DEF Init, Version, Statuses, Entries
<1>2. registry \in Seq(SUBSET Operators) /\ registry # << >> /\ Len(registry) = 1
  BY InitialAssumption DEF Init
<1>3. /\ seen \in [Operators -> 0..1] /\ got \in [Operators -> 0..1]
      /\ regSeen \in [Operators -> 1..1] /\ listed \in [Operators -> 0..1]
  BY DEF Init
<1>4. pc \in [Operators -> Steps] /\ built \in [Operators -> Entries]
  BY DEF Init, Steps, Entries
<1>5. queued \in [Operators -> BOOLEAN] /\ old \in BOOLEAN /\ changes \in Nat
  BY DEF Init
<1>6. current \in [Operators -> Schemas]
  BY InitialAssumption DEF Init
<1> QED BY <1>1, <1>2, <1>3, <1>4, <1>5, <1>6 DEF TypeOK

\* The steps that write the config keep the types.
LEMMA TypeWrites ==
  ASSUME TypeOK, NEW o \in Operators,
         AddLabel(o) \/ InitStatus(o) \/ UpdateProviderConfig(o) \/ UpdateStatus(o)
           \/ Cleanup(o) \/ CleanupElsewhere(o)
  PROVE  TypeOK'
<1> USE DEF cacheVars, envVars
<1>1. Len(config) \in Nat /\ Len(registry) \in Nat /\ "idle" \in Steps /\ Latest \in Version
  BY LatestVersion DEF TypeOK, Steps
<1>2. /\ [Latest EXCEPT !.label = TRUE] \in Version
      /\ [Latest EXCEPT !.status = "pending"] \in Version
      /\ [Latest EXCEPT !.status = "deleted"] \in Version
      /\ [Latest EXCEPT !.data[o] = built[o]] \in Version
      /\ Evaluated(o, Latest) \in Version
  BY <1>1, WrittenVersions DEF Statuses
<1>3. ASSUME NEW v \in Version, Put(v), Return(o), UNCHANGED <<registry, cacheVars, envVars>>
      PROVE  TypeOK'
  BY <1>1, <1>3, ConfigGrows, ClearedTypes DEF TypeOK, Return
<1>4. ASSUME NEW v \in Version, Put(v), NEW step \in Steps, Goto(o, step),
             UNCHANGED <<queued, got, listed, built, registry, cacheVars, envVars>>
      PROVE  TypeOK'
  BY <1>4, ConfigGrows DEF TypeOK, Goto
<1>5. ASSUME Requeue(o), UNCHANGED config, UNCHANGED <<registry, cacheVars, envVars>>
      PROVE  TypeOK'
  BY <1>1, <1>5, ClearedTypes DEF TypeOK, Requeue
<1>6. CASE AddLabel(o)
  <2>1. CASE /\ Put([Latest EXCEPT !.label = TRUE])
             /\ got' = [got EXCEPT ![o] = Len(config')]
             /\ Goto(o, "init")
             /\ UNCHANGED <<queued, listed, built>>
    <3>1. /\ config' \in Seq(Version) /\ config' # << >> /\ Len(config') \in Nat
          /\ seen \in [Operators -> 0..Len(config')]
          /\ got \in [Operators -> 0..Len(config')]
      BY <1>2, <2>1, ConfigGrows
    <3>2. got' \in [Operators -> 0..Len(config')]
      BY <2>1, <3>1
    <3> QED BY <1>6, <2>1, <3>1, <3>2 DEF AddLabel, TypeOK, Goto, Steps
  <2> QED BY <1>5, <1>6, <2>1 DEF AddLabel
<1>7. CASE InitStatus(o)
  BY <1>2, <1>3, <1>5, <1>7, AcceptedLatest DEF InitStatus
<1>8. CASE UpdateProviderConfig(o)
  <2>1. "refetch" \in Steps
    BY DEF Steps
  <2> QED BY <1>2, <1>4, <1>5, <1>8, <2>1, AcceptedLatest DEF UpdateProviderConfig
<1>9. CASE UpdateStatus(o)
  <2>1. "cleanup" \in Steps
    BY DEF Steps
  <2> QED BY <1>2, <1>4, <1>5, <1>9, <2>1, AcceptedLatest DEF UpdateStatus
<1>10. CASE Cleanup(o)
  <2>1. CASE UNCHANGED config
    BY <1>1, <1>10, <2>1, ClearedTypes DEF Cleanup, TypeOK, Return
  <2> QED BY <1>2, <1>3, <1>10, <2>1 DEF Cleanup, DeleteIfOld
<1>11. CASE CleanupElsewhere(o)
  <2>1. CASE UNCHANGED config
    BY <1>11, <2>1 DEF CleanupElsewhere, TypeOK, localVars
  <2>2. CASE Put([Latest EXCEPT !.status = "deleted"])
    BY <1>2, <1>11, <2>2, ConfigGrows DEF CleanupElsewhere, TypeOK, localVars
  <2> QED BY <1>11, <2>1, <2>2 DEF CleanupElsewhere, DeleteIfOld
<1> QED BY <1>6, <1>7, <1>8, <1>9, <1>10, <1>11

\* The steps that only read, and those of the informers and the environment,
\* keep the types.
LEMMA TypeLocalSteps ==
  ASSUME TypeOK, NEW o \in Operators,
         Begin(o) \/ CheckProviderActive(o) \/ BuildConfigSchema(o) \/ GetFreshConfig(o)
           \/ GetUpdatedConfig(o) \/ ApiError(o) \/ SyncConfig(o) \/ SyncRegistry(o)
           \/ LateAdd(o) \/ Resync(o) \/ SetActive(o) \/ ChangeClusters(o) \/ Crash(o)
           \/ Restart(o)
  PROVE  TypeOK'
<1> USE DEF cacheVars, envVars, serverVars, localVars, Change
<1>1. /\ Len(config) \in Nat /\ Len(registry) \in Nat /\ Len(registry) > 0
      /\ "idle" \in Steps /\ "down" \in Steps
  BY DEF TypeOK, Steps
<1>2. CASE Begin(o)
  BY <1>2 DEF Begin, TypeOK, Goto, Steps
<1>3. CASE CheckProviderActive(o)
  <2>1. CASE Return(o)
    BY <1>1, <1>3, <2>1, ClearedTypes DEF CheckProviderActive, TypeOK, Return
  <2>2. CASE /\ listed' = [listed EXCEPT ![o] = regSeen[o]]
             /\ Goto(o, "build")
             /\ UNCHANGED <<queued, got, built>>
    <3>1. listed' \in [Operators -> 0..Len(registry)] /\ pc' \in [Operators -> Steps]
      BY <1>1, <2>2 DEF TypeOK, Goto, Steps
    <3> QED BY <1>3, <2>2, <3>1 DEF CheckProviderActive, TypeOK
  <2> QED BY <1>3, <2>1, <2>2 DEF CheckProviderActive
<1>4. CASE BuildConfigSchema(o)
  <2>1. built' \in [Operators -> Entries] /\ pc' \in [Operators -> Steps]
    BY <1>4 DEF BuildConfigSchema, TypeOK, Goto, Steps, Entries
  <2> QED BY <1>4, <2>1 DEF BuildConfigSchema, TypeOK
<1>5. ASSUME NEW step, NEW next \in Steps, Fetch(o, step, next) PROVE TypeOK'
  <2>1. CASE Requeue(o)
    BY <1>1, <1>5, <2>1, ClearedTypes DEF Fetch, TypeOK, Requeue
  <2>2. CASE /\ got' = [got EXCEPT ![o] = seen[o]]
             /\ Goto(o, next)
             /\ UNCHANGED <<queued, listed, built>>
    <3>1. got' \in [Operators -> 0..Len(config)] /\ pc' \in [Operators -> Steps]
      BY <1>5, <2>2 DEF TypeOK, Goto
    <3> QED BY <1>5, <2>2, <3>1 DEF Fetch, TypeOK
  <2> QED BY <1>5, <2>1, <2>2 DEF Fetch
<1>6. CASE GetFreshConfig(o) \/ GetUpdatedConfig(o)
  <2>1. "contribute" \in Steps /\ "status" \in Steps
    BY DEF Steps
  <2> QED BY <1>5, <1>6, <2>1 DEF GetFreshConfig, GetUpdatedConfig
<1>7. CASE ApiError(o)
  BY <1>1, <1>7, ClearedTypes DEF ApiError, TypeOK, Requeue
<1>8. CASE SyncConfig(o)
  <2>1. seen' \in [Operators -> 0..Len(config)]
    BY <1>1, <1>8 DEF SyncConfig, TypeOK
  <2> QED BY <1>8, <2>1 DEF SyncConfig, TypeOK
<1>9. CASE SyncRegistry(o)
  <2>1. regSeen' \in [Operators -> 1..Len(registry)]
    BY <1>1, <1>9 DEF SyncRegistry, TypeOK
  <2> QED BY <1>9, <2>1 DEF SyncRegistry, TypeOK
<1>10. CASE LateAdd(o) \/ Resync(o)
  BY <1>10 DEF LateAdd, Resync, TypeOK
<1>11. CASE SetActive(o)
  <2>1. Active \subseteq Operators
    BY DEF Active, TypeOK
  <2>2. (IF o \in Active THEN Active \ {o} ELSE Active \cup {o}) \in SUBSET Operators
    BY <2>1
  <2> QED BY <1>11, <2>2, RegistryGrows, SMTT(30) DEF SetActive, TypeOK
<1>12. CASE ChangeClusters(o)
  BY <1>12 DEF ChangeClusters, TypeOK
<1>13. CASE Crash(o)
  BY <1>1, <1>13, ClearedTypes DEF Crash, TypeOK
<1>14. CASE Restart(o)
  <2>1. /\ seen' \in [Operators -> 0..Len(config)]
        /\ regSeen' \in [Operators -> 1..Len(registry)]
    BY <1>1, <1>14 DEF Restart, TypeOK
  <2>2. pc' \in [Operators -> Steps] /\ queued' \in [Operators -> BOOLEAN]
    BY <1>1, <1>14 DEF Restart, TypeOK, Goto, Deleted
  <2> QED BY <1>14, <2>1, <2>2 DEF Restart, TypeOK
<1> QED BY <1>2, <1>3, <1>4, <1>6, <1>7, <1>8, <1>9, <1>10, <1>11, <1>12, <1>13, <1>14

\* Every step keeps the types.
LEMMA NextType == TypeOK /\ [Next]_vars => TypeOK'
<1> SUFFICES ASSUME TypeOK, [Next]_vars PROVE TypeOK'
  OBVIOUS
<1> USE DEF cacheVars, envVars, serverVars, localVars
<1>1. CASE GrowOld
  BY <1>1 DEF GrowOld, TypeOK, Change
<1>2. CASE UNCHANGED vars
  BY <1>2 DEF vars, TypeOK
<1> QED BY <1>1, <1>2, TypeWrites, TypeLocalSteps DEF Next, ReconcileStep

\* Every variable of ProviderConfig keeps its type; caches and local copies
\* always name versions that exist.
THEOREM TypeCorrect == Spec => []TypeOK
  BY InitType, NextType, PTL DEF Spec

-----------------------------------------------------------------------------
\* The histories.

\* Versions once written stay, and caches only move forward.
Grows ==
  /\ Len(config') >= Len(config) /\ Len(registry') >= Len(registry)
  /\ \A i \in 1..Len(config) : config'[i] = config[i]
  /\ \A i \in 1..Len(registry) : registry'[i] = registry[i]
  /\ \A o \in Operators : seen'[o] >= seen[o]

\* A step writes at most one version of the config; which step, and which one.
Writes(o, v) ==
  /\ v \in Version /\ Put(v)
  /\ \/ /\ AddLabel(o) /\ Accepted(o) /\ pc[o] = "label"
        /\ v = [Latest EXCEPT !.label = TRUE]
     \/ /\ InitStatus(o) /\ Accepted(o) /\ pc[o] = "init"
        /\ v = [Latest EXCEPT !.status = "pending"]
     \/ /\ UpdateProviderConfig(o) /\ Accepted(o) /\ pc[o] = "contribute"
        /\ v = [Latest EXCEPT !.data[o] = built[o]]
     \/ /\ UpdateStatus(o) /\ Accepted(o) /\ pc[o] = "status"
        /\ v = Evaluated(o, Latest)
     \/ /\ Cleanup(o) \/ CleanupElsewhere(o)
        /\ ~Deleted /\ v = [Latest EXCEPT !.status = "deleted"]

\* Only these steps write the config, and they leave registry and caches alone.
LEMMA ConfigWriters ==
  ASSUME TypeOK, [Next]_vars
  PROVE  \/ UNCHANGED config
         \/ UNCHANGED <<registry, seen>> /\ \E o \in Operators, v \in Version : Writes(o, v)
<1> USE DEF cacheVars, envVars, serverVars, localVars
<1>1. Latest \in Version
  BY LatestVersion
<1>2. ASSUME NEW o \in Operators
      PROVE  /\ [Latest EXCEPT !.label = TRUE] \in Version
             /\ [Latest EXCEPT !.status = "pending"] \in Version
             /\ [Latest EXCEPT !.status = "deleted"] \in Version
             /\ [Latest EXCEPT !.data[o] = built[o]] \in Version
             /\ Evaluated(o, Latest) \in Version
  BY <1>1, <1>2, WrittenVersions DEF Statuses
<1>3. ASSUME NEW o \in Operators, AddLabel(o)
      PROVE  UNCHANGED config \/ \E v \in Version : Writes(o, v)
  BY <1>2, <1>3 DEF AddLabel, Writes
<1>4. ASSUME NEW o \in Operators, InitStatus(o)
      PROVE  UNCHANGED config \/ \E v \in Version : Writes(o, v)
  BY <1>2, <1>4, AcceptedLatest DEF InitStatus, Writes
<1>5. ASSUME NEW o \in Operators, UpdateProviderConfig(o)
      PROVE  UNCHANGED config \/ \E v \in Version : Writes(o, v)
  BY <1>2, <1>5, AcceptedLatest DEF UpdateProviderConfig, Writes
<1>6. ASSUME NEW o \in Operators, UpdateStatus(o)
      PROVE  UNCHANGED config \/ \E v \in Version : Writes(o, v)
  BY <1>2, <1>6, AcceptedLatest DEF UpdateStatus, Writes
<1>7. ASSUME NEW o \in Operators, Cleanup(o) \/ CleanupElsewhere(o)
      PROVE  UNCHANGED config \/ \E v \in Version : Writes(o, v)
  BY <1>2, <1>7 DEF Cleanup, CleanupElsewhere, DeleteIfOld, Writes
<1>8. ASSUME NEW o \in Operators,
             AddLabel(o) \/ InitStatus(o) \/ UpdateProviderConfig(o) \/ UpdateStatus(o)
               \/ Cleanup(o) \/ CleanupElsewhere(o)
      PROVE  UNCHANGED <<registry, seen>>
  BY <1>8 DEF AddLabel, InitStatus, UpdateProviderConfig, UpdateStatus, Cleanup, CleanupElsewhere
<1> QED BY <1>3, <1>4, <1>5, <1>6, <1>7, <1>8, ZenonT(60)
         DEF Next, ReconcileStep, Begin, CheckProviderActive, BuildConfigSchema,
             GetFreshConfig, GetUpdatedConfig, Fetch, ApiError, SyncConfig, SyncRegistry,
             LateAdd, Resync, SetActive, ChangeClusters, Crash, Restart, GrowOld, vars

\* No step changes a version that has been written or moves a cache back.
LEMMA HistoriesGrow == TypeOK /\ [Next]_vars => Grows
<1> SUFFICES ASSUME TypeOK, [Next]_vars PROVE Grows
  OBVIOUS
<1> USE DEF cacheVars, envVars, serverVars, localVars
<1>1. /\ Len(config) \in Nat /\ Len(registry) \in Nat
      /\ \A o \in Operators : seen[o] \in Nat /\ seen[o] <= Len(config)
  BY DEF TypeOK
<1>2. CASE UNCHANGED <<registry, seen>> /\ \E o \in Operators, v \in Version : Writes(o, v)
  <2>1. PICK v \in Version : Put(v)
    BY <1>2 DEF Writes
  <2> QED BY <1>1, <1>2, <2>1, ConfigGrows DEF Grows
<1>3. CASE UNCHANGED config
  <2>1. /\ Len(registry') >= Len(registry)
        /\ \A i \in 1..Len(registry) : registry'[i] = registry[i]
    <3>1. ASSUME NEW o \in Operators, SetActive(o)
          PROVE  /\ Len(registry') >= Len(registry)
                 /\ \A i \in 1..Len(registry) : registry'[i] = registry[i]
      <4>1. Active \subseteq Operators
        BY DEF Active, TypeOK
      <4>2. (IF o \in Active THEN Active \ {o} ELSE Active \cup {o}) \in SUBSET Operators
        BY <4>1
      <4> QED BY <1>1, <3>1, <4>2, RegistryGrows DEF SetActive
    <3>2. UNCHANGED registry \/ \E o \in Operators : SetActive(o)
      BY DEF Next, ReconcileStep, Begin, AddLabel, InitStatus, CheckProviderActive,
             BuildConfigSchema, GetFreshConfig, GetUpdatedConfig, Fetch,
             UpdateProviderConfig, UpdateStatus, Cleanup, CleanupElsewhere, ApiError,
             SyncConfig, SyncRegistry, LateAdd, Resync, ChangeClusters, Crash, Restart,
             GrowOld, vars
    <3> QED BY <1>1, <3>1, <3>2
  <2>2. \A o \in Operators : seen'[o] >= seen[o]
    <3>1. ASSUME NEW p \in Operators, SyncConfig(p) \/ Restart(p)
          PROVE  \A o \in Operators : seen'[o] >= seen[o]
      <4> TAKE o \in Operators
      <4>1. CASE SyncConfig(p)
        <5>1. seen'[o] = IF o = p THEN seen[p] + 1 ELSE seen[o]
          BY <4>1 DEF SyncConfig, TypeOK
        <5> QED BY <1>1, <5>1
      <4>2. CASE Restart(p)
        <5>1. seen'[o] = IF o = p THEN Len(config) ELSE seen[o]
          BY <4>2 DEF Restart, TypeOK
        <5> QED BY <1>1, <5>1
      <4> QED BY <3>1, <4>1, <4>2
    <3>2. UNCHANGED seen \/ \E p \in Operators : SyncConfig(p) \/ Restart(p)
      BY DEF Next, ReconcileStep, Begin, AddLabel, InitStatus, CheckProviderActive,
             BuildConfigSchema, GetFreshConfig, GetUpdatedConfig, Fetch,
             UpdateProviderConfig, UpdateStatus, Cleanup, CleanupElsewhere, ApiError,
             SyncRegistry, LateAdd, Resync, SetActive, ChangeClusters, Crash, GrowOld, vars
    <3> QED BY <1>1, <3>1, <3>2
  <2> QED BY <1>1, <1>3, <2>1, <2>2 DEF Grows
<1> QED BY <1>2, <1>3, ConfigWriters

\* Accepted configs stay accepted.
LEMMA NextMono == TypeOK /\ MonoInv /\ [Next]_vars => MonoInv'
<1> SUFFICES ASSUME TypeOK, MonoInv, [Next]_vars PROVE MonoInv'
  OBVIOUS
<1>1. Len(config) \in Nat \ {0} /\ Latest \in Version /\ Latest = config[Len(config)]
  BY LatestVersion DEF Latest
<1>2. CASE UNCHANGED config
  BY <1>2 DEF MonoInv
<1>3. ASSUME NEW o \in Operators, NEW v \in Version, Writes(o, v) PROVE MonoInv'
  <2>1. v.status \in {Latest.status, "pending", "Completed", "deleted"}
    BY <1>1, <1>3 DEF Writes, Evaluated, Version
  <2>2. /\ Len(config') \in Nat /\ config'[Len(config')] = v
        /\ config' = config \/ Len(config') = Len(config) + 1
        /\ \A i \in 1..Len(config) : config'[i] = config[i]
    BY <1>3, ConfigGrows DEF Writes
  <2>3. CASE config' = config
    BY <2>3 DEF MonoInv
  <2>4. CASE Len(config') = Len(config) + 1
    <3> SUFFICES ASSUME NEW i \in 1..Len(config'), NEW j \in 1..Len(config'),
                        i <= j, config'[i].status # "unset"
                 PROVE  config'[j].status # "unset"
      BY DEF MonoInv
    <3>1. CASE j \in 1..Len(config)
      BY <1>1, <2>2, <3>1 DEF MonoInv
    <3>2. CASE i \in 1..Len(config) /\ j = Len(config')
      <4>1. Latest.status # "unset"
        BY <1>1, <2>2, <3>2 DEF MonoInv
      <4> QED BY <2>1, <2>2, <3>2, <4>1
    <3>3. CASE i = Len(config') /\ j = Len(config')
      BY <3>3
    <3> QED BY <1>1, <2>4, <3>1, <3>2, <3>3
  <2> QED BY <2>2, <2>3, <2>4
<1> QED BY <1>2, <1>3, ConfigWriters

-----------------------------------------------------------------------------
\* What Reconcile knows of the config it works on.

\* The step leaves this operator's Reconcile where it is.
LocalsKept(o) ==
  pc'[o] = pc[o] /\ got'[o] = got[o] /\ listed'[o] = listed[o] /\ built'[o] = built[o]

OnlyLocalsOf(o) == \A p \in Operators \ {o} : LocalsKept(p)

\* What the cache of an operator says stays true when it moves forward.
LEMMA SeenKept ==
  ASSUME TypeOK, TypeOK', MonoInv', Grows, NEW o \in Operators,
         seen[o] > 0, config[seen[o]].status # "unset"
  PROVE  seen'[o] > 0 /\ config'[seen'[o]].status # "unset"
<1>1. /\ Len(config) \in Nat /\ Len(config') \in Nat
      /\ seen[o] \in 1..Len(config) /\ seen'[o] \in 0..Len(config')
  BY DEF TypeOK
<1>2. /\ seen'[o] >= seen[o] /\ config'[seen[o]] = config[seen[o]]
      /\ Len(config') >= Len(config)
  BY <1>1 DEF Grows
<1>3. seen[o] \in 1..Len(config') /\ seen'[o] \in 1..Len(config') /\ seen[o] <= seen'[o]
  BY <1>1, <1>2
<1> QED BY <1>2, <1>3 DEF MonoInv

\* What an operator knows stays true while it does nothing.
LEMMA LocalKept ==
  ASSUME TypeOK, TypeOK', MonoInv', Grows, NEW o \in Operators, Local(o), LocalsKept(o)
  PROVE  Local(o)'
<1>1. got[o] > 0 => config'[got[o]] = config[got[o]]
  BY DEF TypeOK, Grows
<1>2. pc[o] \in Pending => seen'[o] > 0 /\ config'[seen'[o]].status # "unset"
  BY SeenKept DEF Local
<1> QED BY <1>1, <1>2 DEF Local, LocalsKept, Pending, Listing, Building, Writing

\* Hence it is enough to look at the operator that takes the step.
LEMMA LocalOthers ==
  ASSUME TypeOK, TypeOK', MonoInv', LocalInv, Grows, NEW o \in Operators,
         OnlyLocalsOf(o), Local(o)'
  PROVE  LocalInv'
<1>1. \A p \in Operators \ {o} : Local(p)'
  BY LocalKept DEF LocalInv, OnlyLocalsOf
<1> QED BY <1>1 DEF LocalInv

\* An operator that is idle, down or about to clean up knows nothing.
LEMMA LocalIdle ==
  ASSUME NEW o \in Operators, pc'[o] \in {"idle", "down", "cleanup"}
  PROVE  Local(o)'
  BY DEF Local, Pending, Listing, Building, Writing

\* Every step keeps the local facts.
LEMMA NextLocal == IInv /\ [Next]_vars => LocalInv'
<1> SUFFICES ASSUME TypeOK, MonoInv, LocalInv, [Next]_vars PROVE LocalInv'
  BY DEF IInv
<1> USE DEF cacheVars, envVars, serverVars, localVars
<1>1. Grows /\ TypeOK' /\ MonoInv'
  BY HistoriesGrow, NextType, NextMono
<1>2. Len(config) \in Nat /\ Len(registry) \in Nat
  BY DEF TypeOK
<1>3. ASSUME UNCHANGED <<pc, got, listed, built>> PROVE LocalInv'
  BY <1>1, <1>3, LocalKept DEF LocalInv, LocalsKept
<1>4. ASSUME NEW o \in Operators, ClearLocals(o), NEW step \in {"idle", "down"}, Goto(o, step)
      PROVE  LocalInv'
  <2>1. OnlyLocalsOf(o) /\ pc'[o] = step
    BY <1>4 DEF OnlyLocalsOf, LocalsKept, ClearLocals, Goto, TypeOK
  <2> QED BY <1>1, <2>1, LocalOthers, LocalIdle
<1>5. ASSUME NEW o \in Operators, Begin(o) PROVE LocalInv'
  <2>1. CASE UNCHANGED <<pc, got>>
    BY <1>3, <1>5, <2>1 DEF Begin
  <2>2. CASE /\ seen[o] > 0 /\ config[seen[o]].status = "unset"
             /\ Goto(o, IF config[seen[o]].label THEN "init" ELSE "label")
             /\ got' = [got EXCEPT ![o] = seen[o]]
    <3>1. OnlyLocalsOf(o) /\ pc'[o] \in {"init", "label"} /\ got'[o] = seen[o]
      BY <1>5, <2>2 DEF Begin, OnlyLocalsOf, LocalsKept, Goto, TypeOK
    <3>2. Local(o)'
      BY <1>5, <2>2, <3>1 DEF Begin, Local, Pending, Listing, Building, Writing
    <3> QED BY <1>1, <3>1, <3>2, LocalOthers
  <2>3. CASE /\ seen[o] > 0 /\ config[seen[o]].status = "pending"
             /\ Goto(o, "providers")
             /\ got' = [got EXCEPT ![o] = seen[o]]
    <3>1. OnlyLocalsOf(o) /\ pc'[o] = "providers"
      BY <1>5, <2>3 DEF Begin, OnlyLocalsOf, LocalsKept, Goto, TypeOK
    <3>2. Local(o)'
      BY <1>5, <2>3, <3>1 DEF Begin, Local, Pending, Listing, Building, Writing
    <3> QED BY <1>1, <3>1, <3>2, LocalOthers
  <2> QED BY <1>5, <2>1, <2>2, <2>3 DEF Begin
<1>6. ASSUME NEW o \in Operators, AddLabel(o) PROVE LocalInv'
  <2>1. CASE /\ Accepted(o)
             /\ Put([Latest EXCEPT !.label = TRUE])
             /\ got' = [got EXCEPT ![o] = Len(config')]
             /\ Goto(o, "init")
             /\ UNCHANGED <<queued, listed, built>>
    <3>1. OnlyLocalsOf(o) /\ pc'[o] = "init" /\ got'[o] = Len(config')
      BY <2>1 DEF OnlyLocalsOf, LocalsKept, Goto, TypeOK
    <3>2. Latest \in Version /\ [Latest EXCEPT !.label = TRUE] \in Version
      BY LatestVersion, WrittenVersions
    <3>3. Len(config') > 0 /\ config'[Len(config')] = [Latest EXCEPT !.label = TRUE]
      BY <2>1, <3>2, ConfigGrows, LatestVersion
    <3>4. Latest.status = "unset"
      BY <1>6, <2>1, AcceptedLatest DEF AddLabel, LocalInv, Local
    <3>5. config'[got'[o]].status = "unset"
      BY <3>1, <3>2, <3>3, <3>4 DEF Version
    <3>6. Local(o)'
      BY <3>1, <3>3, <3>5 DEF Local, Pending, Listing, Building, Writing
    <3> QED BY <1>1, <3>1, <3>6, LocalOthers
  <2> QED BY <1>4, <1>6, <2>1 DEF AddLabel, Requeue
<1>7. ASSUME NEW o \in Operators, CheckProviderActive(o) PROVE LocalInv'
  <2>1. CASE Return(o)
    BY <1>4, <2>1 DEF Return
  <2>2. CASE /\ listed' = [listed EXCEPT ![o] = regSeen[o]]
             /\ Goto(o, "build")
             /\ UNCHANGED <<queued, got, built>>
    <3>1. /\ OnlyLocalsOf(o) /\ pc'[o] = "build" /\ listed'[o] = regSeen[o]
          /\ UNCHANGED <<config, seen>>
      BY <1>7, <2>2 DEF CheckProviderActive, OnlyLocalsOf, LocalsKept, Goto, TypeOK
    <3>2. regSeen[o] > 0
      BY <1>2 DEF TypeOK
    <3>3. seen[o] > 0 /\ config[seen[o]].status # "unset"
      BY <1>7 DEF CheckProviderActive, LocalInv, Local, Pending
    <3>4. Local(o)'
      BY <3>1, <3>2, <3>3 DEF Local, Pending, Listing, Building, Writing
    <3> QED BY <1>1, <3>1, <3>4, LocalOthers
  <2> QED BY <1>7, <2>1, <2>2 DEF CheckProviderActive
<1>8. ASSUME NEW o \in Operators, BuildConfigSchema(o) PROVE LocalInv'
  <2>1. /\ OnlyLocalsOf(o) /\ pc'[o] = "fetch" /\ built'[o] \in Schemas
        /\ UNCHANGED <<config, seen, got, listed>>
    BY <1>8 DEF BuildConfigSchema, OnlyLocalsOf, LocalsKept, Goto, TypeOK
  <2>2. Local(o) /\ pc[o] = "build"
    BY <1>8 DEF BuildConfigSchema, LocalInv
  <2>3. Local(o)'
    BY <2>1, <2>2 DEF Local, Pending, Listing, Building, Writing
  <2> QED BY <1>1, <2>1, <2>3, LocalOthers
<1>9. ASSUME NEW o \in Operators, GetFreshConfig(o) \/ GetUpdatedConfig(o) PROVE LocalInv'
  <2>1. CASE Requeue(o)
    BY <1>4, <2>1 DEF Requeue
  <2>2. CASE ~Requeue(o)
    <3>1. /\ config[seen[o]].status # "deleted" /\ got' = [got EXCEPT ![o] = seen[o]]
          /\ UNCHANGED <<config, seen, listed, built>>
          /\ \/ pc[o] = "fetch" /\ Goto(o, "contribute")
             \/ pc[o] = "refetch" /\ Goto(o, "status")
      BY <1>9, <2>2 DEF GetFreshConfig, GetUpdatedConfig, Fetch
    <3>2. /\ OnlyLocalsOf(o) /\ got'[o] = seen[o]
          /\ \/ pc[o] = "fetch" /\ pc'[o] = "contribute"
             \/ pc[o] = "refetch" /\ pc'[o] = "status"
      BY <3>1 DEF OnlyLocalsOf, LocalsKept, Goto, TypeOK
    <3>3. Local(o)
      BY DEF LocalInv
    <3>4. Local(o)'
      BY <3>1, <3>2, <3>3 DEF Local, Pending, Listing, Building, Writing
    <3> QED BY <1>1, <3>2, <3>4, LocalOthers
  <2> QED BY <2>1, <2>2
<1>10. ASSUME NEW o \in Operators, UpdateProviderConfig(o) PROVE LocalInv'
  <2>1. CASE Requeue(o)
    BY <1>4, <2>1 DEF Requeue
  <2>2. CASE ~Requeue(o)
    <3>1. OnlyLocalsOf(o) /\ pc[o] = "contribute" /\ pc'[o] = "refetch" /\ UNCHANGED listed
      BY <1>10, <2>2 DEF UpdateProviderConfig, OnlyLocalsOf, LocalsKept, Goto, TypeOK
    <3>2. Local(o)
      BY DEF LocalInv
    <3>3. seen'[o] > 0 /\ config'[seen'[o]].status # "unset"
      BY <1>1, <3>1, <3>2, SeenKept DEF Local, Pending, Listing
    <3>4. Local(o)'
      BY <3>1, <3>2, <3>3 DEF Local, Pending, Listing, Building, Writing
    <3> QED BY <1>1, <3>1, <3>4, LocalOthers
  <2> QED BY <2>1, <2>2
<1>11. ASSUME NEW o \in Operators, UpdateStatus(o) PROVE LocalInv'
  <2>1. CASE Requeue(o)
    BY <1>4, <2>1 DEF Requeue
  <2>2. CASE ~Requeue(o)
    <3>1. OnlyLocalsOf(o) /\ pc'[o] = "cleanup"
      BY <1>11, <2>2 DEF UpdateStatus, OnlyLocalsOf, LocalsKept, Goto, TypeOK
    <3> QED BY <1>1, <3>1, LocalOthers, LocalIdle
  <2> QED BY <2>1, <2>2
<1>12. ASSUME NEW o \in Operators, Restart(o) PROVE LocalInv'
  <2>1. OnlyLocalsOf(o) /\ pc'[o] = "idle"
    BY <1>12 DEF Restart, OnlyLocalsOf, LocalsKept, Goto, TypeOK
  <2> QED BY <1>1, <2>1, LocalOthers, LocalIdle
<1>13. ASSUME NEW o \in Operators, InitStatus(o) \/ Cleanup(o) \/ ApiError(o) \/ Crash(o)
       PROVE  LocalInv'
  BY <1>4, <1>13 DEF InitStatus, Cleanup, ApiError, Crash, Return, Requeue
<1>14. CASE UNCHANGED vars
  BY <1>3, <1>14 DEF vars
<1> QED BY <1>3, <1>5, <1>6, <1>7, <1>8, <1>9, <1>10, <1>11, <1>12, <1>13, <1>14
         DEF Next, ReconcileStep, CleanupElsewhere, SyncConfig, SyncRegistry, LateAdd,
             Resync, SetActive, ChangeClusters, GrowOld

\* The invariant holds at the start.
LEMMA InitIInv == Init => IInv
<1> SUFFICES ASSUME Init PROVE IInv
  OBVIOUS
<1>1. MonoInv
  BY DEF Init, MonoInv
<1>2. LocalInv
  BY DEF Init, LocalInv, Local, Pending, Listing, Building, Writing
<1> QED BY <1>1, <1>2, InitType DEF IInv

\* The inductive invariant: types, accepted configs stay accepted, and what each
\* Reconcile knows of its cache and its copies.
THEOREM Invariant == Spec => []IInv
<1>1. IInv /\ [Next]_vars => IInv'
  BY NextType, NextMono, NextLocal DEF IInv
<1> QED BY <1>1, InitIInv, PTL DEF Spec

-----------------------------------------------------------------------------
\* The versions of the config implement ConfigLifecycle.

\* A write that is accepted is based on the latest version, so what Reconcile
\* knows of its copy holds of the latest version.
LEMMA AcceptedKnowsLatest ==
  ASSUME IInv, NEW o \in Operators, Accepted(o)
  PROVE  /\ pc[o] \in {"label", "init"} => Latest.status = "unset"
         /\ pc[o] \in {"contribute", "status"} => Latest.status \in {"pending", "Completed"}
         /\ pc[o] = "contribute" => built[o] \in Schemas
         /\ pc[o] = "status" => listed[o] \in 1..Len(registry)
<1>1. Local(o) /\ config[got[o]] = Latest /\ Latest \in Version /\ TypeOK
  BY AcceptedLatest, LatestVersion DEF IInv, LocalInv
<1> QED BY <1>1 DEF Local, Pending, Listing, Building, Writing, Version, Statuses, TypeOK

\* When the count says so, somebody has contributed and somebody was active.
LEMMA CountedContributors ==
  ASSUME NEW v \in Version, NEW active \in SUBSET Operators,
         ShouldMarkAsCompleted(Cardinality(active), Cardinality(Contributors(v)))
  PROVE  /\ \E o \in Operators : v.data[o] # None
         /\ active # {}
         /\ Cardinality(Contributors(v)) >= Cardinality(active)
<1>1. IsFiniteSet(Contributors(v)) /\ IsFiniteSet(active)
  BY OperatorsAssumption, FS_Subset DEF Contributors
<1>2. Cardinality(Contributors(v)) \in Nat /\ Cardinality(active) \in Nat
  BY <1>1, FS_CardinalityType
<1>3. Cardinality(active) > 0 /\ Cardinality(Contributors(v)) >= Cardinality(active)
  BY DEF ShouldMarkAsCompleted
<1>4. Contributors(v) # {} /\ active # {}
  BY <1>1, <1>2, <1>3, FS_EmptySet
<1> QED BY <1>3, <1>4 DEF Contributors

\* Every step of the system is a step of the lifecycle or leaves it alone.
LEMMA LifecycleStep ==
  IInv /\ [Next]_vars => [Lifecycle!CNext]_(Lifecycle!lifecycle)
<1> SUFFICES ASSUME IInv, [Next]_vars
             PROVE  Lifecycle!CNext \/ UNCHANGED Lifecycle!lifecycle
  OBVIOUS
<1> USE DEF Lifecycle!lifecycle
<1>1. TypeOK /\ Latest \in Version
  BY LatestVersion DEF IInv
<1>2. CASE UNCHANGED config
  BY <1>2 DEF Latest
<1>3. ASSUME NEW o \in Operators, NEW v \in Version, Writes(o, v)
      PROVE  Lifecycle!CNext \/ UNCHANGED Lifecycle!lifecycle
  <2>1. Latest' = v
    BY <1>1, <1>3, ConfigGrows DEF Writes
  <2>2. CASE v = [Latest EXCEPT !.label = TRUE]
    BY <1>1, <2>1, <2>2 DEF Version
  <2>3. CASE Accepted(o) /\ pc[o] = "init" /\ v = [Latest EXCEPT !.status = "pending"]
    <3>1. Latest.status = "unset"
      BY <2>3, AcceptedKnowsLatest
    <3> QED BY <1>1, <2>1, <2>3, <3>1 DEF Version, Lifecycle!CNext, Lifecycle!Accept
  <2>4. CASE Accepted(o) /\ pc[o] = "contribute" /\ v = [Latest EXCEPT !.data[o] = built[o]]
    <3>1. Latest.status \in {"pending", "Completed"} /\ built[o] \in Schemas
      BY <2>4, AcceptedKnowsLatest
    <3>2. Latest'.status = Latest.status /\ Latest'.data = [Latest.data EXCEPT ![o] = built[o]]
      BY <1>1, <2>1, <2>4 DEF Version
    <3> QED BY <3>1, <3>2 DEF Lifecycle!CNext, Lifecycle!Publish
  <2>5. CASE Accepted(o) /\ pc[o] = "status" /\ v = Evaluated(o, Latest)
    <3>1. Latest.status \in {"pending", "Completed"} /\ listed[o] \in 1..Len(registry)
      BY <2>5, AcceptedKnowsLatest
    <3>2. CASE v = Latest
      BY <2>1, <3>2
    <3>3. CASE v # Latest
      <4>1. /\ ShouldMarkAsCompleted(Cardinality(registry[listed[o]]),
                                     Cardinality(Contributors(Latest)))
            /\ v.status = "Completed" /\ v.data = Latest.data
        BY <2>5, <3>3 DEF Evaluated
      <4>2. registry[listed[o]] \in SUBSET Operators
        BY <1>1, <3>1 DEF TypeOK
      <4>3. \E p \in Operators : Latest.data[p] # None
        BY <1>1, <4>1, <4>2, CountedContributors
      <4> QED BY <2>1, <3>1, <4>1, <4>3 DEF Lifecycle!CNext, Lifecycle!Complete
    <3> QED BY <3>2, <3>3
  <2>6. CASE ~Deleted /\ v = [Latest EXCEPT !.status = "deleted"]
    BY <1>1, <2>1, <2>6 DEF Version, Deleted, Lifecycle!CNext, Lifecycle!Delete
  <2> QED BY <1>3, <2>2, <2>3, <2>4, <2>5, <2>6 DEF Writes
<1> QED BY <1>1, <1>2, <1>3, ConfigWriters

\* The reconcilers implement ConfigLifecycle: with any number of operators,
\* copies re-read from stale caches, crashes and failed calls, no operator's
\* entry is lost or changed by another, the status only moves forward, and a
\* completed config has a contribution.
THEOREM ImplementsLifecycle == Spec => LifecycleSpec
<1>1. Init => Lifecycle!CInit
  BY DEF Init, Lifecycle!CInit, Latest
<1> QED BY <1>1, Invariant, LifecycleStep, PTL
     DEF Spec, LifecycleSpec, Lifecycle!CSpec

-----------------------------------------------------------------------------
\* Completion.

Justified(v, j) ==
  registry[j] # {} /\ Cardinality(Contributors(v)) >= Cardinality(registry[j])

\* A completed version on top of justified ones is justified: it was counted,
\* or republishes an entry of a completed version, which loses no contributor.
LEMMA NewVersionJustified ==
  ASSUME IInv, CompletedJustified, NEW o \in Operators, NEW v \in Version, Writes(o, v),
         v.status = "Completed"
  PROVE  \E j \in 1..Len(registry) : Justified(v, j)
<1>1. TypeOK /\ Latest \in Version /\ Len(registry) \in Nat
  BY LatestVersion DEF IInv, TypeOK
<1>2. Latest.status = "Completed" => \E j \in 1..Len(registry) : Justified(Latest, j)
  BY <1>1, LatestVersion DEF CompletedJustified, Justified, Latest
<1>3. CASE \/ Accepted(o) /\ pc[o] = "label" /\ v = [Latest EXCEPT !.label = TRUE]
           \/ v = [Latest EXCEPT !.status = "pending"]
           \/ v = [Latest EXCEPT !.status = "deleted"]
  BY <1>1, <1>3, AcceptedKnowsLatest DEF Version
<1>4. CASE Accepted(o) /\ pc[o] = "contribute" /\ v = [Latest EXCEPT !.data[o] = built[o]]
  <2>1. built[o] # None
    BY <1>4, AcceptedKnowsLatest
  <2>2. Contributors(Latest) \subseteq Contributors(v)
    BY <1>1, <1>4, <2>1 DEF Contributors, Version
  <2>3. IsFiniteSet(Contributors(v))
    BY OperatorsAssumption, FS_Subset DEF Contributors
  <2>4. /\ Cardinality(Contributors(Latest)) \in Nat /\ Cardinality(Contributors(v)) \in Nat
        /\ Cardinality(Contributors(v)) >= Cardinality(Contributors(Latest))
    BY <2>2, <2>3, FS_Subset, FS_CardinalityType
  <2>5. Latest.status = "Completed"
    BY <1>1, <1>4 DEF Version
  <2>6. PICK j \in 1..Len(registry) : Justified(Latest, j)
    BY <1>2, <2>5
  <2>7. Cardinality(registry[j]) \in Nat
    BY <1>1, OperatorsAssumption, FS_Subset, FS_CardinalityType DEF TypeOK
  <2> QED BY <2>4, <2>6, <2>7 DEF Justified
<1>5. CASE Accepted(o) /\ pc[o] = "status" /\ v = Evaluated(o, Latest)
  <2>1. CASE v = Latest
    BY <1>2, <2>1
  <2>2. CASE v # Latest
    <3>1. listed[o] \in 1..Len(registry)
      BY <1>5, AcceptedKnowsLatest
    <3>2. /\ ShouldMarkAsCompleted(Cardinality(registry[listed[o]]),
                                   Cardinality(Contributors(Latest)))
          /\ v.data = Latest.data
      BY <1>5, <2>2 DEF Evaluated
    <3>3. registry[listed[o]] \in SUBSET Operators
      BY <1>1, <3>1 DEF TypeOK
    <3>4. Contributors(v) = Contributors(Latest)
      BY <3>2 DEF Contributors
    <3> QED BY <1>1, <3>1, <3>2, <3>3, <3>4, CountedContributors DEF Justified
  <2> QED BY <2>1, <2>2
<1> QED BY <1>3, <1>4, <1>5 DEF Writes

\* A config is only ever completed against a registry with active providers,
\* with at least as many contributors as it had active providers, although the
\* contributors are counted in a copy re-read from a cache.
THEOREM CompletionJustified == Spec => []CompletedJustified
<1>1. Init => CompletedJustified
  BY DEF Init, CompletedJustified
<1>2. IInv /\ CompletedJustified /\ [Next]_vars => CompletedJustified'
  <2> SUFFICES ASSUME IInv, CompletedJustified, [Next]_vars,
                      NEW i \in 1..Len(config'), config'[i].status = "Completed"
               PROVE  \E j \in 1..Len(registry') :
                        /\ registry'[j] # {}
                        /\ Cardinality(Contributors(config'[i])) >= Cardinality(registry'[j])
    BY DEF CompletedJustified, Contributors
  <2>1. /\ Len(config) \in Nat /\ Len(registry) \in Nat /\ TypeOK
        /\ Len(config') \in Nat /\ Len(registry') \in Nat
    BY NextType, SMTT(30) DEF IInv, TypeOK
  <2>2. Grows
    BY HistoriesGrow DEF IInv
  <2>3. CASE i \in 1..Len(config)
    <3>1. config'[i] = config[i]
      BY <2>2, <2>3 DEF Grows
    <3>2. PICK j \in 1..Len(registry) : Justified(config[i], j)
      BY <2>3, <3>1 DEF CompletedJustified, Justified
    <3>3. registry'[j] = registry[j] /\ j \in 1..Len(registry')
      BY <2>1, <2>2 DEF Grows
    <3> QED BY <3>1, <3>2, <3>3 DEF Justified
  <2>4. CASE i \notin 1..Len(config)
    <3>1. UNCHANGED registry
      BY <2>1, <2>4, ConfigWriters
    <3>2. PICK o \in Operators, v \in Version : Writes(o, v)
      BY <2>1, <2>4, ConfigWriters
    <3>3. i = Len(config') /\ config'[i] = v
      <4>1. /\ config' = config \/ Len(config') = Len(config) + 1
            /\ config'[Len(config')] = v
        BY <2>1, <3>2, ConfigGrows DEF Writes
      <4> QED BY <2>1, <2>4, <4>1
    <3>4. \E j \in 1..Len(registry) : Justified(v, j)
      BY <3>2, <3>3, NewVersionJustified
    <3> QED BY <3>1, <3>3, <3>4 DEF Justified
  <2> QED BY <2>3, <2>4
<1> QED BY <1>1, <1>2, Invariant, PTL DEF Spec
===========================================================================
