------------------------ MODULE TargetRequestProofs ------------------------
(***************************************************************************)
(* Proofs about TargetRequest, for any number of operators, snapshots,     *)
(* registry changes, crashes and failed calls.                             *)
(***************************************************************************)
EXTENDS TargetRequest, FiniteSetTheorems, TLAPS

\* Where Reconcile works on a pending copy, has listed the providers, is
\* about to contribute and has a snapshot.
Storing      == {"getSecret", "updateSecret", "createSecret", "regetSecret",
                 "overwriteSecret", "status"}
Contributing == Storing \cup {"discover"}
Listing      == Contributing \cup {"contributed"}
Pending      == Listing \cup {"providers"}

\* What an operator's local copies say at each step of its Reconcile.
Local(o) ==
  /\ pc[o] \in {"label", "init"} => got[o] > 0 /\ request[got[o]].status = "unset"
  /\ pc[o] \in Pending => got[o] > 0 /\ request[got[o]].status = "pending"
  /\ pc[o] \in Listing => listed[o] > 0 /\ o \in registry[listed[o]]
  /\ pc[o] = "contributed" => request[got[o]].data[o] # None
  /\ pc[o] \in Contributing => request[got[o]].data[o] = None
  /\ pc[o] \in Storing => found[o] \in Snapshots

LocalInv == \A o \in Operators : Local(o)

IInv == TypeOK /\ LocalInv

-----------------------------------------------------------------------------
USE NoneAssumption, LegacyAssumption, BoundsAssumption

\* Appending a version keeps the earlier ones and makes it the latest.
LEMMA AppendFacts ==
  ASSUME NEW S, NEW s \in Seq(S), NEW v \in S
  PROVE  /\ Append(s, v) \in Seq(S)
         /\ Append(s, v) # << >>
         /\ Len(Append(s, v)) = Len(s) + 1
         /\ \A i \in 1..Len(s) : Append(s, v)[i] = s[i]
         /\ Append(s, v)[Len(s) + 1] = v
  OBVIOUS

\* The latest version is a version.
LEMMA LatestVersion == TypeOK => Len(request) \in Nat \ {0} /\ Latest \in Version
  BY DEF TypeOK, Latest

\* Types are right at the start.
LEMMA InitType == Init => TypeOK
<1> SUFFICES ASSUME Init PROVE TypeOK
  OBVIOUS
<1>1. request \in Seq(Version) /\ request # << >> /\ Len(request) = 1
  BY DEF Init, Version, Statuses, Entries
<1>2. secret \in Secret
  BY DEF Init, Secret, NoData, Entries
<1>3. registry \in Seq(SUBSET Operators) /\ registry # << >> /\ Len(registry) = 1
  BY DEF Init
<1>4. /\ reqSeen \in [Operators -> 0..1] /\ got \in [Operators -> 0..1]
      /\ regSeen \in [Operators -> 1..1] /\ listed \in [Operators -> 0..1]
  BY DEF Init
<1>5. secSeen \in [Operators -> Views] /\ gotSec \in [Operators -> Views]
  BY DEF Init, Views
<1>6. pc \in [Operators -> Steps] /\ found \in [Operators -> Entries]
  BY DEF Init, Steps, Entries
<1>7. queued \in [Operators -> BOOLEAN] /\ old \in BOOLEAN /\ faults \in Nat
  BY DEF Init
<1> QED BY <1>1, <1>2, <1>3, <1>4, <1>5, <1>6, <1>7 DEF TypeOK

\* Writing a version of the request makes it the latest, keeps the earlier ones
\* and keeps indices into them in range.
LEMMA RequestGrows ==
  ASSUME TypeOK, NEW v \in Version, request' = Append(request, v)
  PROVE  /\ request' \in Seq(Version) /\ request' # << >>
         /\ Len(request') = Len(request) + 1
         /\ Latest' = v
         /\ \A i \in 1..Len(request) : request'[i] = request[i]
         /\ reqSeen \in [Operators -> 0..Len(request')]
         /\ got \in [Operators -> 0..Len(request')]
<1>1. request \in Seq(Version) /\ Len(request) \in Nat
  BY DEF TypeOK
<1>2. /\ request' \in Seq(Version) /\ request' # << >>
      /\ Len(request') = Len(request) + 1
      /\ request'[Len(request) + 1] = v
      /\ \A i \in 1..Len(request) : request'[i] = request[i]
  BY <1>1, AppendFacts
<1>3. 0..Len(request) \subseteq 0..Len(request')
  BY <1>1, <1>2
<1> QED BY <1>1, <1>2, <1>3 DEF TypeOK, Latest

\* The same for the registry.
LEMMA RegistryGrows ==
  ASSUME TypeOK, NEW v \in SUBSET Operators, registry' = Append(registry, v)
  PROVE  /\ registry' \in Seq(SUBSET Operators) /\ registry' # << >>
         /\ Len(registry') = Len(registry) + 1
         /\ \A i \in 1..Len(registry) : registry'[i] = registry[i]
         /\ regSeen \in [Operators -> 1..Len(registry')]
         /\ listed \in [Operators -> 0..Len(registry')]
<1>1. Len(registry) \in Nat
  BY DEF TypeOK
<1>2. /\ registry' \in Seq(SUBSET Operators) /\ registry' # << >>
      /\ Len(registry') = Len(registry) + 1
      /\ \A i \in 1..Len(registry) : registry'[i] = registry[i]
  BY AppendFacts, SMTT(30) DEF TypeOK
<1>3. 0..Len(registry) \subseteq 0..Len(registry') /\ 1..Len(registry) \subseteq 1..Len(registry')
  BY <1>1, <1>2
<1> QED BY <1>1, <1>2, <1>3 DEF TypeOK

\* Every version an operator can write is one: relabelled, with another status,
\* or with the operator's contribution.
LEMMA WrittenVersions ==
  ASSUME TypeOK, NEW o \in Operators
  PROVE  /\ [Latest EXCEPT !.label = TRUE] \in Version
         /\ \A st \in Statuses : [Latest EXCEPT !.status = st] \in Version
         /\ Contributed(o, Latest) \in Version
<1>1. Latest \in Version
  BY LatestVersion
<1>2. [Latest EXCEPT !.data[o] = found[o]] \in Version
  BY <1>1 DEF TypeOK, Version
<1>3. Contributed(o, Latest) \in Version
  BY <1>2 DEF Contributed, Version, Statuses
<1> QED BY <1>1, <1>3 DEF Version

\* Returning from Reconcile, or stopping, clears the locals.
LEMMA ClearedTypes ==
  ASSUME TypeOK, NEW o \in Operators, NEW step \in Steps, NEW n \in Nat,
         got \in [Operators -> 0..n], Goto(o, step), ClearLocals(o)
  PROVE  /\ pc' \in [Operators -> Steps]
         /\ got' \in [Operators -> 0..n]
         /\ gotSec' \in [Operators -> Views]
         /\ listed' \in [Operators -> 0..Len(registry)]
         /\ found' \in [Operators -> Entries]
<1>1. Len(registry) \in Nat
  BY DEF TypeOK
<1> QED BY <1>1 DEF TypeOK, Goto, ClearLocals, Views, Entries

\* The Secrets that are written, and the views of them, are well typed.
LEMMA SecretTypes ==
  ASSUME TypeOK, NEW o \in Operators, NEW d \in [Names -> Entries]
  PROVE  /\ SecretWith(o, d) \in Secret
         /\ NoSecret \in Secret
         /\ AllOperatorData(secret) \in [Names -> Entries]
         /\ NoData \in [Names -> Entries]
         /\ Outdated(secSeen) \in [Operators -> Views]
         /\ Outdated(gotSec) \in [Operators -> Views]
<1>1. NoData \in [Names -> Entries]
  BY DEF NoData, Entries
<1>2. AllOperatorData(secret) \in [Names -> Entries]
  BY <1>1 DEF AllOperatorData, TypeOK, Secret, Names
<1>3. SecretWith(o, d) \in Secret /\ NoSecret \in Secret
  BY <1>1 DEF SecretWith, NoSecret, Secret, TypeOK, Names, Entries
<1>4. Outdated(secSeen) \in [Operators -> Views] /\ Outdated(gotSec) \in [Operators -> Views]
  BY DEF Outdated, TypeOK, Views
<1> QED BY <1>1, <1>2, <1>3, <1>4

-----------------------------------------------------------------------------
\* Type correctness, action by action.

\* The steps that write the request keep the types.
LEMMA TypeRequestWrites ==
  ASSUME TypeOK, NEW o \in Operators,
         AddLabel(o) \/ InitStatus(o) \/ CompleteIfAll(o) \/ UpdateStatus(o)
           \/ Cleanup(o) \/ CleanupElsewhere(o)
  PROVE  TypeOK'
<1> USE DEF cacheVars, envVars
<1>1. Len(request) \in Nat /\ Len(registry) \in Nat
  BY DEF TypeOK
<1>2. ASSUME NEW v \in Version, request' = Append(request, v),
             Goto(o, "idle"), ClearLocals(o), UNCHANGED queued,
             UNCHANGED <<secret, registry, cacheVars, envVars>>
      PROVE  TypeOK'
  <2>1. got \in [Operators -> 0..Len(request')] /\ Len(request') \in Nat
    BY <1>1, <1>2, RequestGrows
  <2>2. "idle" \in Steps
    BY DEF Steps
  <2> QED BY <1>2, <2>1, <2>2, RequestGrows, ClearedTypes DEF TypeOK
<1>3. ASSUME NEW v \in Version, request' = Append(request, v), Goto(o, "cleanup"),
             UNCHANGED <<queued, got, gotSec, listed, found>>,
             UNCHANGED <<secret, registry, cacheVars, envVars>>
      PROVE  TypeOK'
  BY <1>3, RequestGrows DEF TypeOK, Goto, Steps
<1>4. ASSUME Requeue(o), UNCHANGED request,
             UNCHANGED <<secret, registry, cacheVars, envVars>>
      PROVE  TypeOK'
  <2>1. "idle" \in Steps
    BY DEF Steps
  <2> QED BY <1>1, <1>4, <2>1, ClearedTypes DEF TypeOK, Requeue
<1>5. CASE AddLabel(o)
  <2>1. CASE /\ request' = Append(request, [Latest EXCEPT !.label = TRUE])
             /\ got' = [got EXCEPT ![o] = Len(request')]
             /\ Goto(o, "init")
             /\ UNCHANGED <<queued, gotSec, listed, found>>
    <3>1. request' \in Seq(Version) /\ request' # << >> /\ Len(request') = Len(request) + 1
          /\ reqSeen \in [Operators -> 0..Len(request')]
          /\ got \in [Operators -> 0..Len(request')]
      BY <2>1, WrittenVersions, RequestGrows
    <3>2. got' \in [Operators -> 0..Len(request')]
      BY <1>1, <2>1, <3>1
    <3> QED BY <1>5, <2>1, <3>1, <3>2 DEF AddLabel, TypeOK, Goto, Steps
  <2> QED BY <1>4, <1>5, <2>1 DEF AddLabel
<1>6. CASE InitStatus(o)
  <2>1. [Latest EXCEPT !.status = "pending"] \in Version
    BY WrittenVersions DEF Statuses
  <2> QED BY <1>2, <1>4, <1>6, <2>1 DEF InitStatus, Return
<1>7. CASE CompleteIfAll(o)
  <2>1. [Latest EXCEPT !.status = "Completed"] \in Version
    BY WrittenVersions DEF Statuses
  <2>2. CASE Goto(o, "cleanup") /\ UNCHANGED <<request, queued, got, gotSec, listed, found>>
    BY <1>7, <2>2 DEF CompleteIfAll, TypeOK, Goto, Steps
  <2> QED BY <1>3, <1>4, <1>7, <2>1, <2>2 DEF CompleteIfAll
<1>8. CASE UpdateStatus(o)
  BY <1>3, <1>4, <1>8, WrittenVersions DEF UpdateStatus
<1>9. CASE Cleanup(o)
  <2>1. [Latest EXCEPT !.status = "deleted"] \in Version
    BY WrittenVersions DEF Statuses
  <2>2. CASE UNCHANGED request
    <3>1. "idle" \in Steps
      BY DEF Steps
    <3> QED BY <1>1, <1>9, <2>2, <3>1, ClearedTypes DEF Cleanup, TypeOK, Return
  <2> QED BY <1>2, <1>9, <2>1, <2>2 DEF Cleanup, DeleteIfOld, Return
<1>10. CASE CleanupElsewhere(o)
  <2>1. [Latest EXCEPT !.status = "deleted"] \in Version
    BY WrittenVersions DEF Statuses
  <2>2. CASE UNCHANGED request
    BY <1>10, <2>2 DEF CleanupElsewhere, TypeOK, localVars
  <2>3. CASE request' = Append(request, [Latest EXCEPT !.status = "deleted"])
    BY <1>10, <2>1, <2>3, RequestGrows DEF CleanupElsewhere, TypeOK, localVars
  <2> QED BY <1>10, <2>2, <2>3 DEF CleanupElsewhere, DeleteIfOld
<1> QED BY <1>5, <1>6, <1>7, <1>8, <1>9, <1>10

\* The steps that write the Secret keep the types.
LEMMA TypeSecretWrites ==
  ASSUME TypeOK, NEW o \in Operators,
         GetSecret(o) \/ UpdateSecret(o) \/ CreateSecret(o) \/ RegetSecret(o)
           \/ OverwriteSecret(o)
  PROVE  TypeOK'
<1> USE DEF cacheVars, envVars, serverVars
<1>1. Len(request) \in Nat /\ "idle" \in Steps /\ NoData \in [Names -> Entries]
  BY DEF TypeOK, Steps, NoData, Entries
<1>2. ASSUME Requeue(o), UNCHANGED <<serverVars, cacheVars, envVars>>
      PROVE  TypeOK'
  BY <1>1, <1>2, ClearedTypes DEF TypeOK, Requeue
<1>3. ASSUME NEW d \in [Names -> Entries], PutSecret(SecretWith(o, d)),
             OutdateCopies(o, SecretWith(o, d)), Goto(o, "status"),
             UNCHANGED <<queued, got, listed, found>>,
             UNCHANGED <<request, registry, reqSeen, regSeen, envVars>>
      PROVE  TypeOK'
  <2>1. secret' \in Secret /\ secSeen' \in [Operators -> Views]
    BY <1>3, SecretTypes DEF PutSecret, TypeOK
  <2>2. gotSec' \in [Operators -> Views]
    BY <1>3, SecretTypes DEF OutdateCopies, TypeOK, Views
  <2>3. pc' \in [Operators -> Steps]
    BY <1>3 DEF TypeOK, Goto, Steps
  <2> QED BY <1>3, <2>1, <2>2, <2>3 DEF TypeOK
<1>4. CASE GetSecret(o)
  <2>1. pc' \in [Operators -> Steps] /\ gotSec' \in [Operators -> Views]
    BY <1>4 DEF GetSecret, TypeOK, Goto, Steps
  <2> QED BY <1>4, <2>1 DEF GetSecret, TypeOK
<1>5. CASE UpdateSecret(o)
  BY <1>2, <1>3, <1>5, SecretTypes, <1>1 DEF UpdateSecret
<1>6. CASE CreateSecret(o)
  <2>1. CASE Goto(o, "regetSecret") /\ UNCHANGED <<secret, secSeen, gotSec>>
    BY <1>6, <2>1 DEF CreateSecret, TypeOK, Goto, Steps
  <2> QED BY <1>1, <1>3, <1>6, <2>1 DEF CreateSecret
<1>7. CASE RegetSecret(o)
  <2>1. CASE gotSec' = [gotSec EXCEPT ![o] = secSeen[o]] /\ Goto(o, "overwriteSecret")
             /\ UNCHANGED <<queued, got, listed, found>>
    <3>1. pc' \in [Operators -> Steps] /\ gotSec' \in [Operators -> Views]
      BY <2>1 DEF TypeOK, Goto, Steps
    <3> QED BY <1>7, <2>1, <3>1 DEF RegetSecret, TypeOK
  <2> QED BY <1>2, <1>7, <2>1 DEF RegetSecret
<1>8. CASE OverwriteSecret(o)
  BY <1>1, <1>2, <1>3, <1>8 DEF OverwriteSecret
<1> QED BY <1>4, <1>5, <1>6, <1>7, <1>8

\* The steps that only read, and those of the informers and the environment,
\* keep the types.
LEMMA TypeLocalSteps ==
  ASSUME TypeOK, NEW o \in Operators,
         Begin(o) \/ CheckProviderActive(o) \/ Discover(o) \/ ApiError(o)
           \/ SyncRequest(o) \/ SyncSecret(o) \/ SyncRegistry(o) \/ LateAdd(o) \/ Resync(o)
           \/ Crash(o) \/ Restart(o)
  PROVE  TypeOK'
<1> USE DEF cacheVars, envVars, serverVars, localVars
<1>1. /\ Len(request) \in Nat /\ Len(registry) \in Nat /\ Len(registry) > 0
      /\ "idle" \in Steps /\ "down" \in Steps
  BY DEF TypeOK, Steps
<1>2. CASE Begin(o)
  BY <1>2 DEF Begin, TypeOK, Goto, Steps
<1>3. CASE CheckProviderActive(o)
  <2>1. CASE Return(o)
    BY <1>1, <1>3, <2>1, ClearedTypes DEF CheckProviderActive, TypeOK, Return
  <2>2. CASE /\ listed' = [listed EXCEPT ![o] = regSeen[o]]
             /\ Goto(o, IF request[got[o]].data[o] # None THEN "contributed" ELSE "discover")
             /\ UNCHANGED <<queued, got, gotSec, found>>
    <3>1. listed' \in [Operators -> 0..Len(registry)] /\ pc' \in [Operators -> Steps]
      BY <1>1, <2>2 DEF TypeOK, Goto, Steps
    <3> QED BY <1>3, <2>2, <3>1 DEF CheckProviderActive, TypeOK
  <2> QED BY <1>3, <2>1, <2>2 DEF CheckProviderActive
<1>4. CASE Discover(o)
  BY <1>4 DEF Discover, TypeOK, Goto, Steps, Entries
<1>5. CASE ApiError(o)
  BY <1>1, <1>5, ClearedTypes, SMTT(30) DEF ApiError, TypeOK, Requeue
<1>6. CASE SyncRequest(o)
  <2>1. reqSeen' \in [Operators -> 0..Len(request)]
    BY <1>1, <1>6 DEF SyncRequest, TypeOK
  <2> QED BY <1>6, <2>1 DEF SyncRequest, TypeOK
<1>7. CASE SyncSecret(o)
  BY <1>7 DEF SyncSecret, TypeOK, Views
<1>8. CASE SyncRegistry(o)
  <2>1. regSeen' \in [Operators -> 1..Len(registry)]
    BY <1>1, <1>8 DEF SyncRegistry, TypeOK
  <2> QED BY <1>8, <2>1 DEF SyncRegistry, TypeOK
<1>9. CASE LateAdd(o) \/ Resync(o)
  BY <1>9 DEF LateAdd, Resync, TypeOK
<1>10. CASE Crash(o)
  BY <1>1, <1>10, ClearedTypes, SMTT(30) DEF Crash, TypeOK
<1>11. CASE Restart(o)
  <2>1. /\ reqSeen' \in [Operators -> 0..Len(request)]
        /\ regSeen' \in [Operators -> 1..Len(registry)]
    BY <1>1, <1>11 DEF Restart, TypeOK
  <2>2. secSeen' \in [Operators -> Views] /\ pc' \in [Operators -> Steps]
    BY <1>1, <1>11 DEF Restart, TypeOK, Views, Goto
  <2>3. queued' \in [Operators -> BOOLEAN]
    BY <1>11 DEF Restart, TypeOK, Deleted
  <2> QED BY <1>11, <2>1, <2>2, <2>3 DEF Restart, TypeOK
<1> QED BY <1>2, <1>3, <1>4, <1>5, <1>6, <1>7, <1>8, <1>9, <1>10, <1>11

\* Every step keeps the types.
LEMMA NextType == TypeOK /\ [Next]_vars => TypeOK'
<1> SUFFICES ASSUME TypeOK, [Next]_vars PROVE TypeOK'
  OBVIOUS
<1> USE DEF cacheVars, envVars, serverVars, localVars
<1>1. ASSUME NEW o \in Operators, SetActive(o) PROVE TypeOK'
  <2>1. Active \subseteq Operators
    BY DEF Active, TypeOK
  <2>2. (IF o \in Active THEN Active \ {o} ELSE Active \cup {o}) \in SUBSET Operators
    BY <2>1
  <2> QED BY <1>1, <2>2, RegistryGrows DEF SetActive, TypeOK
<1>2. CASE GrowOld
  BY <1>2 DEF GrowOld, TypeOK
<1>3. CASE CollectSecret
  <2>1. secret' \in Secret /\ secSeen' \in [Operators -> Views] /\ gotSec' \in [Operators -> Views]
    BY <1>3 DEF CollectSecret, PutSecret, TypeOK, Outdated, Views, NoSecret, Secret, NoData, Entries
  <2> QED BY <1>3, <2>1 DEF CollectSecret, TypeOK
<1>4. CASE UNCHANGED vars
  BY <1>4 DEF vars, TypeOK
<1> QED BY <1>1, <1>2, <1>3, <1>4, TypeRequestWrites, TypeSecretWrites, TypeLocalSteps
         DEF Next, ReconcileStep

\* Every variable of TargetRequest keeps its type; caches and local copies always
\* name versions that exist.
THEOREM TypeCorrect == Spec => []TypeOK
  BY InitType, NextType, PTL DEF Spec

-----------------------------------------------------------------------------
\* What Reconcile knows of the request it works on.

\* Versions once written stay: the histories only grow.
Grows ==
  /\ Len(request') >= Len(request) /\ Len(registry') >= Len(registry)
  /\ \A i \in 1..Len(request) : request'[i] = request[i]
  /\ \A i \in 1..Len(registry) : registry'[i] = registry[i]

\* No step of the system changes a version that has been written.
LEMMA HistoriesGrow == TypeOK /\ [Next]_vars => Grows
<1> SUFFICES ASSUME TypeOK, [Next]_vars PROVE Grows
  OBVIOUS
<1>1. Len(request) \in Nat /\ Len(registry) \in Nat
  BY DEF TypeOK
<1>2. ASSUME NEW v \in Version, request' = Append(request, v), UNCHANGED registry
      PROVE  Grows
  BY <1>1, <1>2, RequestGrows DEF Grows
<1>3. ASSUME UNCHANGED <<request, registry>> PROVE Grows
  BY <1>1, <1>3 DEF Grows
<1>4. ASSUME NEW o \in Operators, SetActive(o) PROVE Grows
  <2>1. Active \subseteq Operators
    BY DEF Active, TypeOK
  <2>2. (IF o \in Active THEN Active \ {o} ELSE Active \cup {o}) \in SUBSET Operators
    BY <2>1
  <2> QED BY <1>1, <1>4, <2>2, RegistryGrows DEF SetActive, Grows
<1>5. ASSUME NEW o \in Operators,
             AddLabel(o) \/ InitStatus(o) \/ CompleteIfAll(o) \/ UpdateStatus(o)
               \/ Cleanup(o) \/ CleanupElsewhere(o)
      PROVE  Grows
  <2>1. /\ [Latest EXCEPT !.label = TRUE] \in Version
        /\ [Latest EXCEPT !.status = "pending"] \in Version
        /\ [Latest EXCEPT !.status = "Completed"] \in Version
        /\ [Latest EXCEPT !.status = "deleted"] \in Version
        /\ Contributed(o, Latest) \in Version
    BY WrittenVersions DEF Statuses
  <2> QED BY <1>2, <1>3, <1>5, <2>1 DEF AddLabel, InitStatus, CompleteIfAll, UpdateStatus,
                Cleanup, CleanupElsewhere, DeleteIfOld
<1> QED BY <1>3, <1>4, <1>5
         DEF Next, ReconcileStep, Begin, CheckProviderActive, Discover, GetSecret,
             UpdateSecret, CreateSecret, RegetSecret, OverwriteSecret, ApiError,
             SyncRequest, SyncSecret, SyncRegistry, LateAdd, Resync, Crash, Restart,
             GrowOld, CollectSecret, serverVars, vars

\* What an operator knows stays true while it does nothing.
LEMMA LocalKept ==
  ASSUME TypeOK, Grows, NEW o \in Operators, Local(o),
         pc'[o] = pc[o], got'[o] = got[o], listed'[o] = listed[o], found'[o] = found[o]
  PROVE  Local(o)'
<1>1. /\ Len(request) \in Nat /\ Len(registry) \in Nat
      /\ got[o] \in 0..Len(request) /\ listed[o] \in 0..Len(registry)
  BY DEF TypeOK
<1>2. got[o] > 0 => request'[got[o]] = request[got[o]]
  BY <1>1 DEF Grows
<1>3. listed[o] > 0 => registry'[listed[o]] = registry[listed[o]]
  BY <1>1 DEF Grows
<1> QED BY <1>2, <1>3 DEF Local, Pending, Listing, Contributing, Storing

\* A step of one operator leaves the locals of the others alone.
OnlyLocalsOf(o) ==
  \A p \in Operators \ {o} :
    pc'[p] = pc[p] /\ got'[p] = got[p] /\ listed'[p] = listed[p] /\ found'[p] = found[p]

\* Hence it is enough to look at the operator that takes the step.
LEMMA LocalOthers ==
  ASSUME TypeOK, LocalInv, Grows, NEW o \in Operators, OnlyLocalsOf(o), Local(o)'
  PROVE  LocalInv'
<1>1. \A p \in Operators \ {o} : Local(p)'
  BY LocalKept DEF LocalInv, OnlyLocalsOf
<1> QED BY <1>1 DEF LocalInv

\* An operator that is idle or down knows nothing.
LEMMA LocalIdle ==
  ASSUME NEW o \in Operators, pc'[o] \in {"idle", "down", "cleanup"}
  PROVE  Local(o)'
  BY DEF Local, Pending, Listing, Contributing, Storing

\* The local facts hold at the start and are kept by every step.
LEMMA InitLocal == Init => LocalInv
  BY DEF Init, LocalInv, Local, Pending, Listing, Contributing, Storing

\* Every step keeps the local facts.
LEMMA NextLocal == TypeOK /\ LocalInv /\ [Next]_vars => LocalInv'
<1> SUFFICES ASSUME TypeOK, LocalInv, [Next]_vars PROVE LocalInv'
  OBVIOUS
<1> USE DEF cacheVars, envVars, serverVars, localVars
<1>1. Grows
  BY HistoriesGrow
<1>2. Len(request) \in Nat /\ Len(registry) \in Nat
  BY DEF TypeOK
<1>3. ASSUME UNCHANGED <<pc, got, listed, found>> PROVE LocalInv'
  BY <1>1, <1>3, LocalKept DEF LocalInv
<1>4. ASSUME NEW o \in Operators, ClearLocals(o), NEW step \in {"idle", "down"}, Goto(o, step)
      PROVE  LocalInv'
  <2>1. OnlyLocalsOf(o) /\ pc'[o] = step
    BY <1>4 DEF OnlyLocalsOf, ClearLocals, Goto, TypeOK
  <2> QED BY <1>1, <2>1, LocalOthers, LocalIdle
<1>5. ASSUME NEW o \in Operators, Goto(o, "cleanup"), UNCHANGED <<got, listed, found>>
      PROVE  LocalInv'
  <2>1. OnlyLocalsOf(o) /\ pc'[o] = "cleanup"
    BY <1>5 DEF OnlyLocalsOf, Goto, TypeOK
  <2> QED BY <1>1, <2>1, LocalOthers, LocalIdle
<1>6. ASSUME NEW o \in Operators, pc[o] \in Storing, NEW step \in Storing, Goto(o, step),
             UNCHANGED <<got, listed, found>>
      PROVE  LocalInv'
  <2>1. OnlyLocalsOf(o) /\ pc'[o] = step
    BY <1>6 DEF OnlyLocalsOf, Goto, TypeOK
  <2>2. got[o] > 0 => request'[got[o]] = request[got[o]]
    BY <1>1, <1>2 DEF Grows, TypeOK
  <2>3. listed[o] > 0 => registry'[listed[o]] = registry[listed[o]]
    BY <1>1, <1>2 DEF Grows, TypeOK
  <2>4. Local(o)
    BY DEF LocalInv
  <2>5. Local(o)'
    BY <1>6, <2>1, <2>2, <2>3, <2>4 DEF Local, Pending, Listing, Contributing, Storing
  <2> QED BY <1>1, <2>1, <2>5, LocalOthers
<1>7. ASSUME NEW o \in Operators, Begin(o) PROVE LocalInv'
  <2>1. CASE UNCHANGED <<pc, got>>
    BY <1>3, <1>7, <2>1 DEF Begin
  <2>2. CASE /\ reqSeen[o] > 0 /\ request[reqSeen[o]].status = "unset"
             /\ Goto(o, IF request[reqSeen[o]].label THEN "init" ELSE "label")
             /\ got' = [got EXCEPT ![o] = reqSeen[o]]
    <3>1. OnlyLocalsOf(o) /\ pc'[o] \in {"init", "label"} /\ got'[o] = reqSeen[o]
      BY <1>7, <2>2 DEF Begin, OnlyLocalsOf, Goto, TypeOK
    <3>2. Local(o)'
      BY <1>7, <2>2, <3>1 DEF Begin, Local, Pending, Listing, Contributing, Storing
    <3> QED BY <1>1, <3>1, <3>2, LocalOthers
  <2>3. CASE /\ reqSeen[o] > 0 /\ request[reqSeen[o]].status = "pending"
             /\ Goto(o, "providers")
             /\ got' = [got EXCEPT ![o] = reqSeen[o]]
    <3>1. OnlyLocalsOf(o) /\ pc'[o] = "providers" /\ got'[o] = reqSeen[o]
      BY <1>7, <2>3 DEF Begin, OnlyLocalsOf, Goto, TypeOK
    <3>2. Local(o)'
      BY <1>7, <2>3, <3>1 DEF Begin, Local, Pending, Listing, Contributing, Storing
    <3> QED BY <1>1, <3>1, <3>2, LocalOthers
  <2> QED BY <1>7, <2>1, <2>2, <2>3 DEF Begin
<1>8. ASSUME NEW o \in Operators, AddLabel(o) PROVE LocalInv'
  <2>1. CASE /\ Accepted(o)
             /\ request' = Append(request, [Latest EXCEPT !.label = TRUE])
             /\ got' = [got EXCEPT ![o] = Len(request')]
             /\ Goto(o, "init")
             /\ UNCHANGED <<queued, gotSec, listed, found>>
    <3>1. OnlyLocalsOf(o) /\ pc'[o] = "init" /\ got'[o] = Len(request')
      BY <2>1 DEF OnlyLocalsOf, Goto, TypeOK
    <3>2. Len(request') > 0 /\ request'[Len(request')] = [Latest EXCEPT !.label = TRUE]
      BY <1>2, <2>1, WrittenVersions, RequestGrows DEF Latest
    <3>3. Latest.status = "unset"
      BY <1>8, <2>1 DEF AddLabel, LocalInv, Local, Accepted, Latest
    <3>4. request'[got'[o]].status = "unset"
      BY <3>1, <3>2, <3>3, LatestVersion DEF Version
    <3>5. Local(o)'
      BY <3>1, <3>2, <3>4 DEF Local, Pending, Listing, Contributing, Storing
    <3> QED BY <1>1, <3>1, <3>5, LocalOthers
  <2> QED BY <1>4, <1>8, <2>1 DEF AddLabel, Requeue
<1>9. ASSUME NEW o \in Operators, CheckProviderActive(o) PROVE LocalInv'
  <2>1. CASE Return(o)
    BY <1>4, <2>1 DEF Return
  <2>2. CASE /\ o \in registry[regSeen[o]]
             /\ listed' = [listed EXCEPT ![o] = regSeen[o]]
             /\ Goto(o, IF request[got[o]].data[o] # None THEN "contributed" ELSE "discover")
             /\ UNCHANGED <<queued, got, gotSec, found>>
    <3>1. /\ OnlyLocalsOf(o) /\ listed'[o] = regSeen[o] /\ got'[o] = got[o]
          /\ pc'[o] = IF request[got[o]].data[o] # None THEN "contributed" ELSE "discover"
      BY <2>2 DEF OnlyLocalsOf, Goto, TypeOK
    <3>2. regSeen[o] > 0 /\ UNCHANGED <<request, registry>>
      BY <1>2, <1>9 DEF CheckProviderActive, TypeOK
    <3>3. got[o] > 0 /\ request[got[o]].status = "pending"
      BY <1>9 DEF CheckProviderActive, LocalInv, Local, Pending
    <3>4. Local(o)'
      BY <2>2, <3>1, <3>2, <3>3 DEF Local, Pending, Listing, Contributing, Storing
    <3> QED BY <1>1, <3>1, <3>4, LocalOthers
  <2> QED BY <1>9, <2>1, <2>2 DEF CheckProviderActive
<1>10. ASSUME NEW o \in Operators, Discover(o) PROVE LocalInv'
  <2>1. /\ OnlyLocalsOf(o) /\ pc'[o] = "getSecret" /\ found'[o] \in Snapshots
        /\ UNCHANGED <<request, registry, got, listed>>
    BY <1>10 DEF Discover, OnlyLocalsOf, Goto, TypeOK
  <2>2. Local(o) /\ pc[o] = "discover"
    BY <1>10 DEF Discover, LocalInv
  <2>3. Local(o)'
    BY <2>1, <2>2 DEF Local, Pending, Listing, Contributing, Storing
  <2> QED BY <1>1, <2>1, <2>3, LocalOthers
<1>11. ASSUME NEW o \in Operators, Restart(o) PROVE LocalInv'
  <2>1. OnlyLocalsOf(o) /\ pc'[o] = "idle"
    BY <1>11 DEF Restart, OnlyLocalsOf, Goto, TypeOK
  <2> QED BY <1>1, <2>1, LocalOthers, LocalIdle
<1>12. ASSUME NEW o \in Operators,
              InitStatus(o) \/ CompleteIfAll(o) \/ UpdateStatus(o) \/ Cleanup(o)
                \/ ApiError(o) \/ Crash(o)
       PROVE  LocalInv'
  BY <1>4, <1>5, <1>12 DEF InitStatus, CompleteIfAll, UpdateStatus, Cleanup, ApiError,
                           Crash, Return, Requeue
<1>13. ASSUME NEW o \in Operators,
              GetSecret(o) \/ UpdateSecret(o) \/ CreateSecret(o) \/ RegetSecret(o)
                \/ OverwriteSecret(o)
       PROVE  LocalInv'
  BY <1>4, <1>6, <1>13 DEF GetSecret, UpdateSecret, CreateSecret, RegetSecret,
                           OverwriteSecret, Requeue, Storing
<1>14. CASE UNCHANGED vars
  BY <1>3, <1>14 DEF vars
<1> QED BY <1>3, <1>7, <1>8, <1>9, <1>10, <1>11, <1>12, <1>13, <1>14
         DEF Next, ReconcileStep, CleanupElsewhere, SyncRequest, SyncSecret, SyncRegistry,
             LateAdd, Resync, SetActive, GrowOld, CollectSecret

\* The inductive invariant: types, and what each Reconcile knows of its copies.
THEOREM Invariant == Spec => []IInv
<1>1. Init => IInv
  BY InitType, InitLocal DEF IInv
<1>2. IInv /\ [Next]_vars => IInv'
  BY NextType, NextLocal DEF IInv
<1> QED BY <1>1, <1>2, PTL DEF Spec

-----------------------------------------------------------------------------
\* The versions of the request implement RequestLifecycle.

\* A write that is accepted is based on the latest version, so what Reconcile
\* knows of its copy holds of the latest version.
LEMMA AcceptedKnowsLatest ==
  ASSUME IInv, NEW o \in Operators, Accepted(o)
  PROVE  /\ pc[o] \in {"label", "init"} => Latest.status = "unset"
         /\ pc[o] \in {"contributed", "status"} => Latest.status = "pending"
         /\ pc[o] = "contributed" => Latest.data[o] # None
         /\ pc[o] = "status" => Latest.data[o] = None /\ found[o] \in Snapshots
<1>1. Local(o) /\ request[got[o]] = Latest
  BY DEF IInv, LocalInv, Accepted, Latest
<1> QED BY <1>1 DEF Local, Pending, Listing, Contributing, Storing

\* Every step of the system is a step of the lifecycle or leaves it alone.
LEMMA LifecycleStep ==
  IInv /\ [Next]_vars => [Lifecycle!LNext]_(Lifecycle!lifecycle)
<1> SUFFICES ASSUME IInv, [Next]_vars
             PROVE  Lifecycle!LNext \/ UNCHANGED Lifecycle!lifecycle
  OBVIOUS
<1> USE DEF Lifecycle!lifecycle
<1>1. TypeOK /\ Latest \in Version
  BY LatestVersion DEF IInv
<1>2. ASSUME UNCHANGED request PROVE UNCHANGED Lifecycle!lifecycle
  BY <1>2 DEF Latest
<1>3. ASSUME NEW o \in Operators, DeleteIfOld(o)
      PROVE  Lifecycle!LNext \/ UNCHANGED Lifecycle!lifecycle
  <2>1. [Latest EXCEPT !.status = "deleted"] \in Version
    BY <1>1, WrittenVersions DEF Statuses
  <2>2. CASE request' = Append(request, [Latest EXCEPT !.status = "deleted"]) /\ ~Deleted
    <3>1. Latest' = [Latest EXCEPT !.status = "deleted"]
      BY <1>1, <2>1, <2>2, RequestGrows
    <3>2. Latest'.status = "deleted" /\ Latest'.data = Latest.data
      BY <1>1, <3>1 DEF Version
    <3> QED BY <2>2, <3>2 DEF Lifecycle!LNext, Lifecycle!Delete, Deleted
  <2> QED BY <1>2, <1>3, <2>2 DEF DeleteIfOld
<1>4. ASSUME NEW o \in Operators, AddLabel(o)
      PROVE  Lifecycle!LNext \/ UNCHANGED Lifecycle!lifecycle
  <2>1. CASE request' = Append(request, [Latest EXCEPT !.label = TRUE])
    <3>1. Latest' = [Latest EXCEPT !.label = TRUE]
      BY <1>1, <2>1, WrittenVersions, RequestGrows
    <3> QED BY <1>1, <3>1 DEF Version
  <2> QED BY <1>2, <1>4, <2>1 DEF AddLabel
<1>5. ASSUME NEW o \in Operators, InitStatus(o)
      PROVE  Lifecycle!LNext \/ UNCHANGED Lifecycle!lifecycle
  <2>1. CASE Accepted(o) /\ request' = Append(request, [Latest EXCEPT !.status = "pending"])
    <3>1. Latest' = [Latest EXCEPT !.status = "pending"]
      BY <1>1, <2>1, WrittenVersions, RequestGrows DEF Statuses
    <3>2. Latest.status = "unset"
      BY <1>5, <2>1, AcceptedKnowsLatest DEF InitStatus
    <3> QED BY <1>1, <3>1, <3>2 DEF Version, Lifecycle!LNext, Lifecycle!Accept
  <2> QED BY <1>2, <1>5, <2>1 DEF InitStatus
<1>6. ASSUME NEW o \in Operators, CompleteIfAll(o)
      PROVE  Lifecycle!LNext \/ UNCHANGED Lifecycle!lifecycle
  <2>1. CASE Accepted(o) /\ request' = Append(request, [Latest EXCEPT !.status = "Completed"])
    <3>1. Latest' = [Latest EXCEPT !.status = "Completed"]
      BY <1>1, <2>1, WrittenVersions, RequestGrows DEF Statuses
    <3>2. Latest.status = "pending" /\ Latest.data[o] # None
      BY <1>6, <2>1, AcceptedKnowsLatest DEF CompleteIfAll
    <3> QED BY <1>1, <3>1, <3>2 DEF Version, Lifecycle!LNext, Lifecycle!Complete
  <2> QED BY <1>2, <1>6, <2>1 DEF CompleteIfAll
<1>7. ASSUME NEW o \in Operators, UpdateStatus(o)
      PROVE  Lifecycle!LNext \/ UNCHANGED Lifecycle!lifecycle
  <2>1. CASE Accepted(o) /\ request' = Append(request, Contributed(o, Latest))
    <3>1. Latest' = Contributed(o, Latest)
      BY <1>1, <2>1, WrittenVersions, RequestGrows
    <3>2. Latest.status = "pending" /\ Latest.data[o] = None /\ found[o] \in Snapshots
      BY <1>7, <2>1, AcceptedKnowsLatest DEF UpdateStatus
    <3>3. /\ Latest'.data = [Latest.data EXCEPT ![o] = found[o]]
          /\ Latest'.status \in {"pending", "Completed"}
      BY <1>1, <3>1, <3>2 DEF Contributed, Version
    <3> QED BY <3>2, <3>3 DEF Lifecycle!LNext, Lifecycle!Contribute
  <2> QED BY <1>2, <1>7, <2>1 DEF UpdateStatus
<1>8. CASE \E o \in Operators : Cleanup(o) \/ CleanupElsewhere(o)
  BY <1>3, <1>8 DEF Cleanup, CleanupElsewhere
<1> QED BY <1>2, <1>4, <1>5, <1>6, <1>7, <1>8
         DEF Next, ReconcileStep, Begin, CheckProviderActive, Discover, GetSecret,
             UpdateSecret, CreateSecret, RegetSecret, OverwriteSecret, ApiError,
             SyncRequest, SyncSecret, SyncRegistry, LateAdd, Resync, SetActive, Crash,
             Restart, GrowOld, CollectSecret, serverVars, vars

\* The reconcilers implement RequestLifecycle: with any number of operators,
\* stale caches, crashes and failed calls, no contribution is lost, changed or
\* made twice, and the status of the request only moves forward.
THEOREM ImplementsLifecycle == Spec => LifecycleSpec
<1>1. Init => Lifecycle!LInit
  BY DEF Init, Lifecycle!LInit, Latest
<1> QED BY <1>1, Invariant, LifecycleStep, PTL
     DEF Spec, LifecycleSpec, Lifecycle!LSpec

-----------------------------------------------------------------------------
\* Completion.

Justified(v, j) ==
  registry[j] # {} /\ Cardinality(Contributors(v)) >= Cardinality(registry[j])

\* Each version an operator writes is justified if it is completed.
LEMMA NewVersionJustified ==
  ASSUME IInv, NEW o \in Operators, NEW v \in Version,
         request' = Append(request, v), v.status = "Completed",
         AddLabel(o) \/ InitStatus(o) \/ CompleteIfAll(o) \/ UpdateStatus(o)
           \/ Cleanup(o) \/ CleanupElsewhere(o)
  PROVE  \E j \in 1..Len(registry) : Justified(v, j)
<1>1. TypeOK /\ Latest \in Version /\ Len(registry) \in Nat
  BY LatestVersion, SMTT(30) DEF IInv, TypeOK
<1>2. request # Append(request, v) /\ Latest' = v
  BY <1>1, RequestGrows DEF TypeOK
<1>3. ASSUME NEW w \in Version, request' = Append(request, w) PROVE v = w
  BY <1>1, <1>2, <1>3, RequestGrows
<1>4. CASE AddLabel(o) \/ InitStatus(o)
  <2>1. \/ Accepted(o) /\ pc[o] = "label" /\ v = [Latest EXCEPT !.label = TRUE]
        \/ Accepted(o) /\ pc[o] = "init" /\ v = [Latest EXCEPT !.status = "pending"]
    BY <1>1, <1>2, <1>3, <1>4, WrittenVersions DEF AddLabel, InitStatus, Statuses
  <2>2. v.status # "Completed"
    BY <1>1, <2>1, AcceptedKnowsLatest DEF Version
  <2> QED BY <2>2
<1>5. CASE Cleanup(o) \/ CleanupElsewhere(o)
  <2>1. v = [Latest EXCEPT !.status = "deleted"]
    BY <1>1, <1>2, <1>3, <1>5, WrittenVersions
       DEF Cleanup, CleanupElsewhere, DeleteIfOld, Statuses
  <2> QED BY <1>1, <2>1 DEF Version
<1>6. CASE CompleteIfAll(o)
  <2>1. /\ Accepted(o) /\ pc[o] = "contributed"
        /\ v = [Latest EXCEPT !.status = "Completed"]
        /\ Cardinality(Contributors(request[got[o]])) >= Cardinality(registry[listed[o]])
    BY <1>1, <1>2, <1>3, <1>6, WrittenVersions
       DEF CompleteIfAll, ShouldMarkAsCompleted, Statuses
  <2>2. Contributors(v) = Contributors(request[got[o]])
    BY <1>1, <2>1 DEF Contributors, Version, Accepted, Latest
  <2>3. listed[o] \in 1..Len(registry) /\ o \in registry[listed[o]]
    BY <1>1, <2>1 DEF IInv, LocalInv, Local, Listing, TypeOK
  <2> QED BY <2>1, <2>2, <2>3 DEF Justified
<1>7. CASE UpdateStatus(o)
  <2>1. Accepted(o) /\ pc[o] = "status" /\ v = Contributed(o, Latest)
    BY <1>1, <1>2, <1>3, <1>7, WrittenVersions DEF UpdateStatus
  <2> DEFINE w == [Latest EXCEPT !.data[o] = found[o]]
  <2>2. w \in Version /\ w.status = "pending"
    BY <1>1, <2>1, AcceptedKnowsLatest DEF Version, TypeOK
  <2>3. /\ ShouldMarkAsCompleted(Cardinality(registry[listed[o]]), Cardinality(Contributors(w)))
        /\ v = [w EXCEPT !.status = "Completed"]
    BY <2>1, <2>2 DEF Contributed
  <2>4. Contributors(v) = Contributors(w)
    BY <2>2, <2>3 DEF Contributors, Version
  <2>5. listed[o] \in 1..Len(registry) /\ o \in registry[listed[o]]
    BY <1>1, <2>1 DEF IInv, LocalInv, Local, Listing, Contributing, Storing, TypeOK
  <2> QED BY <2>3, <2>4, <2>5 DEF Justified, ShouldMarkAsCompleted
<1> QED BY <1>4, <1>5, <1>6, <1>7

\* A step of the system writes at most one version of the request, and only
\* these actions do.
LEMMA RequestWriters ==
  ASSUME IInv, [Next]_vars
  PROVE  \/ UNCHANGED request
         \/ /\ UNCHANGED registry
            /\ \E v \in Version : request' = Append(request, v)
            /\ \E o \in Operators :
                 AddLabel(o) \/ InitStatus(o) \/ CompleteIfAll(o) \/ UpdateStatus(o)
                   \/ Cleanup(o) \/ CleanupElsewhere(o)
<1>1. ASSUME NEW o \in Operators
      PROVE  /\ [Latest EXCEPT !.label = TRUE] \in Version
             /\ [Latest EXCEPT !.status = "pending"] \in Version
             /\ [Latest EXCEPT !.status = "Completed"] \in Version
             /\ [Latest EXCEPT !.status = "deleted"] \in Version
             /\ Contributed(o, Latest) \in Version
  BY <1>1, WrittenVersions DEF IInv, Statuses
<1>2. ASSUME NEW o \in Operators,
             AddLabel(o) \/ InitStatus(o) \/ CompleteIfAll(o) \/ UpdateStatus(o)
               \/ Cleanup(o) \/ CleanupElsewhere(o)
      PROVE  /\ UNCHANGED registry
             /\ UNCHANGED request \/ \E v \in Version : request' = Append(request, v)
  BY <1>1, <1>2 DEF AddLabel, InitStatus, CompleteIfAll, UpdateStatus, Cleanup,
                    CleanupElsewhere, DeleteIfOld
<1> QED BY <1>2, ZenonT(60)
         DEF Next, ReconcileStep, Begin, CheckProviderActive, Discover, GetSecret,
             UpdateSecret, CreateSecret, RegetSecret, OverwriteSecret, ApiError,
             SyncRequest, SyncSecret, SyncRegistry, LateAdd, Resync, SetActive, Crash,
             Restart, GrowOld, CollectSecret, serverVars, vars

\* A request is only ever completed against a registry with active providers,
\* with at least as many contributors as it had active providers, however stale
\* the list of providers was and however the registry changed meanwhile.
THEOREM CompletionJustified == Spec => []CompletedJustified
<1>1. Init => CompletedJustified
  BY DEF Init, CompletedJustified
<1>2. IInv /\ CompletedJustified /\ [Next]_vars => CompletedJustified'
  <2> SUFFICES ASSUME IInv, CompletedJustified, [Next]_vars,
                      NEW i \in 1..Len(request'), request'[i].status = "Completed"
               PROVE  \E j \in 1..Len(registry') :
                        /\ registry'[j] # {}
                        /\ Cardinality(Contributors(request'[i])) >= Cardinality(registry'[j])
    BY DEF CompletedJustified, Justified, Contributors
  <2>1. /\ Len(request) \in Nat /\ Len(registry) \in Nat /\ TypeOK
        /\ Len(registry') \in Nat
    BY NextType DEF IInv, TypeOK
  <2>2. Grows
    BY HistoriesGrow DEF IInv
  <2>3. CASE i \in 1..Len(request)
    <3>1. request'[i] = request[i]
      BY <2>2, <2>3 DEF Grows
    <3>2. PICK j \in 1..Len(registry) : Justified(request[i], j)
      BY <2>3, <3>1 DEF CompletedJustified, Justified
    <3>3. registry'[j] = registry[j] /\ j \in 1..Len(registry')
      BY <2>1, <2>2 DEF Grows
    <3> QED BY <3>1, <3>2, <3>3 DEF Justified
  <2>4. CASE i \notin 1..Len(request)
    <3>1. PICK v \in Version : request' = Append(request, v)
      BY <2>4, RequestWriters
    <3>2. PICK o \in Operators :
               AddLabel(o) \/ InitStatus(o) \/ CompleteIfAll(o) \/ UpdateStatus(o)
                 \/ Cleanup(o) \/ CleanupElsewhere(o)
      BY <2>4, RequestWriters
    <3>3. UNCHANGED registry
      BY <2>4, RequestWriters
    <3>4. i = Len(request) + 1 /\ request'[i] = v
      BY <2>1, <2>4, <3>1, RequestGrows DEF Latest
    <3>5. \E j \in 1..Len(registry) : Justified(v, j)
      BY <3>1, <3>2, <3>4, NewVersionJustified
    <3> QED BY <3>3, <3>4, <3>5 DEF Justified
  <2> QED BY <2>3, <2>4
<1> QED BY <1>1, <1>2, Invariant, PTL DEF Spec

-----------------------------------------------------------------------------
\* Completion and the active providers.

\* The registry starts with every operator active.
FirstRegistry == registry[1] = Operators

\* As many contributors as operators are all the operators.
LEMMA AllContributed ==
  ASSUME NEW v \in Version, Cardinality(Contributors(v)) >= Cardinality(Operators)
  PROVE  Contributors(v) = Operators
<1>1. Contributors(v) \subseteq Operators
  BY DEF Contributors
<1>2. /\ Cardinality(Operators) \in Nat /\ Cardinality(Contributors(v)) \in Nat
      /\ Cardinality(Contributors(v)) <= Cardinality(Operators)
      /\ Cardinality(Contributors(v)) = Cardinality(Operators) => Contributors(v) = Operators
  BY <1>1, OperatorsAssumption, FS_Subset, FS_CardinalityType
<1> QED BY <1>2

\* A request completed while no provider has been registered, activated or
\* deactivated has a contribution of every active provider: what the run
\* request_early_completion refutes is true as long as the registry stays as it
\* was, whatever the crashes, failed calls and stale copies of the request.
THEOREM FixedRegistryCovers == Spec /\ [](Len(registry) = 1) => CompletedCoversActive
<1> DEFINE Covers == Latest.status # "Completed" /\ Latest'.status = "Completed" =>
                       Active \subseteq Contributors(Latest')
<1>1. Init => FirstRegistry
  BY DEF Init, FirstRegistry
<1>2. IInv /\ FirstRegistry /\ [Next]_vars => FirstRegistry'
  <2> SUFFICES ASSUME IInv, FirstRegistry, [Next]_vars PROVE FirstRegistry'
    OBVIOUS
  <2>1. Grows /\ 1 \in 1..Len(registry)
    BY HistoriesGrow DEF IInv, TypeOK
  <2> QED BY <2>1 DEF Grows, FirstRegistry
<1>3. IInv /\ IInv' /\ (Len(registry) = 1)' /\ FirstRegistry' /\ CompletedJustified' => Covers
  <2> SUFFICES ASSUME Len(registry') = 1, IInv', FirstRegistry', CompletedJustified',
                      IInv, Latest'.status = "Completed"
               PROVE  Active \subseteq Contributors(Latest')
    OBVIOUS
  <2>1. Active \subseteq Operators
    BY DEF IInv, TypeOK, Active
  <2>2. Len(request') \in 1..Len(request') /\ Latest' \in Version
    BY DEF IInv, TypeOK, Latest
  <2>3. \E j \in 1..Len(registry') :
          Cardinality(Contributors(Latest')) >= Cardinality(registry'[j])
    BY <2>2 DEF CompletedJustified, Latest, Contributors
  <2>4. Cardinality(Contributors(Latest')) >= Cardinality(Operators)
    <3>1. \A j \in 1..Len(registry') : registry'[j] = Operators
      BY DEF FirstRegistry
    <3> QED BY <2>3, <3>1
  <2> QED BY <2>1, <2>2, <2>4, AllContributed
<1>4. CompletedCoversActive <=> [][Covers]_vars
  BY PTL DEF CompletedCoversActive
<1> QED BY <1>1, <1>2, <1>3, <1>4, Invariant, CompletionJustified, PTL DEF Spec

-----------------------------------------------------------------------------
\* The Secret.

\* A Secret that does not exist has no contents.
AbsentInv == ~secret.exists => secret.data = NoData /\ secret.legacy = None

\* The Secret has this operator's snapshot, or only those of others.
Stored(o) ==
  /\ secret.exists /\ secret.legacy = None
  /\ \/ secret.data[o] = found[o]
     \/ secret.data[o] = None /\ \E p \in Operators \ {o} : secret.data[p] # None

\* An operator about to publish has stored its snapshot.
StoredInv == \A o \in Operators : pc[o] = "status" /\ ~Deleted => Stored(o)

SInv == IInv /\ AbsentInv /\ StoredInv

\* Deletion is final.
LEMMA DeletedStays == IInv /\ [Next]_vars /\ Deleted => Deleted'
<1> SUFFICES ASSUME IInv, [Next]_vars, Deleted PROVE Deleted'
  OBVIOUS
<1>1. UNCHANGED request
  BY ZenonT(60) DEF Next, ReconcileStep, Begin, AddLabel, InitStatus, CheckProviderActive,
         CompleteIfAll, Discover, GetSecret, UpdateSecret, CreateSecret, RegetSecret,
         OverwriteSecret, UpdateStatus, Cleanup, CleanupElsewhere, DeleteIfOld, ApiError,
         SyncRequest, SyncSecret, SyncRegistry, LateAdd, Resync, SetActive, Crash,
         Restart, GrowOld, CollectSecret, Accepted, serverVars, vars
<1> QED BY <1>1 DEF Deleted, Latest

\* The three writes of the Secret: merged, first and overwriting; otherwise it
\* stays, or is collected after the request was deleted.
SecretStep(o) ==
  /\ pc[o] \in {"updateSecret", "createSecret", "overwriteSecret"}
  /\ pc' = [pc EXCEPT ![o] = "status"]
  /\ UNCHANGED <<request, found>>
  /\ \/ pc[o] = "updateSecret" /\ secret' = SecretWith(o, AllOperatorData(secret))
     \/ pc[o] = "createSecret" /\ ~secret.exists /\ secret' = SecretWith(o, NoData)
     \/ pc[o] = "overwriteSecret" /\ secret' = SecretWith(o, NoData)

\* The Secret is written by these actions only.
LEMMA SecretWriters ==
  ASSUME [Next]_vars
  PROVE  \/ UNCHANGED secret
         \/ Deleted /\ secret' = NoSecret
         \/ \E o \in Operators : SecretStep(o)
<1>1. ASSUME NEW o \in Operators, UpdateSecret(o) \/ CreateSecret(o) \/ OverwriteSecret(o)
      PROVE  UNCHANGED secret \/ SecretStep(o)
  BY <1>1 DEF UpdateSecret, CreateSecret, OverwriteSecret, PutSecret, SecretStep, Goto
<1>2. CASE CollectSecret
  BY <1>2 DEF CollectSecret, PutSecret
<1> QED BY <1>1, <1>2
         DEF Next, ReconcileStep, Begin, AddLabel, InitStatus, CheckProviderActive,
             CompleteIfAll, Discover, GetSecret, RegetSecret, UpdateStatus, Cleanup,
             CleanupElsewhere, ApiError, SyncRequest, SyncSecret, SyncRegistry, LateAdd,
             Resync, SetActive, Crash, Restart, GrowOld, serverVars, vars

\* An operator is at the status write only if it was there, or has just stored.
LEMMA StatusEntry ==
  ASSUME IInv, [Next]_vars, NEW o \in Operators, pc'[o] = "status"
  PROVE  \/ pc[o] = "status" /\ found'[o] = found[o]
         \/ SecretStep(o)
<1>1. pc \in [Operators -> Steps]
  BY DEF IInv, TypeOK
<1>2. ASSUME NEW p \in Operators, UpdateSecret(p) \/ CreateSecret(p) \/ OverwriteSecret(p)
      PROVE  (pc[o] = "status" /\ found'[o] = found[o]) \/ SecretStep(o)
  <2>1. CASE p = o
    BY <1>1, <1>2, <2>1 DEF UpdateSecret, CreateSecret, OverwriteSecret, PutSecret,
                            SecretStep, Goto, Requeue
  <2>2. CASE p # o
    BY <1>1, <1>2, <2>2 DEF UpdateSecret, CreateSecret, OverwriteSecret, Goto, Requeue,
                            ClearLocals, IInv, TypeOK
  <2> QED BY <2>1, <2>2
<1>3. ASSUME NEW p \in Operators,
             Begin(p) \/ AddLabel(p) \/ InitStatus(p) \/ CheckProviderActive(p)
               \/ CompleteIfAll(p) \/ Discover(p) \/ GetSecret(p) \/ RegetSecret(p)
               \/ UpdateStatus(p) \/ Cleanup(p) \/ ApiError(p) \/ Crash(p) \/ Restart(p)
      PROVE  pc[o] = "status" /\ found'[o] = found[o]
  BY <1>1, <1>3 DEF Begin, AddLabel, InitStatus, CheckProviderActive, CompleteIfAll,
        Discover, GetSecret, RegetSecret, UpdateStatus, Cleanup, ApiError, Crash, Restart,
        Goto, Return, Requeue, ClearLocals, IInv, TypeOK
<1> QED BY <1>2, <1>3
         DEF Next, ReconcileStep, CleanupElsewhere, SyncRequest, SyncSecret, SyncRegistry,
             LateAdd, Resync, SetActive, GrowOld, CollectSecret, localVars, vars

\* What each write makes of the entries.
LEMMA SecretEntries ==
  ASSUME IInv, NEW o \in Operators, SecretStep(o)
  PROVE  /\ secret'.exists /\ secret'.legacy = None
         /\ secret'.data[o] = found[o] /\ found[o] \in Snapshots /\ found[o] # None
         /\ \A n \in Names \ {o} :
              secret'.data[n] = IF pc[o] = "updateSecret" THEN AllOperatorData(secret)[n]
                                ELSE None
<1>1. found[o] \in Snapshots
  BY DEF SecretStep, IInv, LocalInv, Local, Storing
<1>2. o \in Names /\ NoData \in [Names -> Entries]
      /\ AllOperatorData(secret) \in [Names -> Entries]
  <2>1. NoData \in [Names -> Entries]
    BY DEF NoData, Entries
  <2> QED BY <2>1, SecretTypes DEF IInv, Names
<1> QED BY <1>1, <1>2 DEF SecretStep, SecretWith, NoData

\* Every step keeps the stored snapshot of an operator at its status write.
LEMMA NextSInv == SInv /\ [Next]_vars => SInv'
<1> SUFFICES ASSUME SInv, [Next]_vars PROVE SInv'
  OBVIOUS
<1>1. IInv'
  BY NextType, NextLocal DEF SInv, IInv
<1>2. AbsentInv'
  <2>1. CASE UNCHANGED secret
    BY <2>1 DEF SInv, AbsentInv
  <2>2. CASE secret' = NoSecret
    BY <2>2 DEF AbsentInv, NoSecret
  <2>3. CASE \E o \in Operators : SecretStep(o)
    BY <2>3, SecretEntries DEF SInv, AbsentInv
  <2> QED BY <2>1, <2>2, <2>3, SecretWriters
<1>3. StoredInv'
  <2> SUFFICES ASSUME NEW o \in Operators, pc'[o] = "status", ~Deleted' PROVE Stored(o)'
    BY DEF StoredInv
  <2>1. ~Deleted
    BY DeletedStays DEF SInv
  <2>2. CASE SecretStep(o)
    BY <2>2, SecretEntries DEF Stored, SInv, SecretStep
  <2>3. CASE pc[o] = "status" /\ found'[o] = found[o]
    <3>1. Stored(o)
      BY <2>1, <2>3 DEF SInv, StoredInv
    <3>2. CASE UNCHANGED secret
      BY <2>3, <3>1, <3>2 DEF Stored
    <3>3. ASSUME NEW p \in Operators, SecretStep(p) PROVE Stored(o)'
      <4>1. p # o
        BY <2>3, <3>3 DEF SecretStep
      <4>2. /\ secret'.exists /\ secret'.legacy = None
            /\ secret'.data[p] # None
            /\ secret'.data[o] = IF pc[p] = "updateSecret" THEN secret.data[o] ELSE None
        BY <3>1, <3>3, <4>1, SecretEntries DEF SInv, Stored, AllOperatorData, Names
      <4> QED BY <2>3, <3>1, <4>1, <4>2 DEF Stored
    <3> QED BY <2>1, <3>2, <3>3, SecretWriters
  <2> QED BY <2>2, <2>3, StatusEntry DEF SInv
<1> QED BY <1>1, <1>2, <1>3 DEF SInv

\* An operator about to write the status has its snapshot in the Secret.
THEOREM StoredBeforeStatus == Spec => []SInv
<1>1. Init => SInv
  <2> SUFFICES ASSUME Init PROVE SInv
    OBVIOUS
  <2>1. AbsentInv /\ StoredInv
    <3>1. PICK l \in InitialLegacy :
            secret = [exists |-> l # None, owned |-> l # None, data |-> NoData, legacy |-> l]
      BY DEF Init
    <3>2. \A o \in Operators : pc[o] = "idle"
      BY DEF Init
    <3> QED BY <3>1, <3>2 DEF AbsentInv, StoredInv
  <2> QED BY <2>1, InitType, InitLocal DEF SInv, IInv
<1> QED BY <1>1, NextSInv, PTL DEF Spec

\* When an operator's targets appear in the status, its credentials of the same
\* snapshot are in the Secret, unless another operator has overwritten it.
THEOREM PublishedIsStored == Spec => PublishesWhatItStored
<1> DEFINE A == \A o \in Operators :
                  Latest.data[o] = None /\ Latest'.data[o] # None =>
                    /\ secret.exists
                    /\ \/ secret.data[o] = Latest'.data[o]
                       \/ secret.data[o] = None /\ \E p \in Operators \ {o} : secret.data[p] # None
<1>1. SInv /\ [Next]_vars => A
  <2> SUFFICES ASSUME SInv, [Next]_vars, NEW o \in Operators,
                      Latest.data[o] = None, Latest'.data[o] # None
               PROVE  /\ secret.exists
                      /\ \/ secret.data[o] = Latest'.data[o]
                         \/ /\ secret.data[o] = None
                            /\ \E p \in Operators \ {o} : secret.data[p] # None
    BY DEF A
  <2>1. TypeOK /\ Latest \in Version
    BY LatestVersion DEF SInv, IInv
  <2>2. ASSUME NEW v \in Version, request' = Append(request, v) PROVE Latest' = v
    BY <2>1, <2>2, RequestGrows
  <2>3. request' # request
    BY DEF Latest
  <2>4. PICK p \in Operators :
               AddLabel(p) \/ InitStatus(p) \/ CompleteIfAll(p) \/ UpdateStatus(p)
                 \/ Cleanup(p) \/ CleanupElsewhere(p)
    BY <2>3, RequestWriters DEF SInv
  <2>5. CASE UpdateStatus(p)
    <3>1. Accepted(p) /\ pc[p] = "status" /\ Latest' = Contributed(p, Latest)
      BY <2>1, <2>2, <2>3, <2>5, WrittenVersions DEF UpdateStatus
    <3>2. Latest'.data = [Latest.data EXCEPT ![p] = found[p]]
      BY <2>1, <3>1 DEF Contributed, Version
    <3>3. p = o /\ Latest'.data[o] = found[o]
      BY <2>1, <3>2 DEF Version
    <3>4. Stored(o)
      BY <3>1, <3>3 DEF SInv, StoredInv, Accepted
    <3> QED BY <3>3, <3>4 DEF Stored
  <2>6. CASE ~UpdateStatus(p)
    <3>1. \/ Latest' = [Latest EXCEPT !.label = TRUE]
          \/ \E st \in Statuses : Latest' = [Latest EXCEPT !.status = st]
      BY <2>1, <2>2, <2>3, <2>4, <2>6, WrittenVersions
         DEF AddLabel, InitStatus, CompleteIfAll, Cleanup, CleanupElsewhere, DeleteIfOld,
             Statuses
    <3>2. Latest'.data = Latest.data
      BY <2>1, <3>1 DEF Version
    <3> QED BY <3>2
  <2> QED BY <2>5, <2>6
<1>2. SInv /\ [Next]_vars => [A]_vars
  BY <1>1
<1>3. Spec => [][A]_vars
  BY <1>2, StoredBeforeStatus, PTL DEF Spec
<1> QED BY <1>3 DEF PublishesWhatItStored, A

\* Merging never loses an entry of the Secret, one migrated from the old format
\* included: an entry only disappears by the overwrite after AlreadyExists, or
\* once the request has been deleted.
THEOREM MergeKeepsEntries == Spec => OnlyOverwriteLosesEntries
<1> DEFINE A == \A n \in Names :
                  AllOperatorData(secret)[n] # None /\ AllOperatorData(secret')[n] = None =>
                    Deleted \/ \E o \in Operators : pc[o] = "overwriteSecret"
<1>1. SInv /\ [Next]_vars => A
  <2> SUFFICES ASSUME SInv, [Next]_vars, NEW n \in Names,
                      AllOperatorData(secret)[n] # None, AllOperatorData(secret')[n] = None,
                      ~Deleted
               PROVE  \E o \in Operators : pc[o] = "overwriteSecret"
    BY DEF A
  <2>1. secret' # secret
    OBVIOUS
  <2>2. PICK o \in Operators : SecretStep(o)
    BY <2>1, SecretWriters
  <2>3. secret'.legacy = None /\ secret'.data[o] # None
        /\ \A m \in Names \ {o} :
              secret'.data[m] = IF pc[o] = "updateSecret" THEN AllOperatorData(secret)[m]
                                ELSE None
    BY <2>2, SecretEntries DEF SInv
  <2>4. AllOperatorData(secret')[n] = secret'.data[n]
    BY <2>3 DEF AllOperatorData
  <2>5. pc[o] # "updateSecret" /\ n # o
    BY <2>3, <2>4
  <2>6. pc[o] # "createSecret"
    <3>1. ~secret.exists => AllOperatorData(secret)[n] = None
      BY DEF SInv, AbsentInv, AllOperatorData, NoData
    <3> QED BY <2>2, <3>1 DEF SecretStep
  <2> QED BY <2>2, <2>5, <2>6 DEF SecretStep
<1>2. SInv /\ [Next]_vars => [A]_vars
  BY <1>1
<1>3. Spec => [][A]_vars
  BY <1>2, StoredBeforeStatus, PTL DEF Spec
<1> QED BY <1>3 DEF OnlyOverwriteLosesEntries, A
============================================================================
