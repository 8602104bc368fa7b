--------------------- MODULE ProviderConfigBoundProofs ---------------------
(***************************************************************************)
(* Proof that the operators of ProviderConfig do not keep each other busy: *)
(* the versions of a config are bounded, for any number of operators,      *)
(* although every version makes all of them reconcile.                     *)
(*                                                                         *)
(* The argument is one of potential.  A version is paid for by what can    *)
(* happen only once (the label, the acceptance, the deletion), by a        *)
(* completion, or by a schema that an operator had yet to publish; the     *)
(* completions are paid for by the operators that still worked on a copy   *)
(* from before the first of them.                                          *)
(***************************************************************************)
EXTENDS ProviderConfigProofs

Bit(b) == IF b THEN 1 ELSE 0

Final == {"Completed", "deleted"}

\* A config that is completed or deleted stays so, and only such a one has
\* been completed before.
FinalInv ==
  /\ \A i, j \in 1..Len(config) :
       i <= j /\ config[i].status \in Final => config[j].status \in Final
  /\ \A i \in 1..Len(config) : config[i].done > 0 => config[i].status \in Final

\* A copy that Reconcile is about to write is from its cache.
CopyInv == \A o \in Operators : pc[o] \in Writing => got[o] <= seen[o]

\* The operators that will not complete the config any more: their cache has a
\* completion, and their Reconcile did not start before it.
Spent == {o \in Operators : seen[o] > 0 /\ config[seen[o]].status \in Final /\ pc[o] \notin Pending}

\* The first completion is free, each other one is the last of some operator.
DoneInv == Latest.done <= 1 + Cardinality(Spent)

DInv == IInv /\ FinalInv /\ CopyInv /\ DoneInv

\* The operators that have built a schema that is not in the config, and those
\* whose last schema, built or published, is not the one they would build now.
Unpublished == {o \in Operators : pc[o] \in Building /\ Latest.data[o] # built[o]}
Outdated    == {o \in Operators :
                  (IF pc[o] \in Building THEN built[o] ELSE Latest.data[o]) # current[o]}

\* The versions written and those owed, against what pays for them.
Written == Len(config) + Cardinality(Unpublished) + Cardinality(Outdated)
Paid(v) == 1 + Bit(v.label) + Bit(v.status # "unset") + Bit(v.status = "deleted") + v.done
             + Cardinality(Operators)

PaidInv == Written <= Paid(Latest) + changes

-----------------------------------------------------------------------------
USE NoneAssumption, BoundsAssumption

\* Where the Reconcile of an operator goes in one step: out of the pending
\* part, or one step further in it.
Moves(o) ==
  \/ pc'[o] \notin Pending
  \/ /\ pc[o] = "idle" /\ pc'[o] = "providers"
     /\ seen[o] > 0 /\ config[seen[o]].status = "pending"
  \/ pc[o] = "providers" /\ pc'[o] = "build"
  \/ pc[o] = "build" /\ pc'[o] = "fetch" /\ built'[o] = current[o]
  \/ pc[o] = "fetch" /\ pc'[o] = "contribute" /\ built'[o] = built[o] /\ got'[o] = seen[o]
  \/ pc[o] = "contribute" /\ pc'[o] = "refetch"
  \/ pc[o] = "refetch" /\ pc'[o] = "status" /\ got'[o] = seen[o]

\* A step moves the Reconcile of one operator, or of none.
LEMMA OneMoves ==
  ASSUME TypeOK, [Next]_vars
  PROVE  \/ UNCHANGED <<pc, got, built>>
         \/ \E o \in Operators : OnlyLocalsOf(o) /\ Moves(o)
<1> USE DEF cacheVars, envVars, serverVars, localVars
<1>1. ASSUME NEW o \in Operators, ClearLocals(o), NEW step \in {"idle", "down"}, Goto(o, step)
      PROVE  OnlyLocalsOf(o) /\ Moves(o)
  BY <1>1 DEF OnlyLocalsOf, LocalsKept, Moves, ClearLocals, Goto, TypeOK,
              Pending, Listing
<1>2. ASSUME NEW o \in Operators, Begin(o)
      PROVE  UNCHANGED <<pc, got, built>> \/ (OnlyLocalsOf(o) /\ Moves(o))
  <2>1. CASE /\ seen[o] > 0 /\ config[seen[o]].status = "unset"
             /\ Goto(o, IF config[seen[o]].label THEN "init" ELSE "label")
             /\ got' = [got EXCEPT ![o] = seen[o]]
    <3>1. OnlyLocalsOf(o) /\ pc'[o] \in {"init", "label"}
      BY <1>2, <2>1 DEF Begin, OnlyLocalsOf, LocalsKept, Goto, TypeOK
    <3> QED BY <3>1 DEF Moves, Pending, Listing
  <2>2. CASE /\ seen[o] > 0 /\ config[seen[o]].status = "pending"
             /\ Goto(o, "providers")
             /\ got' = [got EXCEPT ![o] = seen[o]]
    <3>1. OnlyLocalsOf(o) /\ pc'[o] = "providers" /\ pc[o] = "idle"
      BY <1>2, <2>2 DEF Begin, OnlyLocalsOf, LocalsKept, Goto, TypeOK
    <3> QED BY <2>2, <3>1 DEF Moves
  <2> QED BY <1>2, <2>1, <2>2 DEF Begin
<1>3. ASSUME NEW o \in Operators, AddLabel(o) PROVE OnlyLocalsOf(o) /\ Moves(o)
  <2>1. CASE Requeue(o)
    BY <1>1, <2>1 DEF Requeue
  <2>2. CASE ~Requeue(o)
    <3>1. OnlyLocalsOf(o) /\ pc'[o] = "init"
      BY <1>3, <2>2 DEF AddLabel, OnlyLocalsOf, LocalsKept, Goto, TypeOK
    <3> QED BY <3>1 DEF Moves, Pending, Listing
  <2> QED BY <2>1, <2>2
<1>4. ASSUME NEW o \in Operators, CheckProviderActive(o) PROVE OnlyLocalsOf(o) /\ Moves(o)
  <2>1. CASE Return(o)
    BY <1>1, <2>1 DEF Return
  <2>2. CASE ~Return(o)
    BY <1>4, <2>2 DEF CheckProviderActive, Moves, OnlyLocalsOf, LocalsKept, Goto, TypeOK
  <2> QED BY <2>1, <2>2
<1>5. ASSUME NEW o \in Operators, BuildConfigSchema(o) PROVE OnlyLocalsOf(o) /\ Moves(o)
  BY <1>5 DEF BuildConfigSchema, Moves, OnlyLocalsOf, LocalsKept, Goto, TypeOK
<1>6. ASSUME NEW o \in Operators, GetFreshConfig(o) \/ GetUpdatedConfig(o)
      PROVE  OnlyLocalsOf(o) /\ Moves(o)
  <2>1. CASE Requeue(o)
    BY <1>1, <2>1 DEF Requeue
  <2>2. CASE ~Requeue(o)
    BY <1>6, <2>2 DEF GetFreshConfig, GetUpdatedConfig, Fetch, Moves, OnlyLocalsOf, LocalsKept,
                      Goto, TypeOK
  <2> QED BY <2>1, <2>2
<1>7. ASSUME NEW o \in Operators, UpdateProviderConfig(o) \/ UpdateStatus(o)
      PROVE  OnlyLocalsOf(o) /\ Moves(o)
  <2>1. CASE Requeue(o)
    BY <1>1, <2>1 DEF Requeue
  <2>2. CASE ~Requeue(o)
    BY <1>7, <2>2 DEF UpdateProviderConfig, UpdateStatus, Moves, OnlyLocalsOf, LocalsKept,
                      Goto, TypeOK, Pending, Listing
  <2> QED BY <2>1, <2>2
<1>8. ASSUME NEW o \in Operators, Restart(o) PROVE OnlyLocalsOf(o) /\ Moves(o)
  BY <1>8 DEF Restart, Moves, OnlyLocalsOf, LocalsKept, Goto, TypeOK, Pending, Listing
<1>9. ASSUME NEW o \in Operators, InitStatus(o) \/ Cleanup(o) \/ ApiError(o) \/ Crash(o)
      PROVE  OnlyLocalsOf(o) /\ Moves(o)
  BY <1>1, <1>9 DEF InitStatus, Cleanup, ApiError, Crash, Return, Requeue
<1> QED BY <1>2, <1>3, <1>4, <1>5, <1>6, <1>7, <1>8, <1>9
         DEF Next, ReconcileStep, CleanupElsewhere, SyncConfig, SyncRegistry, LateAdd,
             Resync, SetActive, ChangeClusters, GrowOld, vars

-----------------------------------------------------------------------------
\* Completions.

\* What is completed or deleted stays so.
LEMMA NextFinal == IInv /\ FinalInv /\ [Next]_vars => FinalInv'
<1> SUFFICES ASSUME IInv, FinalInv, [Next]_vars PROVE FinalInv'
  OBVIOUS
<1>1. /\ Len(config) \in Nat \ {0} /\ Latest \in Version /\ Latest = config[Len(config)]
      /\ TypeOK
  BY LatestVersion DEF Latest, IInv
<1>2. CASE UNCHANGED config
  BY <1>2 DEF FinalInv
<1>3. ASSUME NEW o \in Operators, NEW v \in Version, Writes(o, v) PROVE FinalInv'
  <2>1. Latest.done > 0 => Latest.status \in Final
    BY <1>1 DEF FinalInv
  <2>2. /\ Latest.status \in Final => v.status \in Final
        /\ v.done > 0 => v.status \in Final
    <3>1. CASE InitStatus(o) /\ Accepted(o) /\ pc[o] = "init" /\ v = [Latest EXCEPT !.status = "pending"]
      <4>1. Latest.status = "unset" /\ v.done = Latest.done
        BY <1>1, <3>1, AcceptedKnowsLatest DEF Version
      <4> QED BY <2>1, <4>1 DEF Final
    <3>2. CASE \/ v = [Latest EXCEPT !.label = TRUE]
               \/ v = [Latest EXCEPT !.data[o] = built[o]]
               \/ v = [Latest EXCEPT !.status = "deleted"]
      BY <1>1, <2>1, <3>2 DEF Version, Final
    <3>3. CASE v = Evaluated(o, Latest)
      BY <1>1, <2>1, <3>3 DEF Evaluated, Version, Final
    <3> QED BY <1>3, <3>1, <3>2, <3>3 DEF Writes
  <2>3. /\ Len(config') \in Nat /\ config'[Len(config')] = v
        /\ config' = config \/ Len(config') = Len(config) + 1
        /\ \A i \in 1..Len(config) : config'[i] = config[i]
    BY <1>1, <1>3, ConfigGrows DEF Writes
  <2>4. CASE config' = config
    BY <2>4 DEF FinalInv
  <2>5. CASE Len(config') = Len(config) + 1
    <3>1. ASSUME NEW i \in 1..Len(config'), NEW j \in 1..Len(config'),
                 i <= j, config'[i].status \in Final
          PROVE  config'[j].status \in Final
      <4>1. CASE j \in 1..Len(config)
        BY <1>1, <2>3, <3>1, <4>1 DEF FinalInv
      <4>2. CASE i \in 1..Len(config) /\ j = Len(config')
        <5>1. Latest.status \in Final
          BY <1>1, <2>3, <3>1, <4>2 DEF FinalInv
        <5> QED BY <2>2, <2>3, <4>2, <5>1
      <4>3. CASE i = Len(config') /\ j = Len(config')
        BY <3>1, <4>3
      <4> QED BY <1>1, <2>5, <3>1, <4>1, <4>2, <4>3
    <3>2. ASSUME NEW i \in 1..Len(config'), config'[i].done > 0
          PROVE  config'[i].status \in Final
      <4>1. CASE i \in 1..Len(config)
        BY <2>3, <3>2, <4>1 DEF FinalInv
      <4>2. CASE i = Len(config')
        BY <2>2, <2>3, <3>2, <4>2
      <4> QED BY <1>1, <2>5, <3>2, <4>1, <4>2
    <3> QED BY <3>1, <3>2 DEF FinalInv
  <2> QED BY <2>3, <2>4, <2>5
<1> QED BY <1>1, <1>2, <1>3, ConfigWriters

\* A copy about to be written was taken from the cache, which only moves on.
LEMMA NextCopy == IInv /\ CopyInv /\ [Next]_vars => CopyInv'
<1> SUFFICES ASSUME IInv, CopyInv, [Next]_vars, NEW o \in Operators, pc'[o] \in Writing
             PROVE  got'[o] <= seen'[o]
  BY DEF CopyInv
<1>1. TypeOK /\ TypeOK' /\ Grows
  BY NextType, HistoriesGrow DEF IInv
<1>2. /\ seen[o] \in Nat /\ seen'[o] \in Nat /\ got[o] \in Nat /\ got'[o] \in Nat
      /\ seen'[o] >= seen[o]
  BY <1>1 DEF TypeOK, Grows
<1>3. \/ pc'[o] = pc[o] /\ got'[o] = got[o]
      \/ got'[o] = seen[o]
  BY <1>1, OneMoves DEF Moves, OnlyLocalsOf, LocalsKept, Writing, Pending, Listing
<1> QED BY <1>2, <1>3 DEF CopyInv

\* An operator that has seen a completion and is done stays so.
LEMMA SpentGrows == ASSUME IInv, FinalInv, [Next]_vars PROVE Spent \subseteq Spent'
<1> SUFFICES ASSUME NEW o \in Spent PROVE o \in Spent'
  OBVIOUS
<1>1. TypeOK /\ TypeOK' /\ Grows /\ FinalInv'
  BY NextType, HistoriesGrow, NextFinal DEF IInv
<1>2. o \in Operators /\ seen[o] > 0 /\ config[seen[o]].status \in Final /\ pc[o] \notin Pending
  BY DEF Spent
<1>3. pc'[o] \notin Pending
  BY <1>1, <1>2, OneMoves DEF Moves, OnlyLocalsOf, LocalsKept, Pending, Listing, Final
<1>4. /\ Len(config) \in Nat /\ Len(config') \in Nat
      /\ seen[o] \in 1..Len(config) /\ seen'[o] \in 0..Len(config')
  BY <1>1, <1>2 DEF TypeOK
<1>5. /\ seen'[o] >= seen[o] /\ config'[seen[o]] = config[seen[o]]
      /\ Len(config') >= Len(config)
  BY <1>1, <1>2, <1>4 DEF Grows
<1>6. seen[o] \in 1..Len(config') /\ seen'[o] \in 1..Len(config') /\ seen[o] <= seen'[o]
  BY <1>4, <1>5
<1>7. config'[seen'[o]].status \in Final
  BY <1>1, <1>2, <1>5, <1>6 DEF FinalInv
<1> QED BY <1>2, <1>3, <1>6, <1>7 DEF Spent

\* The operators that are spent are finitely many.
LEMMA SpentCount ==
  /\ Cardinality(Spent) \in Nat /\ Cardinality(Operators) \in Nat
  /\ Cardinality(Spent) <= Cardinality(Operators)
  /\ IsFiniteSet(Spent)
<1>1. Spent \subseteq Operators
  BY DEF Spent
<1> QED BY <1>1, OperatorsAssumption, FS_Subset, FS_CardinalityType

\* Only UpdateStatus completes the config.
LEMMA Completes ==
  ASSUME TypeOK, [Next]_vars
  PROVE  \/ Latest'.done = Latest.done
         \/ /\ Latest'.done = Latest.done + 1
            /\ \E o \in Operators : UpdateStatus(o) /\ Accepted(o) /\ pc[o] = "status"
<1>1. Latest \in Version
  BY LatestVersion
<1>2. CASE UNCHANGED config
  BY <1>2 DEF Latest
<1>3. ASSUME NEW o \in Operators, NEW v \in Version, Writes(o, v)
      PROVE  \/ v.done = Latest.done
             \/ v.done = Latest.done + 1 /\ UpdateStatus(o) /\ Accepted(o) /\ pc[o] = "status"
  <2>1. CASE \/ v = [Latest EXCEPT !.label = TRUE]
             \/ v = [Latest EXCEPT !.status = "pending"]
             \/ v = [Latest EXCEPT !.data[o] = built[o]]
             \/ v = [Latest EXCEPT !.status = "deleted"]
    BY <1>1, <2>1 DEF Version
  <2>2. CASE UpdateStatus(o) /\ Accepted(o) /\ pc[o] = "status" /\ v = Evaluated(o, Latest)
    BY <1>1, <2>2 DEF Evaluated, Version
  <2> QED BY <1>3, <2>1, <2>2 DEF Writes
<1>4. ASSUME NEW o \in Operators, NEW v \in Version, Writes(o, v) PROVE Latest' = v
  BY <1>4, ConfigGrows DEF Writes
<1> QED BY <1>2, <1>3, <1>4, ConfigWriters

\* A completion after the first is the last of the operator that writes it.
LEMMA NextDone == DInv /\ [Next]_vars => DoneInv'
<1> SUFFICES ASSUME DInv, [Next]_vars PROVE DoneInv'
  OBVIOUS
<1>1. /\ IInv /\ FinalInv /\ CopyInv /\ DoneInv /\ TypeOK /\ TypeOK' /\ Latest \in Version
      /\ Len(config) \in Nat \ {0}
  BY NextType, LatestVersion DEF DInv, IInv
<1>2. Spent \subseteq Spent'
  BY <1>1, SpentGrows
<1>3. Spent' \subseteq Operators
  BY DEF Spent
<1>4. IsFiniteSet(Spent') /\ IsFiniteSet(Spent)
  BY <1>2, <1>3, OperatorsAssumption, FS_Subset
<1>5. /\ Cardinality(Spent) \in Nat /\ Cardinality(Spent') \in Nat
      /\ Cardinality(Spent) <= Cardinality(Spent')
      /\ Cardinality(Spent) = Cardinality(Spent') => Spent = Spent'
  BY <1>2, <1>4, FS_Subset, FS_CardinalityType
<1>6. Latest.done \in Nat
  BY <1>1 DEF Version
<1>7. CASE Latest'.done = Latest.done
  BY <1>1, <1>5, <1>6, <1>7 DEF DoneInv
<1>8. CASE Latest'.done = 1
  BY <1>5, <1>8 DEF DoneInv
<1>9. ASSUME Latest'.done = Latest.done + 1, Latest.done > 0, NEW o \in Operators,
             UpdateStatus(o), Accepted(o), pc[o] = "status"
      PROVE  DoneInv'
  <2>1. Latest.status \in Final
    BY <1>1, <1>9 DEF FinalInv, Latest
  <2>2. got[o] = Len(config) /\ got[o] <= seen[o] /\ seen[o] \in 0..Len(config)
    BY <1>1, <1>9 DEF Accepted, CopyInv, Writing, TypeOK
  <2>3. seen[o] > 0 /\ config[seen[o]].status \in Final
    BY <1>1, <2>1, <2>2 DEF Latest
  <2>4. o \notin Spent
    BY <1>9 DEF Spent, Pending, Listing
  <2>5. pc'[o] = "cleanup" /\ seen'[o] = seen[o]
    BY <1>1, <1>9 DEF UpdateStatus, Goto, TypeOK, cacheVars
  <2>6. config'[seen[o]] = config[seen[o]]
    BY <1>1, <2>2, <2>3, HistoriesGrow DEF Grows
  <2>7. o \in Spent'
    BY <2>3, <2>5, <2>6 DEF Spent, Pending, Listing
  <2>8. Cardinality(Spent) < Cardinality(Spent')
    BY <1>5, <2>4, <2>7
  <2> QED BY <1>1, <1>5, <1>6, <1>9, <2>8 DEF DoneInv
<1> QED BY <1>1, <1>6, <1>7, <1>8, <1>9, Completes

\* Completions are bounded: the first one, and one per operator.
LEMMA DoneInvariant == Spec => []DInv
<1>1. Init => DInv
  <2> SUFFICES ASSUME Init PROVE DInv
    OBVIOUS
  <2>1. IInv
    BY InitIInv
  <2>2. FinalInv
    BY DEF Init, FinalInv, Final
  <2>3. CopyInv
    BY DEF Init, CopyInv, Writing
  <2>4. Latest.done = 0
    BY DEF Init, Latest
  <2> QED BY <2>1, <2>2, <2>3, <2>4, SpentCount DEF DInv, DoneInv
<1>2. DInv /\ [Next]_vars => DInv'
  BY NextType, NextMono, NextLocal, NextFinal, NextCopy, NextDone DEF DInv, IInv
<1> QED BY <1>1, <1>2, PTL DEF Spec

-----------------------------------------------------------------------------
\* Versions.

\* Two finite sets that differ at most at one element.
LEMMA DifferAt ==
  ASSUME NEW S, NEW T, NEW o, IsFiniteSet(S), IsFiniteSet(T),
         \A p : p # o => (p \in S <=> p \in T)
  PROVE  /\ Cardinality(S) \in Nat /\ Cardinality(T) \in Nat
         /\ Cardinality(T) + Bit(o \in S) = Cardinality(S) + Bit(o \in T)
<1>1. Cardinality(S) \in Nat /\ Cardinality(T) \in Nat
  BY FS_CardinalityType
<1>2. CASE o \in S <=> o \in T
  <2>1. S = T
    BY <1>2
  <2> QED BY <1>1, <2>1 DEF Bit
<1>3. CASE o \in S /\ o \notin T
  <2>1. S = T \cup {o}
    BY <1>3
  <2>2. Cardinality(S) = Cardinality(T) + 1
    BY <1>3, <2>1, FS_AddElement
  <2> QED BY <1>1, <1>3, <2>2 DEF Bit
<1>4. CASE o \notin S /\ o \in T
  <2>1. T = S \cup {o}
    BY <1>4
  <2>2. Cardinality(T) = Cardinality(S) + 1
    BY <1>4, <2>1, FS_AddElement
  <2> QED BY <1>1, <1>4, <2>2 DEF Bit
<1> QED BY <1>2, <1>3, <1>4

\* What an operator owes.
Owes(o) == Bit(o \in Unpublished) + Bit(o \in Outdated)

\* The step leaves what an operator owes alone.
OwesTheSame(o) ==
  /\ o \in Unpublished <=> o \in Unpublished'
  /\ o \in Outdated <=> o \in Outdated'

\* What the operators owe changes as much as what one of them owes, if it is
\* the only one for which it changes.
LEMMA OwedChanges ==
  ASSUME NEW o \in Operators,
         \A p \in Operators \ {o} : OwesTheSame(p)
  PROVE  /\ Cardinality(Unpublished) \in Nat /\ Cardinality(Unpublished') \in Nat
         /\ Cardinality(Outdated) \in Nat /\ Cardinality(Outdated') \in Nat
         /\ Cardinality(Unpublished') + Cardinality(Outdated') + Owes(o)
              = Cardinality(Unpublished) + Cardinality(Outdated) + Owes(o)'
<1>1. /\ Unpublished \subseteq Operators /\ Unpublished' \subseteq Operators
      /\ Outdated \subseteq Operators /\ Outdated' \subseteq Operators
  BY DEF Unpublished, Outdated
<1>2. /\ IsFiniteSet(Unpublished) /\ IsFiniteSet(Unpublished')
      /\ IsFiniteSet(Outdated) /\ IsFiniteSet(Outdated')
  BY <1>1, OperatorsAssumption, FS_Subset
<1>3. /\ Cardinality(Unpublished) \in Nat /\ Cardinality(Unpublished') \in Nat
      /\ Cardinality(Unpublished') + Bit(o \in Unpublished)
           = Cardinality(Unpublished) + Bit(o \in Unpublished')
  <2>1. \A p : p # o => (p \in Unpublished <=> p \in Unpublished')
    BY <1>1 DEF OwesTheSame
  <2> QED BY <1>2, <2>1, DifferAt DEF Bit
<1>4. /\ Cardinality(Outdated) \in Nat /\ Cardinality(Outdated') \in Nat
      /\ Cardinality(Outdated') + Bit(o \in Outdated)
           = Cardinality(Outdated) + Bit(o \in Outdated')
  <2>1. \A p : p # o => (p \in Outdated <=> p \in Outdated')
    BY <1>1 DEF OwesTheSame
  <2> QED BY <1>2, <2>1, DifferAt DEF Bit
<1> QED BY <1>3, <1>4 DEF Owes, Bit

\* An operator owes the same if nothing of it changes.
LEMMA NothingChanges ==
  ASSUME NEW o \in Operators, Latest'.data[o] = Latest.data[o], current'[o] = current[o],
         pc'[o] \in Building <=> pc[o] \in Building,
         pc[o] \in Building => built'[o] = built[o]
  PROVE  OwesTheSame(o)
  BY DEF OwesTheSame, Unpublished, Outdated

\* A step that leaves the published and the current schemas alone makes nobody
\* owe more: a schema built is one that was not published, and a schema that is
\* dropped unpublished will be built again at most once.
LEMMA OwedNotMore ==
  ASSUME TypeOK, [Next]_vars, Latest'.data = Latest.data, UNCHANGED current
  PROVE  /\ Cardinality(Unpublished) \in Nat /\ Cardinality(Unpublished') \in Nat
         /\ Cardinality(Outdated) \in Nat /\ Cardinality(Outdated') \in Nat
         /\ Cardinality(Unpublished') + Cardinality(Outdated')
              <= Cardinality(Unpublished) + Cardinality(Outdated)
<1>1. CASE UNCHANGED <<pc, got, built>>
  <2>1. Unpublished' = Unpublished /\ Outdated' = Outdated
    BY <1>1 DEF Unpublished, Outdated
  <2>2. Unpublished \subseteq Operators /\ Outdated \subseteq Operators
    BY DEF Unpublished, Outdated
  <2>3. Cardinality(Unpublished) \in Nat /\ Cardinality(Outdated) \in Nat
    BY <2>2, OperatorsAssumption, FS_Subset, FS_CardinalityType
  <2> QED BY <2>1, <2>3
<1>2. ASSUME NEW o \in Operators, OnlyLocalsOf(o), Moves(o)
      PROVE  /\ Cardinality(Unpublished) \in Nat /\ Cardinality(Unpublished') \in Nat
             /\ Cardinality(Outdated) \in Nat /\ Cardinality(Outdated') \in Nat
             /\ Cardinality(Unpublished') + Cardinality(Outdated')
                  <= Cardinality(Unpublished) + Cardinality(Outdated)
  <2>1. \A p \in Operators \ {o} : OwesTheSame(p)
    BY <1>2, NothingChanges DEF OnlyLocalsOf, LocalsKept
  <2>2. \/ pc'[o] \notin Building
        \/ pc[o] \in Building /\ pc'[o] \in Building /\ built'[o] = built[o]
        \/ pc[o] \notin Building /\ pc'[o] \in Building /\ built'[o] = current[o]
    BY <1>2 DEF Moves, Building, Pending, Listing
  <2>3. Owes(o)' <= Owes(o) /\ Owes(o) \in Nat /\ Owes(o)' \in Nat
    <3>1. CASE pc'[o] \notin Building
      BY <3>1 DEF Owes, Bit, Unpublished, Outdated
    <3>2. CASE pc[o] \in Building /\ pc'[o] \in Building /\ built'[o] = built[o]
      BY <3>2 DEF Owes, Bit, Unpublished, Outdated
    <3>3. CASE pc[o] \notin Building /\ pc'[o] \in Building /\ built'[o] = current[o]
      BY <3>3 DEF Owes, Bit, Unpublished, Outdated
    <3> QED BY <2>2, <3>1, <3>2, <3>3
  <2> QED BY <2>1, <2>3, OwedChanges
<1> QED BY <1>1, <1>2, OneMoves

\* A schema that is published and was not there is no longer owed.
LEMMA OwedPublished ==
  ASSUME TypeOK, NEW o \in Operators, UpdateProviderConfig(o), Accepted(o),
         Latest' = [Latest EXCEPT !.data[o] = built[o]], Latest' # Latest
  PROVE  /\ Cardinality(Unpublished) \in Nat /\ Cardinality(Unpublished') \in Nat
         /\ Cardinality(Outdated) \in Nat /\ Cardinality(Outdated') \in Nat
         /\ Cardinality(Unpublished') + Cardinality(Outdated') + 1
              = Cardinality(Unpublished) + Cardinality(Outdated)
<1>1. Latest \in Version
  BY LatestVersion
<1>2. /\ Latest'.data[o] = built[o]
      /\ \A p \in Operators \ {o} : Latest'.data[p] = Latest.data[p]
  BY <1>1 DEF Version
<1>3. Latest.data[o] # built[o]
  BY <1>1 DEF Version
<1>4. /\ pc[o] = "contribute" /\ pc'[o] = "refetch" /\ UNCHANGED <<built, current>>
      /\ \A p \in Operators \ {o} : pc'[p] = pc[p]
  BY DEF UpdateProviderConfig, Goto, TypeOK, envVars
<1>5. \A p \in Operators \ {o} : OwesTheSame(p)
  BY <1>2, <1>4, NothingChanges
<1>6. Owes(o) = Owes(o)' + 1 /\ Owes(o)' \in Nat
  <2>1. pc[o] \in Building /\ pc'[o] \notin Building
    BY <1>4 DEF Building
  <2> QED BY <1>2, <1>3, <1>4, <2>1 DEF Owes, Bit, Unpublished, Outdated
<1> QED BY <1>5, <1>6, OwedChanges

\* When the clusters behind a schema change, its operator owes at most one more.
LEMMA OwedChanged ==
  ASSUME TypeOK, NEW o \in Operators, ChangeClusters(o)
  PROVE  /\ Cardinality(Unpublished) \in Nat /\ Cardinality(Unpublished') \in Nat
         /\ Cardinality(Outdated) \in Nat /\ Cardinality(Outdated') \in Nat
         /\ Cardinality(Unpublished') + Cardinality(Outdated')
              <= Cardinality(Unpublished) + Cardinality(Outdated) + 1
<1>1. /\ UNCHANGED <<pc, built, config>>
      /\ \A p \in Operators \ {o} : current'[p] = current[p]
  BY DEF ChangeClusters, TypeOK, localVars, serverVars
<1>2. Latest' = Latest
  BY <1>1 DEF Latest
<1>3. \A p \in Operators \ {o} : OwesTheSame(p)
  BY <1>1, <1>2, NothingChanges
<1>4. Owes(o)' <= Owes(o) + 1 /\ Owes(o)' \in Nat /\ Owes(o) \in Nat
  BY <1>1, <1>2 DEF Owes, Bit, Unpublished, Outdated
<1> QED BY <1>3, <1>4, OwedChanges

\* What pays for the versions grows with every version but one that publishes a
\* schema.
LEMMA PaidGrows ==
  ASSUME IInv, NEW o \in Operators, NEW v \in Version, Writes(o, v), v # Latest
  PROVE  \/ /\ UpdateProviderConfig(o) /\ Accepted(o) /\ v = [Latest EXCEPT !.data[o] = built[o]]
            /\ Paid(v) = Paid(Latest)
         \/ v.data = Latest.data /\ Paid(v) >= Paid(Latest) + 1
<1>1. Latest \in Version /\ Latest.done \in Nat /\ Cardinality(Operators) \in Nat
  BY LatestVersion, SpentCount DEF Version, IInv
<1>2. CASE v = [Latest EXCEPT !.label = TRUE]
  <2>1. /\ v.data = Latest.data /\ v.status = Latest.status /\ v.done = Latest.done
        /\ v.label /\ ~Latest.label
    BY <1>1, <1>2 DEF Version
  <2> QED BY <1>1, <2>1 DEF Paid, Bit
<1>3. CASE Accepted(o) /\ pc[o] = "init" /\ v = [Latest EXCEPT !.status = "pending"]
  <2>1. Latest.status = "unset"
    BY <1>3, AcceptedKnowsLatest
  <2>2. /\ v.data = Latest.data /\ v.label = Latest.label /\ v.done = Latest.done
        /\ v.status = "pending"
    BY <1>1, <1>3 DEF Version
  <2> QED BY <1>1, <2>1, <2>2 DEF Paid, Bit
<1>4. CASE /\ UpdateProviderConfig(o) /\ Accepted(o)
           /\ v = [Latest EXCEPT !.data[o] = built[o]]
  <2>1. v.label = Latest.label /\ v.status = Latest.status /\ v.done = Latest.done
    BY <1>1, <1>4 DEF Version
  <2> QED BY <1>4, <2>1 DEF Paid
<1>5. CASE Accepted(o) /\ pc[o] = "status" /\ v = Evaluated(o, Latest)
  <2>1. Latest.status \in {"pending", "Completed"}
    BY <1>5, AcceptedKnowsLatest
  <2>2. /\ v.data = Latest.data /\ v.label = Latest.label /\ v.done = Latest.done + 1
        /\ v.status = "Completed"
    BY <1>5 DEF Evaluated
  <2> QED BY <1>1, <2>1, <2>2 DEF Paid, Bit
<1>6. CASE ~Deleted /\ v = [Latest EXCEPT !.status = "deleted"]
  <2>1. /\ v.data = Latest.data /\ v.label = Latest.label /\ v.done = Latest.done
        /\ v.status = "deleted" /\ Latest.status # "deleted"
    BY <1>1, <1>6 DEF Version, Deleted
  <2> QED BY <1>1, <2>1 DEF Paid, Bit
<1> QED BY <1>2, <1>3, <1>4, <1>5, <1>6 DEF Writes

\* The changes are counted, and only ChangeClusters changes a schema.
LEMMA ChangesCounted ==
  ASSUME TypeOK, [Next]_vars
  PROVE  /\ changes' \in Nat /\ changes' >= changes
         /\ UNCHANGED current \/ \E o \in Operators : ChangeClusters(o)
<1> USE DEF cacheVars, envVars, serverVars, localVars
<1>1. changes \in Nat /\ (changes' = changes \/ changes' = changes + 1)
  BY DEF TypeOK, Next, ReconcileStep, Begin, AddLabel, InitStatus, CheckProviderActive,
         BuildConfigSchema, GetFreshConfig, GetUpdatedConfig, Fetch,
         UpdateProviderConfig, UpdateStatus, Cleanup, CleanupElsewhere, ApiError, Change,
         SyncConfig, SyncRegistry, LateAdd, Resync, SetActive, ChangeClusters, Crash,
         Restart, GrowOld, vars
<1>2. UNCHANGED current \/ \E o \in Operators : ChangeClusters(o)
  BY DEF Next, ReconcileStep, Begin, AddLabel, InitStatus, CheckProviderActive,
         BuildConfigSchema, GetFreshConfig, GetUpdatedConfig, Fetch,
         UpdateProviderConfig, UpdateStatus, Cleanup, CleanupElsewhere, ApiError,
         SyncConfig, SyncRegistry, LateAdd, Resync, SetActive, Crash, Restart, GrowOld, vars
<1> QED BY <1>1, <1>2

\* No version is written that is not paid for.
LEMMA NextPaid == IInv /\ PaidInv /\ [Next]_vars => PaidInv'
<1> SUFFICES ASSUME IInv, PaidInv, [Next]_vars PROVE PaidInv'
  OBVIOUS
<1>1. /\ TypeOK /\ Latest \in Version /\ changes \in Nat /\ Len(config) \in Nat
      /\ Len(config') \in Nat /\ Latest' \in Version
  <2>1. TypeOK /\ TypeOK'
    BY NextType DEF IInv
  <2>2. Len(config') \in Nat /\ Latest' \in Version
    BY <2>1 DEF TypeOK, Latest
  <2> QED BY <2>1, <2>2, LatestVersion DEF TypeOK
<1>2. changes' \in Nat /\ changes' >= changes
  BY <1>1, ChangesCounted
<1>3. ASSUME NEW v \in Version PROVE Paid(v) \in Nat
  BY <1>3, SpentCount DEF Paid, Bit, Version
<1>4. Written \in Nat /\ Written' \in Nat
  <2>1. /\ Unpublished \subseteq Operators /\ Outdated \subseteq Operators
        /\ Unpublished' \subseteq Operators /\ Outdated' \subseteq Operators
    BY DEF Unpublished, Outdated
  <2>2. /\ Cardinality(Unpublished) \in Nat /\ Cardinality(Outdated) \in Nat
        /\ Cardinality(Unpublished') \in Nat /\ Cardinality(Outdated') \in Nat
    BY <2>1, OperatorsAssumption, FS_Subset, FS_CardinalityType
  <2> QED BY <1>1, <2>2 DEF Written
\* It is enough to look at what a step writes or owes more, and pays more.
<1>5. ASSUME NEW n \in Nat, Written' <= Written + n,
             Paid(Latest') + changes' >= Paid(Latest) + changes + n
      PROVE  PaidInv'
  <2>1. Paid(Latest) \in Nat /\ Paid(Latest') \in Nat
    BY <1>1, <1>3
  <2>2. Written' <= Paid(Latest') + changes'
    BY <1>1, <1>2, <1>4, <1>5, <2>1 DEF PaidInv
  <2> QED BY <2>2 DEF PaidInv, Paid
<1>6. ASSUME NEW o \in Operators, ChangeClusters(o) PROVE PaidInv'
  <2>1. changes' = changes + 1 /\ config' = config
    BY <1>6 DEF ChangeClusters, Change, serverVars
  <2>2. Latest' = Latest
    BY <2>1 DEF Latest
  <2>3. Written' <= Written + 1
    BY <1>1, <1>6, <2>1, OwedChanged DEF Written
  <2>4. Paid(Latest') + changes' >= Paid(Latest) + changes + 1
    BY <1>1, <1>3, <2>1, <2>2
  <2> QED BY <1>5, <2>3, <2>4
<1>7. CASE UNCHANGED config /\ UNCHANGED current
  <2>1. Latest' = Latest
    BY <1>7 DEF Latest
  <2>2. Written' <= Written + 0
    BY <1>1, <1>7, <2>1, OwedNotMore DEF Written
  <2>3. Paid(Latest') + changes' >= Paid(Latest) + changes + 0
    BY <1>1, <1>2, <1>3, <2>1
  <2> QED BY <1>5, <2>2, <2>3
<1>8. ASSUME NEW o \in Operators, NEW v \in Version, Writes(o, v), config' # config,
             UNCHANGED current
      PROVE  PaidInv'
  <2>1. Len(config') = Len(config) + 1 /\ Latest' = v
    BY <1>1, <1>8, ConfigGrows DEF Writes
  <2>2. v # Latest
    BY <1>8 DEF Writes, Put
  <2>3. CASE /\ UpdateProviderConfig(o) /\ Accepted(o)
             /\ v = [Latest EXCEPT !.data[o] = built[o]]
             /\ Paid(v) = Paid(Latest)
    <3>1. /\ Cardinality(Unpublished) \in Nat /\ Cardinality(Unpublished') \in Nat
          /\ Cardinality(Outdated) \in Nat /\ Cardinality(Outdated') \in Nat
          /\ Cardinality(Unpublished') + Cardinality(Outdated') + 1
               = Cardinality(Unpublished) + Cardinality(Outdated)
      BY <1>1, <2>1, <2>2, <2>3, OwedPublished
    <3>2. Written' <= Written + 0
      BY <1>1, <2>1, <3>1 DEF Written
    <3>3. Paid(Latest') + changes' >= Paid(Latest) + changes + 0
      BY <1>1, <1>2, <1>3, <2>1, <2>3
    <3> QED BY <1>5, <3>2, <3>3
  <2>4. CASE v.data = Latest.data /\ Paid(v) >= Paid(Latest) + 1
    <3>1. /\ Cardinality(Unpublished) \in Nat /\ Cardinality(Unpublished') \in Nat
          /\ Cardinality(Outdated) \in Nat /\ Cardinality(Outdated') \in Nat
          /\ Cardinality(Unpublished') + Cardinality(Outdated')
               <= Cardinality(Unpublished) + Cardinality(Outdated)
      BY <1>1, <1>8, <2>1, <2>4, OwedNotMore
    <3>2. Written' <= Written + 1
      BY <1>1, <2>1, <3>1 DEF Written
    <3>3. Paid(Latest') + changes' >= Paid(Latest) + changes + 1
      BY <1>1, <1>2, <1>3, <2>1, <2>4
    <3> QED BY <1>5, <3>2, <3>3
  <2> QED BY <1>8, <2>2, <2>3, <2>4, PaidGrows
<1> QED BY <1>1, <1>6, <1>7, <1>8, ChangesCounted, ConfigWriters

\* The operators do not keep each other busy: a config is completed at most once
\* and once more per operator, and has at most five versions, two per operator
\* and one per change of the environment, although a Reconcile of a pending
\* config always writes and every write makes all operators reconcile.
THEOREM NoEndlessWrites == Spec => []NoChatter
<1>1. Init => PaidInv
  <2> SUFFICES ASSUME Init PROVE PaidInv
    OBVIOUS
  <2>1. Unpublished = {} /\ Outdated \subseteq Operators
    BY DEF Init, Unpublished, Outdated, Building
  <2>2. /\ Cardinality(Unpublished) = 0 /\ Cardinality(Outdated) \in Nat
        /\ Cardinality(Operators) \in Nat /\ Cardinality(Outdated) <= Cardinality(Operators)
    BY <2>1, OperatorsAssumption, FS_Subset, FS_CardinalityType, FS_EmptySet
  <2>3. Len(config) = 1 /\ Latest.done = 0 /\ changes = 0
    BY DEF Init, Latest
  <2> QED BY <2>2, <2>3 DEF PaidInv, Written, Paid, Bit
<1>2. DInv /\ PaidInv => NoChatter
  <2> SUFFICES ASSUME DInv, PaidInv PROVE NoChatter
    OBVIOUS
  <2>1. TypeOK /\ Latest \in Version /\ Latest.done \in Nat /\ changes \in Nat
    BY LatestVersion DEF DInv, IInv, TypeOK, Version
  <2>2. Unpublished \subseteq Operators /\ Outdated \subseteq Operators
    BY DEF Unpublished, Outdated
  <2>3. Cardinality(Unpublished) \in Nat /\ Cardinality(Outdated) \in Nat
    BY <2>2, OperatorsAssumption, FS_Subset, FS_CardinalityType
  <2>4. Latest.done <= 1 + Cardinality(Operators)
    BY <2>1, SpentCount DEF DInv, DoneInv
  <2>5. Paid(Latest) <= 4 + Latest.done + Cardinality(Operators) /\ Paid(Latest) \in Nat
    BY <2>1, SpentCount DEF Paid, Bit
  <2>6. Len(config) \in Nat /\ Len(config) <= Paid(Latest) + changes
    BY <2>1, <2>3, <2>5 DEF PaidInv, Written, TypeOK
  <2> QED BY <2>1, <2>4, <2>5, <2>6, SpentCount, SMTT(30) DEF NoChatter
<1>3. DInv => IInv
  BY DEF DInv
<1> QED BY <1>1, <1>2, <1>3, NextPaid, DoneInvariant, PTL DEF Spec
============================================================================
