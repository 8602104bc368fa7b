------------------------- MODULE ConfigStoreProofs -------------------------
(***************************************************************************)
(* Proofs about ConfigStore, for any clusters, Secrets, names, edits and   *)
(* number of versions, crashes and failures.                               *)
(***************************************************************************)
EXTENDS ConfigStore, WellFoundedInduction, TLAPS

\* What getOperatorConfig returns.
ConfiguredName == IF env = Unset /\ mapName # Unset THEN mapName ELSE RegisteredName

\* The loader goes on with a copy of the ConfigMap in the store, or after it
\* found none.
LoaderInv ==
  /\ loader \in {"names", "done"} /\ from = 0 => \E v \in 1..Len(cm) : ~cm[v].exists
  /\ loader = "sync" => loaded > 0 /\ cm[loaded].exists

\* The name on its way to the reconcilers.
NameInv ==
  /\ loader \in {"get", "sync", "names", "done"} => newName = ConfiguredName
  /\ loader = "done" => name = newName

\* Nobody has a version that is not in the cache, and a reconciler that copies
\* an older one has its key queued again.
SyncInv ==
  /\ loaded <= cmSeen /\ syncing <= cmSeen /\ from <= cmSeen
  /\ syncing # 0 => cm[syncing].exists
  /\ syncing # 0 /\ syncing < cmSeen => queued
  /\ ~Up => loaded = 0 /\ syncing = 0 /\ from = 0

\* A field without options is no field, and the toggles built so far agree with
\* the Secret fields.
FormInv ==
  /\ FormConsistent
  /\ \A c \in Clusters :
       /\ form[c].secret.options = {} => form[c].secret = NoField
       /\ building = "proxies" /\ c \notin todo =>
            (form[c].proxy.excludes <=> form[c].secret.options # {})

\* As long as the submission is the latest version, the ConfigMap says what was
\* chosen.
ChoiceInv ==
  choice.version = Len(cm) => \A c \in Clusters :
    /\ Latest.data[c].proxy = IF choice.proxy[c] THEN "true" ELSE "false"
    /\ choice.secret[c] # Unset => Latest.data[c].secret = choice.secret[c]

IInv == TypeOK /\ LoaderInv /\ NameInv /\ SyncInv /\ FormInv /\ ChoiceInv

-----------------------------------------------------------------------------
USE SecretsAssumption, StoreAssumption

\* Alphabetical order has a first among any Secrets.
LEMMA FirstIsOne ==
  ASSUME NEW S \in SUBSET SecretNames, S # {}
  PROVE  First(S) \in S
<1>1. PICK x \in S : \A y \in S : ~(<<y, x>> \in OpToRel(<, Nat))
  BY WFMin, NatLessThanWellFounded
<1>2. ASSUME NEW y \in S PROVE x <= y
  <2>1. x \in Nat /\ y \in Nat
    OBVIOUS
  <2>2. y < x => <<y, x>> \in OpToRel(<, Nat)
    BY <2>1 DEF OpToRel
  <2>3. ~(y < x)
    BY <1>1, <2>2, Zenon
  <2> QED BY <2>1, <2>3
<1> QED BY <1>2 DEF First

\* The default of the Secret field is one of its options.
LEMMA DefaultIsOption ==
  ASSUME NEW s, NEW S \in SUBSET SecretNames, S # {}
  PROVE  GetDefaultSecret(s, S) \in S
  BY FirstIsOne DEF GetDefaultSecret

\* The Secret field: typed, with its default among its options, and absent
\* exactly if it has none.
LEMMA SecretFieldFacts ==
  ASSUME NEW s, NEW n \in Namespace
  PROVE  LET f == SecretFieldOf(s, n) IN
         /\ f \in SecretField
         /\ f.options = {} => f = NoField
         /\ f # NoField => f.default \in f.options
<1> DEFINE S == ListSecretsInNamespace(n)
<1>1. S \in SUBSET SecretNames
  BY DEF ListSecretsInNamespace
<1>2. CASE S = {}
  BY <1>2 DEF SecretFieldOf, NoField, SecretField
<1>3. CASE S # {}
  <2>1. GetDefaultSecret(s, S) \in S
    BY <1>1, <1>3, DefaultIsOption
  <2>2. SecretFieldOf(s, n) = [options |-> S, default |-> GetDefaultSecret(s, S)]
    BY <1>3 DEF SecretFieldOf
  <2> DEFINE d == GetDefaultSecret(s, S)
  <2>3. d \in SecretNames \cup {Unset}
    BY <1>1, <2>1
  <2> HIDE DEF S
  <2>4. SecretFieldOf(s, n).options = S /\ SecretFieldOf(s, n).default = d
    BY <2>2
  <2> HIDE DEF d
  <2>5. [options |-> S, default |-> d] \in SecretField
    BY <1>1, <2>3 DEF SecretField
  <2>6. SecretFieldOf(s, n) \in SecretField
    BY <2>2, <2>5 DEF d
  <2> QED BY <1>3, <2>1, <2>4, <2>6 DEF d
<1> QED BY <1>2, <1>3

\* The proxy toggle: typed, and it excludes the Secret field that there is.
LEMMA ProxyFieldFacts ==
  ASSUME NEW s, NEW field
  PROVE  /\ ProxyFieldOf(s, field) \in ProxyField
         /\ ProxyFieldOf(s, field).excludes = (field # NoField)
<1> DEFINE default == GetDefaultProxyMode(s)
           excludes == field # NoField
<1>1. default \in {"true", "false"} /\ excludes \in BOOLEAN
  BY DEF GetDefaultProxyMode
<1>2. ProxyFieldOf(s, field) = [default |-> default, excludes |-> excludes]
  BY DEF ProxyFieldOf
<1> HIDE DEF default, excludes
<1>3. ProxyFieldOf(s, field) \in ProxyField /\ ProxyFieldOf(s, field).excludes = excludes
  BY <1>1, <1>2 DEF ProxyField
<1> QED BY <1>3 DEF excludes

\* Appending a version keeps the earlier ones and makes it the latest.
LEMMA CmGrows ==
  ASSUME TypeOK, NEW v \in Version, cm' = Append(cm, v)
  PROVE  /\ cm' \in Seq(Version) /\ cm' # << >>
         /\ Len(cm) \in Nat /\ Len(cm') = Len(cm) + 1
         /\ \A i \in 1..Len(cm) : cm'[i] = cm[i]
         /\ cm'[Len(cm')] = v
         /\ Latest' = v
  BY DEF TypeOK, Latest

\* The latest version is a version, and so is every one that is referred to.
LEMMA VersionFacts ==
  ASSUME TypeOK
  PROVE  /\ Len(cm) \in Nat \ {0} /\ Latest \in Version
         /\ \A i \in 1..Len(cm) : cm[i] \in Version
  BY DEF TypeOK, Latest

\* The invariant holds at the start.
LEMMA InitInv == Init => IInv
<1> SUFFICES ASSUME Init PROVE IInv
  OBVIOUS
<1>1. PICK v \in Version : cm = <<v>>
  BY DEF Init, Version, Settings, NoSettings, ProxyValues
<1>2. cm \in Seq(Version) /\ cm # << >> /\ Len(cm) = 1
  BY <1>1
<1>3. form \in [Clusters -> [secret : SecretField, proxy : ProxyField]]
  BY DEF Init, NoForm, NoField, SecretField, ProxyField
<1>4. ns \in [Clusters -> Namespace]
  BY DEF Init
<1>5. /\ choice.version \in 0..Len(cm)
      /\ choice.secret \in [Clusters -> SecretNames \cup {Unset}]
      /\ choice.proxy \in [Clusters -> BOOLEAN]
  BY <1>2 DEF Init, NoChoice
<1>6. store \in [Clusters -> Settings]
  BY DEF Init, NoSettings, Settings, ProxyValues
<1>7. TypeOK
  <2>1. cmSeen \in 1..Len(cm) /\ loaded \in 0..Len(cm) /\ syncing \in 0..Len(cm) /\ from \in 0..Len(cm)
    BY <1>2 DEF Init
  <2>2. env \in EnvNames /\ mapName \in MapNames /\ newName \in Names /\ name \in Names
    BY DEF Init, Names
  <2>3. queued \in BOOLEAN /\ changes \in Nat /\ todo \subseteq Clusters
    BY DEF Init
  <2> QED BY <1>2, <1>3, <1>4, <1>5, <1>6, <2>1, <2>2, <2>3 DEF Init, TypeOK
<1>8. LoaderInv /\ NameInv /\ SyncInv
  BY DEF Init, LoaderInv, NameInv, SyncInv, Up
<1>9. FormInv
  BY DEF Init, FormInv, FormConsistent, NoForm, NoField
<1>10. ChoiceInv
  BY <1>2 DEF Init, ChoiceInv, NoChoice
<1> QED BY <1>7, <1>8, <1>9, <1>10 DEF IInv

-----------------------------------------------------------------------------
\* Copying a version into the store.
LEMMA SyncTypes ==
  ASSUME TypeOK, NEW v \in 1..Len(cm), SyncConfigMapToStore(v)
  PROVE  store' \in [Clusters -> Settings] /\ from' = v
<1>1. cm[v] \in Version
  BY VersionFacts
<1>2. \A c \in Clusters : cm[v].data[c] \in Settings /\ store[c] \in Settings
  BY <1>1 DEF Version, TypeOK
<1> QED BY <1>2 DEF SyncConfigMapToStore, Settings

\* What a step that leaves the ConfigMap and the submission, or the form, alone
\* cannot disturb.
LEMMA ChoiceFrame == IInv /\ UNCHANGED <<cm, choice>> => ChoiceInv'
  BY DEF IInv, ChoiceInv, Latest

LEMMA FormFrame == IInv /\ UNCHANGED formVars => FormInv'
  BY DEF IInv, FormInv, FormConsistent, formVars

\* The steps of the loader.
LEMMA LoaderKeeps == IInv /\ LoaderStep => IInv'
<1> SUFFICES ASSUME IInv, LoaderStep PROVE IInv'
  OBVIOUS
<1> USE DEF serverVars, syncVars, storeVars, formVars
<1>1. TypeOK
  BY DEF IInv
<1>2. FormInv' /\ ChoiceInv'
  BY FormFrame, ChoiceFrame DEF LoaderStep, GetOperatorConfig, LoadConfigMap, SyncAtStartup, SetNames
<1>3. CASE GetOperatorConfig
  <2>1. newName' = ConfiguredName /\ newName' \in Names
    BY <1>1, <1>3 DEF GetOperatorConfig, ConfiguredName, RegisteredName, Names, TypeOK
  <2>2. TypeOK'
    BY <1>1, <1>3, <2>1 DEF GetOperatorConfig, TypeOK
  <2>3. LoaderInv' /\ NameInv' /\ SyncInv'
    BY <1>3, <2>1 DEF GetOperatorConfig, IInv, LoaderInv, NameInv, SyncInv, Up, ConfiguredName, RegisteredName
  <2> QED BY <1>2, <2>2, <2>3 DEF IInv
<1>4. CASE LoadConfigMap
  <2>1. TypeOK'
    BY <1>1, <1>4 DEF LoadConfigMap, TypeOK
  <2>2. LoaderInv'
    BY <1>1, <1>4 DEF LoadConfigMap, LoaderInv, TypeOK
  <2>3. NameInv' /\ SyncInv'
    BY <1>1, <1>4 DEF LoadConfigMap, IInv, NameInv, SyncInv, Up, ConfiguredName, RegisteredName, TypeOK
  <2> QED BY <1>2, <2>1, <2>2, <2>3 DEF IInv
<1>5. CASE SyncAtStartup
  <2>1. loaded \in 1..Len(cm)
    BY <1>1, <1>5 DEF SyncAtStartup, IInv, LoaderInv, TypeOK
  <2>2. store' \in [Clusters -> Settings] /\ from' = loaded
    BY <1>1, <1>5, <2>1, SyncTypes DEF SyncAtStartup
  <2>3. TypeOK'
    BY <1>1, <1>5, <2>1, <2>2 DEF SyncAtStartup, TypeOK
  <2>4. LoaderInv' /\ NameInv' /\ SyncInv'
    BY <1>5, <2>1, <2>2 DEF SyncAtStartup, IInv, LoaderInv, NameInv, SyncInv, Up, ConfiguredName, RegisteredName
  <2> QED BY <1>2, <2>3, <2>4 DEF IInv
<1>6. CASE SetNames
  <2>1. TypeOK'
    BY <1>1, <1>6 DEF SetNames, TypeOK
  <2>2. LoaderInv' /\ NameInv' /\ SyncInv'
    BY <1>6 DEF SetNames, IInv, LoaderInv, NameInv, SyncInv, Up, ConfiguredName, RegisteredName
  <2> QED BY <1>2, <2>1, <2>2 DEF IInv
<1> QED BY <1>3, <1>4, <1>5, <1>6 DEF LoaderStep

\* The end of the process.
LEMMA ExitKeeps ==
  ASSUME IInv, Exit, changes' \in Nat
  PROVE  IInv'
<1> USE DEF serverVars
<1>1. TypeOK
  BY DEF IInv
<1>2. form' \in [Clusters -> [secret : SecretField, proxy : ProxyField]]
  BY DEF Exit, NoForm, NoField, SecretField, ProxyField
<1>3. store' \in [Clusters -> Settings]
  BY DEF Exit, NoSettings, Settings, ProxyValues
<1>4. Len(cm) \in Nat
  BY <1>1, VersionFacts
<1>5. TypeOK'
  <2>1. queued' \in BOOLEAN /\ newName' \in Names /\ name' \in Names /\ todo' \subseteq Clusters
    BY DEF Exit, Names
  <2>2. loaded' \in 0..Len(cm) /\ syncing' \in 0..Len(cm) /\ from' \in 0..Len(cm)
    BY <1>4 DEF Exit
  <2> QED BY <1>1, <1>2, <1>3, <2>1, <2>2 DEF Exit, TypeOK
<1>6. LoaderInv' /\ NameInv' /\ SyncInv'
  BY <1>1 DEF Exit, IInv, LoaderInv, NameInv, SyncInv, Up, TypeOK
<1>7. FormInv'
  BY DEF Exit, FormInv, FormConsistent, NoForm, NoField
<1>8. ChoiceInv'
  BY ChoiceFrame DEF Exit
<1> QED BY <1>5, <1>6, <1>7, <1>8 DEF IInv

\* A change is counted.
LEMMA ChangeCounts == TypeOK /\ Change => changes' \in Nat
  BY DEF TypeOK, Change

\* The start of the process, events and the ConfigMap reconciler.
LEMMA ReconcilerKeeps ==
  ASSUME IInv, Start \/ DeliverEvent \/ Resync \/ ReadConfigMap \/ SyncConfigMap \/ ReconcileFails
  PROVE  IInv'
<1> USE DEF serverVars, loadVars, syncVars, storeVars, formVars
<1>1. TypeOK /\ Len(cm) \in Nat
  BY VersionFacts DEF IInv
<1>2. FormInv' /\ ChoiceInv'
  BY FormFrame, ChoiceFrame
  DEF Start, DeliverEvent, Resync, ReadConfigMap, SyncConfigMap, ReconcileFails
<1>3. CASE Start
  <2>1. TypeOK'
    <3>1. queued' \in BOOLEAN /\ cmSeen' \in 1..Len(cm)
      BY <1>1, <1>3, VersionFacts DEF Start, Version
    <3>2. name' \in Names
      BY <1>1, <1>3 DEF Start, RegisteredName, Names, TypeOK
    <3> QED BY <1>1, <1>3, <3>1, <3>2 DEF Start, TypeOK
  <2>2. LoaderInv' /\ NameInv' /\ SyncInv'
    BY <1>1, <1>3 DEF Start, IInv, LoaderInv, NameInv, SyncInv, Up, TypeOK
  <2> QED BY <1>2, <2>1, <2>2 DEF IInv
<1>4. CASE DeliverEvent
  <2>1. TypeOK'
    BY <1>1, <1>4 DEF DeliverEvent, TypeOK
  <2>2. LoaderInv' /\ NameInv' /\ SyncInv'
    BY <1>1, <1>4
    DEF DeliverEvent, IInv, LoaderInv, NameInv, SyncInv, Up, TypeOK, ConfiguredName, RegisteredName
  <2> QED BY <1>2, <2>1, <2>2 DEF IInv
<1>5. CASE Resync
  <2>1. TypeOK'
    BY <1>1, <1>5 DEF Resync, TypeOK
  <2>2. LoaderInv' /\ NameInv' /\ SyncInv'
    BY <1>5 DEF Resync, IInv, LoaderInv, NameInv, SyncInv, Up, ConfiguredName, RegisteredName
  <2> QED BY <1>2, <2>1, <2>2 DEF IInv
<1>6. CASE ReadConfigMap
  <2>1. TypeOK'
    <3>1. queued' \in BOOLEAN
      BY <1>6 DEF ReadConfigMap
    <3>2. syncing' \in 0..Len(cm)
      BY <1>1, <1>6 DEF ReadConfigMap, TypeOK
    <3> QED BY <1>1, <1>6, <3>1, <3>2 DEF ReadConfigMap, TypeOK
  <2>2. LoaderInv' /\ NameInv'
    BY <1>6 DEF ReadConfigMap, IInv, LoaderInv, NameInv, ConfiguredName, RegisteredName
  <2>3. SyncInv'
    BY <1>1, <1>6 DEF ReadConfigMap, IInv, SyncInv, Up, TypeOK
  <2> QED BY <1>2, <2>1, <2>2, <2>3 DEF IInv
<1>7. CASE SyncConfigMap
  <2>1. syncing \in 1..Len(cm)
    BY <1>1, <1>7 DEF SyncConfigMap, TypeOK
  <2>2. store' \in [Clusters -> Settings] /\ from' = syncing
    BY <1>1, <1>7, <2>1, SyncTypes DEF SyncConfigMap
  <2>3. TypeOK'
    BY <1>1, <1>7, <2>1, <2>2 DEF SyncConfigMap, TypeOK
  <2>4. LoaderInv' /\ NameInv' /\ SyncInv'
    BY <1>1, <1>7, <2>1, <2>2
    DEF SyncConfigMap, IInv, LoaderInv, NameInv, SyncInv, Up, TypeOK, ConfiguredName, RegisteredName
  <2> QED BY <1>2, <2>3, <2>4 DEF IInv
<1>8. CASE ReconcileFails
  <2>1. TypeOK'
    BY <1>1, <1>8, ChangeCounts DEF ReconcileFails, TypeOK
  <2>2. LoaderInv' /\ NameInv' /\ SyncInv'
    BY <1>1, <1>8
    DEF ReconcileFails, IInv, LoaderInv, NameInv, SyncInv, Up, TypeOK, ConfiguredName, RegisteredName
  <2> QED BY <1>2, <2>1, <2>2 DEF IInv
<1> QED BY <1>3, <1>4, <1>5, <1>6, <1>7, <1>8

\* The steps of buildConfigSchema.
LEMMA FormKeeps ==
  ASSUME IInv,
         \/ BeginSchema \/ BeginProxyFields \/ ShowForm
         \/ \E c \in Clusters : AddSecretField(c) \/ AddProxyField(c)
  PROVE  IInv'
<1> USE DEF serverVars, loadVars, syncVars, storeVars
<1>1. TypeOK
  BY DEF IInv
<1>2. /\ UNCHANGED <<serverVars, cmSeen, loadVars, syncVars, storeVars, choice>>
      /\ changes' \in Nat
  BY <1>1 DEF BeginSchema, BeginProxyFields, ShowForm, AddSecretField, AddProxyField, Change, TypeOK
<1>3. LoaderInv' /\ NameInv' /\ SyncInv'
  BY <1>2 DEF IInv, LoaderInv, NameInv, SyncInv, Up, ConfiguredName, RegisteredName
<1>4. ChoiceInv'
  BY <1>2, ChoiceFrame
<1>5. ASSUME /\ form' \in [Clusters -> [secret : SecretField, proxy : ProxyField]]
             /\ building' \in {"no", "secrets", "proxies", "shown"} /\ todo' \subseteq Clusters
             /\ FormInv'
      PROVE  IInv'
  BY <1>1, <1>2, <1>3, <1>4, <1>5 DEF IInv, TypeOK
<1>6. CASE BeginSchema
  <2>1. form' \in [Clusters -> [secret : SecretField, proxy : ProxyField]]
    BY <1>6 DEF BeginSchema, NoForm, NoField, SecretField, ProxyField
  <2>2. FormInv'
    BY <1>6 DEF BeginSchema, FormInv, FormConsistent, NoForm, NoField
  <2> QED BY <1>5, <1>6, <2>1, <2>2 DEF BeginSchema
<1>7. ASSUME NEW c \in Clusters, AddSecretField(c) PROVE IInv'
  <2>1. ns[c] \in Namespace /\ form[c] \in [secret : SecretField, proxy : ProxyField]
    BY <1>1 DEF TypeOK
  <2> DEFINE f == SecretFieldOf(store[c], ns[c])
  <2>2. f \in SecretField /\ (f.options = {} => f = NoField) /\ (f # NoField => f.default \in f.options)
    BY <2>1, SecretFieldFacts
  <2> HIDE DEF f
  <2>3. form' = form \/ form' = [form EXCEPT ![c].secret = f]
    BY <1>7 DEF AddSecretField, f
  <2>4. form' \in [Clusters -> [secret : SecretField, proxy : ProxyField]]
    BY <1>1, <2>1, <2>2, <2>3 DEF TypeOK
  <2>5. /\ form'[c].secret = f \/ form'[c].secret = form[c].secret
        /\ \A d \in Clusters \ {c} : form'[d] = form[d]
    BY <1>1, <2>3 DEF TypeOK
  <2>6. FormInv'
    BY <1>7, <2>2, <2>5 DEF AddSecretField, IInv, FormInv, FormConsistent
  <2> QED BY <1>1, <1>5, <1>7, <2>4, <2>6 DEF AddSecretField, TypeOK
<1>8. ASSUME NEW c \in Clusters, AddProxyField(c) PROVE IInv'
  <2> DEFINE f == ProxyFieldOf(store[c], form[c].secret)
  <2>1. f \in ProxyField /\ f.excludes = (form[c].secret # NoField)
    BY ProxyFieldFacts
  <2> HIDE DEF f
  <2>2. /\ form' = [form EXCEPT ![c].proxy = f]
        /\ building = "proxies" /\ building' = "proxies" /\ todo' = todo \ {c}
    BY <1>8 DEF AddProxyField, f
  <2>3. form' \in [Clusters -> [secret : SecretField, proxy : ProxyField]]
    BY <1>1, <2>1, <2>2 DEF TypeOK
  <2>4. /\ form'[c].secret = form[c].secret /\ form'[c].proxy.excludes = (form[c].secret # NoField)
        /\ \A d \in Clusters \ {c} : form'[d] = form[d]
    BY <1>1, <2>1, <2>2 DEF TypeOK
  <2>5. NoField.options = {}
    BY DEF NoField
  <2>6. FormInv'
    BY <2>2, <2>4, <2>5 DEF IInv, FormInv, FormConsistent
  <2> QED BY <1>1, <1>5, <2>2, <2>3, <2>6 DEF TypeOK
<1>9. CASE BeginProxyFields \/ ShowForm
  <2>1. FormInv'
    BY <1>9 DEF BeginProxyFields, ShowForm, IInv, FormInv, FormConsistent
  <2> QED BY <1>1, <1>5, <1>9, <2>1 DEF BeginProxyFields, ShowForm, TypeOK
<1> QED BY <1>6, <1>7, <1>8, <1>9

\* A new version of the ConfigMap leaves what the process knows as it was.
LEMMA VersionKeeps ==
  ASSUME IInv, NEW v \in Version, NewVersion(v),
         UNCHANGED <<ns, env, mapName, cmSeen, loadVars, syncVars, storeVars, todo, changes>>
  PROVE  /\ LoaderInv' /\ NameInv' /\ SyncInv'
         /\ cm' \in Seq(Version) /\ cm' # << >> /\ cmSeen' \in 1..Len(cm')
         /\ loaded' \in 0..Len(cm') /\ syncing' \in 0..Len(cm') /\ from' \in 0..Len(cm')
         /\ Len(cm') = Len(cm) + 1 /\ Latest' = v
<1> USE DEF loadVars, syncVars, storeVars
<1>1. TypeOK
  BY DEF IInv
<1>2. /\ cm' \in Seq(Version) /\ cm' # << >> /\ Len(cm) \in Nat /\ Len(cm') = Len(cm) + 1
      /\ \A i \in 1..Len(cm) : cm'[i] = cm[i]
      /\ Latest' = v
  BY <1>1, CmGrows DEF NewVersion
<1>3. /\ cmSeen' \in 1..Len(cm')
      /\ loaded' \in 0..Len(cm') /\ syncing' \in 0..Len(cm') /\ from' \in 0..Len(cm')
  BY <1>1, <1>2 DEF TypeOK
<1>4. LoaderInv'
  BY <1>1, <1>2 DEF IInv, LoaderInv, TypeOK
<1>5. NameInv'
  BY DEF IInv, NameInv, ConfiguredName, RegisteredName
<1>6. SyncInv'
  BY <1>1, <1>2 DEF IInv, SyncInv, Up, TypeOK
<1> QED BY <1>2, <1>3, <1>4, <1>5, <1>6

\* Edits by hand, and the deletion of the ConfigMap.
LEMMA EditKeeps ==
  ASSUME IInv, DeleteConfigMap \/ \E c \in Clusters : EditByHand(c)
  PROVE  IInv'
<1>1. TypeOK /\ Len(cm) \in Nat /\ Latest \in Version
  BY VersionFacts DEF IInv
<1>2. [exists |-> FALSE, data |-> [c \in Clusters |-> NoSettings]] \in Version
  BY DEF Version, Settings, NoSettings, ProxyValues
<1>3. \A c \in Clusters, s \in HandEdits :
        [exists |-> TRUE, data |-> [Latest.data EXCEPT ![c] = s]] \in Version
  BY <1>1 DEF Version
<1>4. PICK v \in Version : NewVersion(v)
  BY <1>2, <1>3 DEF DeleteConfigMap, EditByHand
<1>5. UNCHANGED <<ns, env, mapName, cmSeen, loadVars, syncVars, storeVars, formVars, choice, changes>>
  BY DEF DeleteConfigMap, EditByHand
<1>6. /\ LoaderInv' /\ NameInv' /\ SyncInv'
      /\ cm' \in Seq(Version) /\ cm' # << >> /\ cmSeen' \in 1..Len(cm')
      /\ loaded' \in 0..Len(cm') /\ syncing' \in 0..Len(cm') /\ from' \in 0..Len(cm')
      /\ Len(cm') = Len(cm) + 1
  BY <1>4, <1>5, VersionKeeps DEF formVars
<1>7. choice.version \in 0..Len(cm)
  BY <1>1 DEF TypeOK
<1>8. choice'.version \in 0..Len(cm') /\ choice'.version # Len(cm')
  BY <1>1, <1>5, <1>6, <1>7
<1>9. TypeOK'
  BY <1>1, <1>5, <1>6, <1>8 DEF TypeOK, loadVars, syncVars, storeVars, formVars
<1>10. ChoiceInv'
  BY <1>8 DEF ChoiceInv
<1>11. FormInv'
  BY <1>5, FormFrame DEF formVars
<1> QED BY <1>6, <1>9, <1>10, <1>11 DEF IInv

\* A submission.
LEMMA SubmitKeeps == IInv /\ Submit => IInv'
<1> SUFFICES ASSUME IInv, Submit PROVE IInv'
  OBVIOUS
<1>1. TypeOK /\ Len(cm) \in Nat /\ Latest \in Version
  BY VersionFacts DEF IInv
<1>2. PICK secret \in [Clusters -> SecretNames \cup {Unset}], proxy \in [Clusters -> BOOLEAN] :
        /\ NewVersion([exists |-> TRUE, data |-> [c \in Clusters |->
             [secret |-> IF secret[c] = Unset THEN Latest.data[c].secret ELSE secret[c],
              proxy  |-> IF proxy[c] THEN "true" ELSE "false"]]])
        /\ choice' = [version |-> Len(cm'), secret |-> secret, proxy |-> proxy]
  BY DEF Submit
<1> DEFINE data == [c \in Clusters |->
             [secret |-> IF secret[c] = Unset THEN Latest.data[c].secret ELSE secret[c],
              proxy  |-> IF proxy[c] THEN "true" ELSE "false"]]
           v == [exists |-> TRUE, data |-> data]
<1>3. \A c \in Clusters : Latest.data[c].secret \in SecretNames \cup {Unset}
  BY <1>1 DEF Version, Settings
<1>4. data \in [Clusters -> Settings]
  BY <1>3 DEF Settings, ProxyValues
<1>5. /\ \A c \in Clusters : data[c].proxy = IF proxy[c] THEN "true" ELSE "false"
      /\ \A c \in Clusters : secret[c] # Unset => data[c].secret = secret[c]
  OBVIOUS
<1> HIDE DEF data
<1>6. v \in Version /\ v.data = data
  BY <1>4 DEF Version
<1>7. NewVersion(v)
  BY <1>2 DEF data
<1> HIDE DEF v
<1>8. /\ building' = "no" /\ form' = NoForm
      /\ UNCHANGED <<ns, env, mapName, cmSeen, loadVars, syncVars, storeVars, todo, changes>>
  BY DEF Submit
<1>9. /\ LoaderInv' /\ NameInv' /\ SyncInv'
      /\ cm' \in Seq(Version) /\ cm' # << >> /\ cmSeen' \in 1..Len(cm')
      /\ loaded' \in 0..Len(cm') /\ syncing' \in 0..Len(cm') /\ from' \in 0..Len(cm')
      /\ Len(cm') = Len(cm) + 1 /\ Latest' = v
  BY <1>6, <1>7, <1>8, VersionKeeps
<1>10. choice'.version = Len(cm') /\ choice'.secret = secret /\ choice'.proxy = proxy
  BY <1>2
<1>11. /\ choice'.version \in 0..Len(cm')
       /\ choice'.secret \in [Clusters -> SecretNames \cup {Unset}]
       /\ choice'.proxy \in [Clusters -> BOOLEAN]
  BY <1>1, <1>2, <1>9, <1>10
<1>12. form' \in [Clusters -> [secret : SecretField, proxy : ProxyField]]
  BY <1>8 DEF NoForm, NoField, SecretField, ProxyField
<1>13. TypeOK'
  BY <1>1, <1>8, <1>9, <1>11, <1>12 DEF TypeOK, loadVars, syncVars, storeVars
<1>14. FormInv'
  BY <1>8 DEF FormInv, FormConsistent, NoForm, NoField
<1>15. ChoiceInv'
  BY <1>5, <1>6, <1>9, <1>10 DEF ChoiceInv
<1> QED BY <1>9, <1>13, <1>14, <1>15 DEF IInv

\* Secrets come and go.
LEMMA NamespaceKeeps == \A c \in Clusters : IInv /\ ChangeNamespace(c) => IInv'
<1> SUFFICES ASSUME NEW c \in Clusters, IInv, ChangeNamespace(c) PROVE IInv'
  OBVIOUS
<1> USE DEF loadVars, syncVars, storeVars, formVars
<1>1. TypeOK
  BY DEF IInv
<1>2. /\ UNCHANGED <<cm, env, mapName, cmSeen, loadVars, syncVars, storeVars, formVars, choice>>
      /\ changes' \in Nat
  BY <1>1, ChangeCounts DEF ChangeNamespace
<1>3. ns' \in [Clusters -> Namespace]
  BY <1>1 DEF ChangeNamespace, TypeOK
<1>4. TypeOK'
  BY <1>1, <1>2, <1>3 DEF TypeOK
<1>5. LoaderInv' /\ NameInv' /\ SyncInv'
  BY <1>2 DEF IInv, LoaderInv, NameInv, SyncInv, Up, ConfiguredName, RegisteredName
<1>6. FormInv' /\ ChoiceInv'
  BY <1>2, FormFrame, ChoiceFrame
<1> QED BY <1>4, <1>5, <1>6 DEF IInv

-----------------------------------------------------------------------------
\* Every step keeps the invariant.
LEMMA NextKeeps == IInv /\ [Next]_vars => IInv'
<1> SUFFICES ASSUME IInv, [Next]_vars PROVE IInv'
  OBVIOUS
<1>1. CASE UNCHANGED vars
  BY <1>1 DEF vars, serverVars, loadVars, syncVars, storeVars, formVars, IInv, TypeOK, LoaderInv,
     NameInv, SyncInv, FormInv, FormConsistent, ChoiceInv, Up, Latest, ConfiguredName, RegisteredName
<1>2. CASE LoaderFails \/ Crash
  <2>1. Exit /\ Change /\ TypeOK
    BY <1>2 DEF LoaderFails, Crash, IInv
  <2> QED BY <2>1, ChangeCounts, ExitKeeps
<1> QED
  BY <1>1, <1>2, LoaderKeeps, ReconcilerKeeps, FormKeeps, EditKeeps, SubmitKeeps, NamespaceKeeps
  DEF Next, ReconcileStep

\* The inductive invariant: what the loader, the ConfigMap reconciler and the
\* form know of the versions of the ConfigMap and of each other.
THEOREM Invariant == Spec => []IInv
  BY InitInv, NextKeeps, PTL DEF Spec

\* All variables keep their types; copies name versions that exist.
THEOREM TypeCorrect == Spec => []TypeOK
<1>1. IInv => TypeOK
  BY DEF IInv
<1> QED BY <1>1, Invariant, PTL

\* However often calls fail and the process restarts, an operator whose loader
\* is done runs with its settings, or its ConfigMap was missing.
THEOREM SettingsLoaded == Spec => []LoadedAtBoot
<1>1. IInv => LoadedAtBoot
  BY DEF IInv, LoaderInv, LoadedAtBoot
<1> QED BY <1>1, Invariant, PTL

\* The reconcilers contribute under the registered name if the environment sets
\* the name or krkn-operator-config does not: the run startup_name shows that
\* the condition cannot be dropped.
THEOREM NameRegistered == Spec => [](env # Unset \/ mapName = Unset => NameIsRegistered)
<1>1. IInv => (env # Unset \/ mapName = Unset => NameIsRegistered)
  BY DEF IInv, NameInv, NameIsRegistered, ConfiguredName
<1> QED BY <1>1, Invariant, PTL

\* In every form, defaults are options and toggles exclude exactly the Secret
\* fields the form has, whatever happens to Secrets and settings between the
\* two loops.
THEOREM FormsConsistent == Spec => []FormConsistent
<1>1. IInv => FormConsistent
  BY DEF IInv, FormInv
<1> QED BY <1>1, Invariant, PTL

\* What the readers of the settings of one cluster make of a submission.
LEMMA ChoiceRead ==
  ASSUME NEW s \in Settings, NEW chosen \in SecretNames, NEW secrets, s.secret = chosen
  PROVE  /\ GetConfiguredSecretName(s) = chosen
         /\ chosen \in secrets => GetDefaultSecret(s, secrets) = chosen
  BY DEF GetConfiguredSecretName, GetDefaultSecret

\* Once the store has the submitted version, discovery uses and the next form
\* shows what was submitted, for any Secrets and also if application-manager
\* was chosen.
THEOREM ChoicesStick == Spec => []ChoiceSticks
<1>1. ASSUME IInv PROVE ChoiceSticks
  <2> SUFFICES ASSUME choice.version = Len(cm), InStep, NEW c \in Clusters
               PROVE  /\ IsProxyModeEnabled(store[c]) = choice.proxy[c]
                      /\ GetDefaultProxyMode(store[c]) = IF choice.proxy[c] THEN "true" ELSE "false"
                      /\ choice.secret[c] # Unset =>
                           /\ GetConfiguredSecretName(store[c]) = choice.secret[c]
                           /\ LET secrets == ListSecretsInNamespace(ns[c]) IN
                              choice.secret[c] \in secrets =>
                                GetDefaultSecret(store[c], secrets) = choice.secret[c]
    BY DEF ChoiceSticks
  <2>1. /\ store[c] \in Settings /\ choice.proxy[c] \in BOOLEAN
        /\ choice.secret[c] \in SecretNames \cup {Unset}
    BY <1>1 DEF IInv, TypeOK
  <2>2. store[c].proxy = IF choice.proxy[c] THEN "true" ELSE "false"
    BY <1>1 DEF IInv, ChoiceInv, InStep
  <2>3. choice.secret[c] # Unset => store[c].secret = choice.secret[c]
    BY <1>1 DEF IInv, ChoiceInv, InStep
  <2>4. /\ IsProxyModeEnabled(store[c]) = choice.proxy[c]
        /\ GetDefaultProxyMode(store[c]) = IF choice.proxy[c] THEN "true" ELSE "false"
    BY <2>1, <2>2 DEF IsProxyModeEnabled, GetDefaultProxyMode
  <2> QED BY <2>1, <2>3, <2>4, ChoiceRead
<1> QED BY <1>1, Invariant, PTL

\* Only existing versions get into the store of a running process, and an older
\* one over a newer one only from the loader, or from the reconciler with its
\* key queued for the newer one.
THEOREM StoreOnlyAdvances == Spec => StoreAdvances
<1>1. IInv /\ [Next]_vars =>
        [Up' /\ storeVars' # storeVars =>
           /\ cm[from'].exists
           /\ from' < from => loader = "sync" \/ queued]_vars
  <2> SUFFICES ASSUME IInv, Next, Up', storeVars' # storeVars
               PROVE  cm[from'].exists /\ (from' < from => loader = "sync" \/ queued)
    OBVIOUS
  <2>1. SyncAtStartup \/ SyncConfigMap
    BY DEF Next, LoaderStep, GetOperatorConfig, LoadConfigMap, SetNames, LoaderFails, Crash, Exit, Up,
       Start, DeliverEvent, Resync, ReconcileStep, ReadConfigMap, ReconcileFails, BeginSchema,
       BeginProxyFields, AddProxyField, ShowForm, Submit, DeleteConfigMap, AddSecretField, EditByHand, ChangeNamespace
  <2>2. CASE SyncAtStartup
    BY <2>2 DEF SyncAtStartup, SyncConfigMapToStore, IInv, LoaderInv
  <2>3. CASE SyncConfigMap
    <3>1. from' = syncing /\ syncing # 0
      BY <2>3 DEF SyncConfigMap, SyncConfigMapToStore
    <3> QED BY <3>1 DEF IInv, SyncInv, TypeOK
  <2> QED BY <2>1, <2>2, <2>3
<1> QED BY <1>1, Invariant, PTL DEF Spec, StoreAdvances
============================================================================
