\* One cluster, three versions of the ConfigMap, one failure or change of Secrets; the operator's name is in the environment.
SPECIFICATION FairSpec
CONSTANTS
  Clusters = {c1}
  SecretNames = {1, 2, 3}
  ACMDefaultSecret = 2
  Unset = Unset
  Namespaces <- SomeNamespaces
  HandEdits <- SomeEdits
  DefaultName = d
  EnvNames = {e}
  MapNames = {m}
  MaxVersions = 3
  MaxChanges = 1
INVARIANTS TypeOK LoadedAtBoot NameIsRegistered FormConsistent ChoiceSticks
PROPERTIES StoreAdvances EventuallyInStep
CHECK_DEADLOCK FALSE
