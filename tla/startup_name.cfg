\* The operator's name is in krkn-operator-config only.
SPECIFICATION Spec
CONSTANTS
  Clusters = {c1}
  SecretNames = {1, 2, 3}
  ACMDefaultSecret = 2
  Unset = Unset
  Namespaces <- SomeNamespaces
  HandEdits <- SomeEdits
  DefaultName = d
  EnvNames = {Unset}
  MapNames = {m}
  MaxVersions = 1
  MaxChanges = 0
INVARIANTS NameIsRegistered
CHECK_DEADLOCK FALSE
