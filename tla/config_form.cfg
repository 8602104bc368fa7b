\* A proxy mode edited by hand.
SPECIFICATION Spec
CONSTANTS
  Clusters = {c1}
  SecretNames = {1, 2, 3}
  ACMDefaultSecret = 2
  Unset = Unset
  Namespaces <- SomeNamespaces
  HandEdits <- SomeEdits
  DefaultName = d
  EnvNames = {e}
  MapNames = {m}
  MaxVersions = 1
  MaxChanges = 0
PROPERTIES ShownIsUsed
CHECK_DEADLOCK FALSE
