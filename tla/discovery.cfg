\* Two clusters, one change.
SPECIFICATION FairSpec
CONSTANTS
  c1 = c1
  c2 = c2
  Clusters = {c1, c2}
  ClusterFacts <- SomeClusterFacts
  HubFacts <- SomeHubFacts
  MaxChanges = 1
INVARIANTS
  TypeOK
  EveryClusterListed
  HealthyIsEarned
  HealthyCredentialsTried
  EmptyServerIsOffline
PROPERTIES
  NoFallback
  GoodClusterServed
  Publishes
CHECK_DEADLOCK FALSE
