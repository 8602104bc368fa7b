------------------------ MODULE MCClusterDiscovery ------------------------
(***************************************************************************)
(* Instances of ClusterDiscovery with a selection of the facts.            *)
(***************************************************************************)
EXTENDS ClusterDiscovery

Fact(configs, secret, acm) == [configs |-> configs, secret |-> secret, acm |-> acm]
Hub(route, ca, token) == [route |-> route, ca |-> ca, token |-> token]

\* A usable cluster, one without a token, one without client configs and one
\* whose client config has no URL.
SomeClusterFacts ==
  {Fact("ok", "ok", "Healthy"), Fact("ok", "missing", "Healthy"),
   Fact("none", "ok", "Unknown"), Fact("noURL", "ok", "Healthy")}

\* cluster-proxy installed, or not.
SomeHubFacts == {Hub(TRUE, TRUE, TRUE), Hub(FALSE, FALSE, TRUE)}
=============================================================================
