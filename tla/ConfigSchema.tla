---------------------------- MODULE ConfigSchema ----------------------------
(***************************************************************************)
(* What the operator makes of the settings of one managed cluster: the     *)
(* fields of the configuration form, built by buildConfigSchema, and what  *)
(* the discovery of target requests reads from the same settings.          *)
(*                                                                         *)
(* ACM_SECRET_<CLUSTER> and ACM_USE_PROXY_<CLUSTER> are the two keys of a  *)
(* cluster in the config store.  The formatting of a name to a key is      *)
(* one-to-one on names of clusters, so a cluster's settings are a record.  *)
(***************************************************************************)
EXTENDS Naturals, FiniteSets

CONSTANTS
  SecretNames,       \* names of Secrets, as numbers in alphabetical order
  ACMDefaultSecret,  \* "application-manager"
  Unset              \* no such key, or the empty string

ASSUME SecretsAssumption ==
  SecretNames \subseteq Nat /\ ACMDefaultSecret \in SecretNames /\ Unset \notin SecretNames

\* The value of a proxy key: none; "true", "yes" or "1" as such; one of these
\* with other case or blanks around it; "false", "no" or "0"; anything else.
ProxyValues == {"unset", "true", "loose", "false", "other"}

Settings   == [secret : SecretNames \cup {Unset}, proxy : ProxyValues]
NoSettings == [secret |-> Unset, proxy |-> "unset"]

\* A namespace gives each Secret the keys it has, none if there is no Secret.
Keys       == {"ca.crt", "token"}
Namespace  == [SecretNames -> SUBSET Keys]

HasRequiredKeys(keys) == Keys \subseteq keys

ListSecretsInNamespace(ns) == {n \in SecretNames : HasRequiredKeys(ns[n])}

\* sort.Strings(secrets) and secrets[0].
First(secrets) == CHOOSE n \in secrets : \A m \in secrets : n <= m

\* Mutants of GetDefaultSecret: the configured Secret is not looked up in the
\* list, or loses against application-manager.
GetConfiguredUnchecked(s, secrets) ==
  IF s.secret # Unset /\ s.secret # ACMDefaultSecret THEN s.secret
  ELSE IF ACMDefaultSecret \in secrets THEN ACMDefaultSecret ELSE First(secrets)
GetManagerFirst(s, secrets) ==
  IF ACMDefaultSecret \in secrets THEN ACMDefaultSecret
  ELSE IF s.secret \in secrets THEN s.secret ELSE First(secrets)

\* The default of the Secret field: the configured Secret if it is usable and
\* not application-manager, else application-manager, else the first one.
GetDefaultSecret(s, secrets) ==
  IF s.secret \in secrets \ {ACMDefaultSecret} THEN s.secret
  ELSE IF ACMDefaultSecret \in secrets THEN ACMDefaultSecret ELSE First(secrets)

\* Mutant of GetDefaultProxyMode: the stored value as it is.
GetStoredProxyMode(s) == s.proxy

\* The default of the proxy field, after ToLower and TrimSpace.
GetDefaultProxyMode(s) == IF s.proxy \in {"true", "loose"} THEN "true" ELSE "false"

\* What discovery does with the same settings.
IsProxyModeEnabled(s) == s.proxy = "true"
GetConfiguredSecretName(s) == IF s.secret = Unset THEN ACMDefaultSecret ELSE s.secret

\* The enum of a cluster's usable Secrets; no field when there is none.
SecretField == [options : SUBSET SecretNames, default : SecretNames \cup {Unset}]
NoField     == [options |-> {}, default |-> Unset]

SecretFieldOf(s, ns) ==
  LET secrets == ListSecretsInNamespace(ns) IN
  IF secrets = {} THEN NoField
  ELSE [options |-> secrets, default |-> GetDefaultSecret(s, secrets)]

\* The proxy toggle; it excludes the Secret field that was emitted, if one was.
ProxyField == [default : {"true", "false"}, excludes : BOOLEAN]

ProxyFieldOf(s, field) == [default |-> GetDefaultProxyMode(s), excludes |-> field # NoField]
=============================================================================
