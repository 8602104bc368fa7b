--------------------------- MODULE MCConfigStore ---------------------------
\* Instances of ConfigStore for TLC.  Of three Secrets the second is
\* application-manager.
EXTENDS ConfigStore

\* No usable Secret; only the first; all.
SomeNamespaces ==
  {[n \in 1..3 |-> {"token"}],
   [n \in 1..3 |-> IF n = 1 THEN Keys ELSE {"ca.crt"}],
   [n \in 1..3 |-> Keys]}

\* As edited by hand: a Secret and a proxy mode not quite as the code spells it.
SomeEdits ==
  {[secret |-> 3, proxy |-> "loose"], [secret |-> Unset, proxy |-> "true"]}
============================================================================
