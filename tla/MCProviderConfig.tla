-------------------------- MODULE MCProviderConfig --------------------------
\* Instances of ProviderConfig for TLC.
EXTENDS ProviderConfig

CONSTANTS a, b, s, t

\* At first both operators build the same schema; one or both are registered.
SameSchema == {[o \in {a, b} |-> s]}
OneOrBoth  == {{a}, {a, b}}
============================================================================
