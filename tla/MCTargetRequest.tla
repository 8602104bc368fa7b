-------------------------- MODULE MCTargetRequest --------------------------
\* Instances of TargetRequest for TLC.
EXTENDS TargetRequest, TLC

CONSTANTS s1, s2

\* The contents an earlier release may or may not have left behind.
NothingLeft == {None}
MaybeLeft   == {None, s1}

\* Operators are interchangeable wherever none of them is the default one.
OperatorSymmetry == Permutations(Operators)
============================================================================
