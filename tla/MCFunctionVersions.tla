-------------------------- MODULE MCFunctionVersions --------------------------
EXTENDS FunctionVersions, TLC

CONSTANTS f1, f2, s1, s2, s3, a1, c1

Symmetry == Permutations(Source) \cup Permutations(Fn)

=============================================================================
