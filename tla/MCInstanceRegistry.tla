------------------------- MODULE MCInstanceRegistry -------------------------
EXTENDS InstanceRegistry, TLC

CONSTANTS i1, i2, i3, u1, d1, d2

Symmetry == Permutations(Id)

=============================================================================
