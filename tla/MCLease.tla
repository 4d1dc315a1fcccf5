------------------------------ MODULE MCLease ------------------------------
EXTENDS Lease, TLC

Symmetry == Permutations(Instance)
=============================================================================
