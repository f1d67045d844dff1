---------------------------- MODULE MCLifecycle ----------------------------
EXTENDS Lifecycle, TLC

\* The addresses are alike; the accounts are not, one of them is renewable.
Symmetry == Permutations(Addresses)
=============================================================================
