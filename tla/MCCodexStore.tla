---------------------------- MODULE MCCodexStore ----------------------------
EXTENDS CodexStore, TLC

\* The tasks are interchangeable, and every property treats them so.
Symmetry == Permutations(Tasks)
=============================================================================
