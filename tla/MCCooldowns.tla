---------------------------- MODULE MCCooldowns -----------------------------
EXTENDS Cooldowns, TLC

\* The requests are interchangeable, and every property treats them so.
Symmetry == Permutations(Requests)
=============================================================================
