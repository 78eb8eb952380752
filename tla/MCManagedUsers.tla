--------------------------- MODULE MCManagedUsers ---------------------------
EXTENDS ManagedUsers, TLC
Symmetry == Permutations(Users) \cup Permutations(Calls) \cup Permutations(Replicas)
=============================================================================
