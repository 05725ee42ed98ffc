---------------------------- MODULE MCSessionLease ----------------------------
EXTENDS SessionLease, TLC

Symmetry == Permutations(Processes)
===============================================================================
