---------------------------- MODULE MCMutationGate ----------------------------
EXTENDS MutationGate, TLC
===============================================================================
