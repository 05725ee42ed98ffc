------------------------ MODULE MCSupervisorOwnership ------------------------
EXTENDS SupervisorOwnership, TLC

\* Supervisors are interchangeable, and so are the processes that shut them down.
Symmetry == Permutations(Supervisors) \cup Permutations(Shutters)
==============================================================================
