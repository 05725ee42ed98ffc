-------------------------- MODULE MCCommandJournal --------------------------
EXTENDS CommandJournal, TLC

\* The commands are interchangeable.
Symmetry == Permutations(Commands)
=============================================================================
