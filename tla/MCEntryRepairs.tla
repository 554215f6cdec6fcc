--------------------------- MODULE MCEntryRepairs ---------------------------
EXTENDS EntryRepairs, TLC

TargetSymmetry == Permutations(Targets)

=============================================================================
