---------------------------- MODULE MCSystemdUnit ---------------------------
EXTENDS SystemdUnit, TLC

\* Neither two runs nor two specs differ but by name.
Symmetry == Permutations(Runs) \cup Permutations(Specs)
=============================================================================
