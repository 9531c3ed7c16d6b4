---------------------------- MODULE MCFastestLap ----------------------------
EXTENDS FastestLap, TLC

\* Nothing distinguishes the threads or the drivers but their names.
Symmetry == Permutations(Claimers) \union Permutations(Drivers)
=============================================================================
