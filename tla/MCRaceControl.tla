---------------------------- MODULE MCRaceControl ----------------------------
EXTENDS RaceControl, TLC

\* Either worker runs either job.
Symmetry == Permutations(Workers)
=============================================================================
