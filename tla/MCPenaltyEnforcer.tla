-------------------------- MODULE MCPenaltyEnforcer --------------------------
EXTENDS PenaltyEnforcer, TLC

\* Workers and drivers are interchangeable.
Symmetry == Permutations(Workers) \union Permutations(Drivers)
=============================================================================
