---------------------------- MODULE MCSpscQueue ----------------------------
EXTENDS SpscQueue, TLC

\* The queue never looks at an item, so the items are interchangeable.
ItemSymmetry == Permutations(Items)
=============================================================================
