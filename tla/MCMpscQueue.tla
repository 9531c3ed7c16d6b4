---------------------------- MODULE MCMpscQueue ----------------------------
EXTENDS MpscQueue, TLC

\* The pushers other than the consumer are interchangeable.
PusherSymmetry == Permutations(Pushers \ {Consumer})
=============================================================================
