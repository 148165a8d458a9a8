---------------------------- MODULE MCTurnLease ----------------------------
EXTENDS TurnLease, TLC
Symmetry == Permutations(Turns) \cup Permutations(Sessions)
=============================================================================
