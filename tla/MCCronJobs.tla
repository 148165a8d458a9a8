----------------------------- MODULE MCCronJobs -----------------------------
EXTENDS CronJobs, TLC
Symmetry == Permutations(Attempts)
=============================================================================
