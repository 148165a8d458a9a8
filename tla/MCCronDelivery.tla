--------------------------- MODULE MCCronDelivery ---------------------------
EXTENDS CronDelivery, TLC
Symmetry == Permutations(Executions)
=============================================================================
