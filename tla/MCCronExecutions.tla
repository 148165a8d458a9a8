-------------------------- MODULE MCCronExecutions --------------------------
EXTENDS CronExecutions, TLC
Symmetry == Permutations(Executions)
=============================================================================
