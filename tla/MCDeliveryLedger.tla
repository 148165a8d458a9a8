-------------------------- MODULE MCDeliveryLedger --------------------------
EXTENDS DeliveryLedger, TLC
Symmetry == Permutations(Gateways \ Steady)
=============================================================================
