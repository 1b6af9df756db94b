--------------------------- MODULE MC_Refinement ----------------------------
EXTENDS ProvisioningRefinement, TLC

CONSTANTS r1, r2, d, a

MCProcs == {r1, r2}
MCAccounts == {d, a}

=============================================================================
