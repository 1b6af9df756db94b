-------------------------- MODULE MC_Provisioning --------------------------
(* Two concurrent invocations, a deployer and one recipient account.       *)
EXTENDS Provisioning, TLC

CONSTANTS r1, r2, d, a

MCProcs == {r1, r2}
MCAccounts == {d, a}

=============================================================================
