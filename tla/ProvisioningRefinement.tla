----------------------- MODULE ProvisioningRefinement -----------------------
(***************************************************************************)
(* Provisioning implements ProvisioningAbstract when the recipient is an   *)
(* address other than the deployer.  The refinement mapping reads the      *)
(* abstract state off the chain and the invocations:                       *)
(*   - a contract exists once its creation transaction is mined, and is    *)
(*     distributed once the deployer's balance in it is zero;              *)
(*   - an invocation owns the address deploy() returned to it at line 36,  *)
(*     from the moment code is there;                                      *)
(*   - an invocation's outcome is its exit code.                           *)
(* A creation whose answer was lost is a contract nobody owns.             *)
(***************************************************************************)
EXTENDS Provisioning

\* Every address is a nonce of the deployer, and every nonce used costs
\* GasCost >= 1 of a native balance of at most MaxNative.
ContractAddresses == 0..MaxNative

StatusOf(c) == IF ledger[c][Deployer] = 0 THEN "distributed" ELSE "held"

OwnerOf(p) == IF contract[p] \in deployed THEN contract[p] ELSE NoAddress

OutcomeOf(p) ==
    CASE exitCode[p] = NoExit -> "running"
      [] exitCode[p] = 0      -> "ok"
      [] exitCode[p] = 1      -> "failed"

absStatus == [c \in deployed |-> StatusOf(c)]
absOwner == [p \in Procs |-> OwnerOf(p)]
absOutcome == [p \in Procs |-> OutcomeOf(p)]

A == INSTANCE ProvisioningAbstract WITH
        Addresses <- ContractAddresses,
        NoOwner   <- NoAddress,
        status    <- absStatus,
        owner     <- absOwner,
        outcome   <- absOutcome

\* The native balance spent on mined transactions and the balance left
\* never exceed the initial balance, so no nonce exceeds MaxNative.
NonceBudget == native + GasCost * acctNonce <= MaxNative

\* Every behaviour of the script and the node is one of the abstract
\* workflow: only a contract some invocation deployed and learnt of is
\* emptied at the deployer, and an invocation exits 0 only after the
\* contract deploy() returned to it has been emptied (lines 36-75).
Refines == A!ASpec

=============================================================================
