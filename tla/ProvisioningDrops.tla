------------------------- MODULE ProvisioningDrops --------------------------
(***************************************************************************)
(* A fault of the node that Provisioning leaves out: the node restarts and *)
(* loses its mempool.  The CometBFT mempool of a Haqq node is kept in      *)
(* memory only, so a restart (or an eviction of the deployer's pending     *)
(* transactions) forgets every transaction that was not yet in a block.    *)
(* The pending nonce of the deployer falls back to the confirmed one.      *)
(* deploy.js has no timeout at lines 39 and 64 and never resends, so an    *)
(* invocation waiting on a forgotten transaction waits until something is *)
(* mined at its nonce.  The node here over-approximates ethers: when       *)
(* another transaction takes that nonce, ethers' wait() throws             *)
(* TRANSACTION_REPLACED (a failure the model has as rpcFail), while        *)
(* waitForDeployment and wait below may also return.  Every behaviour of   *)
(* the code is one of the model, so what holds here holds for the code.   *)
(***************************************************************************)
EXTENDS Provisioning

\* The node restarts with an empty mempool.  Nothing of the chain that was
\* mined changes; the invocations do not notice.
NodeRestart ==
    /\ pool # {}
    /\ pool' = {}
    /\ next' = acctNonce
    /\ UNCHANGED <<privateKey, nodeAccounts, native, acctNonce, deployed,
                   ledger, reverted, run>>

NextDrops == Next \/ NodeRestart

\* The script and the node are scheduled as in Provisioning; restarts are
\* possible but never forced.
SpecDrops == Init /\ [][NextDrops]_vars /\ Fairness

\* A transfer in the mempool moves the whole supply to the recipient: the
\* balance of line 49 is read from a contract holding all or nothing at
\* the deployer, even in the over-approximating runs where a restart let
\* another invocation's contract take the address this one waits on.
PendingWhole ==
    \A tx \in pool :
        tx.kind = "transfer" => tx.amount = InitialSupply /\ tx.to = Recipient

\* What survives a restart of the node: types, the nonce and gas bookkeeping
\* of the mempool, code behind every address past waitForDeployment, and
\* all-or-nothing balances.  The facts about addresses of IInv and about
\* ownership of Ownership are not kept by this over-approximation: in it,
\* two invocations may hold the same address after a restart.
RestartInv ==
    /\ TypeOK /\ PoolNonces /\ PendingPaid /\ TransfersTargetCode
    /\ DeployedConfirmed /\ LedgerShapes /\ BalanceIsSupply /\ PendingWhole

=============================================================================
