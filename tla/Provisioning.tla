---------------------------- MODULE Provisioning ----------------------------
(***************************************************************************)
(* The token provisioning workflow of contracts/scripts/deploy.js, run     *)
(* against an Ethereum JSON-RPC node configured by hardhat.config.js.      *)
(*                                                                         *)
(* Each element of Procs is one invocation of the script (one Node.js      *)
(* process running main()).  Invocations share the deployer account: its   *)
(* native balance, its nonce and the node's mempool.  The node admits a    *)
(* transaction only at the account's next pending nonce and only if the    *)
(* balance covers the gas of every pending transaction; it mines pending   *)
(* transactions in nonce order.  A contract's address is derived from the *)
(* deployer and the nonce of its creation transaction, so an address is   *)
(* modelled by that nonce.  The HaqqTestToken contract (its source lives   *)
(* outside src/) is modelled from the spec: the constructor mints the     *)
(* initial supply to the deployer, transfer moves tokens or reverts.      *)
(***************************************************************************)
EXTENDS Integers, FiniteSets

CONSTANTS
    Procs,          \* invocations of the script
    Accounts,       \* addresses that hold tokens
    Deployer,       \* the first signer of hardhat.config.js
    Recipient,      \* RECIPIENT_WALLET; may be a string that is no address
    InitialSupply,  \* parseEther("1000000"), abstracted to a small number
    GasCost,        \* native currency one mined transaction costs
    MaxNative       \* largest initial native balance of the deployer

ASSUME ConstantsAssumption ==
    /\ IsFiniteSet(Procs)
    /\ Deployer \in Accounts
    /\ InitialSupply \in Nat \ {0}
    /\ GasCost \in Nat \ {0}
    /\ MaxNative \in Nat

\* Sentinels for "no address / no nonce yet" and "has not exited yet".
NoAddress == -1
NoExit == -1

\* Mutant: the taxonomy leaves out the failures of awaited RPC calls.
ErrorsNoNetwork == {"NoSigner", "NoFunds", "Rejected", "InvalidRecipient",
                    "Reverted"}

\* The errors main() can throw, by the check or the call that throws them.
Errors == {"NoSigner", "NoFunds", "Rejected", "Network",
           "InvalidRecipient", "Reverted"}

Labels == {"getSigners", "getBalance", "deploy", "deploySend",
           "waitForDeployment", "readBack", "transfer", "transferSend",
           "wait", "done"}

\* A pending transaction of the deployer.
Tx == [nonce : Nat, kind : {"deploy", "transfer"},
       contract : Nat \cup {NoAddress}, to : Accounts \cup {Recipient},
       amount : Nat]

VARIABLES
    privateKey,    \* process.env.PRIVATE_KEY is set
    nodeAccounts,  \* the node has unlocked accounts (eth_accounts)
    native,        \* native balance of the deployer
    acctNonce,     \* nonce of the deployer in the latest block
    next,          \* the node's pending nonce of the deployer
    pool,          \* the deployer's transactions in the mempool
    deployed,      \* addresses that hold contract code
    ledger,        \* ledger[c][a]: balanceOf(a) in contract c
    reverted,      \* nonces of mined transactions that reverted
    pc,            \* where each invocation is in main()
    nonceRead,     \* nonce ethers read for the transaction being sent
    contract,      \* haqqTestToken's address, once deploy() returned
    txNonce,       \* nonce of transferTx, once transfer() returned
    bal,           \* deployerTokenBalance read at line 49
    exitCode,      \* argument of process.exit
    err            \* the error the top-level catch logged

chain == <<native, acctNonce, next, pool, deployed, ledger, reverted>>
run == <<pc, nonceRead, contract, txNonce, bal, exitCode, err>>
vars == <<privateKey, nodeAccounts, chain, run>>

RecipientIsAddress == Recipient \in Accounts

\* hardhat.config.js: accounts is [PRIVATE_KEY] when the variable is set,
\* and the node's own accounts otherwise; getSigners() lists them.
Signers == privateKey \/ nodeAccounts

\* The balance the constructor leaves: all of the supply at msg.sender.
Minted == [a \in Accounts |-> IF a = Deployer THEN InitialSupply ELSE 0]

\* The node accepts a signed transaction only at the next pending nonce
\* (a lower one is "nonce too low" or an underpriced replacement) and only
\* if the balance pays for it and for every transaction still pending.
Admissible(n) ==
    /\ n = next
    /\ native >= GasCost * (next - acctNonce + 1)

Submit(tx) ==
    /\ pool' = pool \cup {tx}
    /\ next' = next + 1

DeployTx(n) ==
    [nonce |-> n, kind |-> "deploy", contract |-> NoAddress,
     to |-> Deployer, amount |-> 0]

\* Mutant: the transfer moves one token more than the balance read.
TransferTxOverdrawn(n, p) ==
    [nonce |-> n, kind |-> "transfer", contract |-> contract[p],
     to |-> Recipient, amount |-> bal[p] + 1]

\* Mutant: the transfer leaves one token behind at the deployer.
TransferTxShort(n, p) ==
    [nonce |-> n, kind |-> "transfer", contract |-> contract[p],
     to |-> Recipient, amount |-> bal[p] - 1]

TransferTx(n, p) ==
    [nonce |-> n, kind |-> "transfer", contract |-> contract[p],
     to |-> Recipient, amount |-> bal[p]]

\* main() rejects: the catch logs the error and calls process.exit(1).
Fail(p, e) ==
    /\ pc' = [pc EXCEPT ![p] = "done"]
    /\ exitCode' = [exitCode EXCEPT ![p] = 1]
    /\ err' = [err EXCEPT ![p] = e]

\* main() resolves: process.exit(0).
Succeed(p) ==
    /\ pc' = [pc EXCEPT ![p] = "done"]
    /\ exitCode' = [exitCode EXCEPT ![p] = 0]
    /\ UNCHANGED err

Goto(p, l) == pc' = [pc EXCEPT ![p] = l]

-----------------------------------------------------------------------------
Init ==
    /\ privateKey \in BOOLEAN
    /\ nodeAccounts \in BOOLEAN
    /\ native \in 0..MaxNative
    /\ acctNonce = 0
    /\ next = 0
    /\ pool = {}
    /\ deployed = {}
    /\ ledger = [c \in {} |-> Minted]
    /\ reverted = {}
    /\ pc = [p \in Procs |-> "getSigners"]
    /\ nonceRead = [p \in Procs |-> NoAddress]
    /\ contract = [p \in Procs |-> NoAddress]
    /\ txNonce = [p \in Procs |-> NoAddress]
    /\ bal = [p \in Procs |-> 0]
    /\ exitCode = [p \in Procs |-> NoExit]
    /\ err = [p \in Procs |-> "none"]

\* Lines 10-13: const [deployer] = await getSigners(); throw if undefined.
getSigners(p) ==
    /\ pc[p] = "getSigners"
    /\ IF Signers THEN Goto(p, "getBalance") /\ UNCHANGED <<exitCode, err>>
                  ELSE Fail(p, "NoSigner")
    /\ UNCHANGED <<privateKey, nodeAccounts, chain, nonceRead, contract,
                   txNonce, bal>>

\* Lines 15-21: read the native balance and throw if it is exactly zero.
getBalance(p) ==
    /\ pc[p] = "getBalance"
    /\ IF native = 0 THEN Fail(p, "NoFunds")
                     ELSE Goto(p, "deploy") /\ UNCHANGED <<exitCode, err>>
    /\ UNCHANGED <<privateKey, nodeAccounts, chain, nonceRead, contract,
                   txNonce, bal>>

\* Line 36, first half: HaqqTestToken.deploy(...) populates the creation
\* transaction with the pending nonce of the signer.
deploy(p) ==
    /\ pc[p] = "deploy"
    /\ nonceRead' = [nonceRead EXCEPT ![p] = next]
    /\ Goto(p, "deploySend")
    /\ UNCHANGED <<privateKey, nodeAccounts, chain, contract, txNonce, bal,
                   exitCode, err>>

\* Mutant: the address is computed from the nonce of the latest block.
deploySendLatestNonce(p) ==
    /\ pc[p] = "deploySend"
    /\ IF Admissible(nonceRead[p])
         THEN /\ Submit(DeployTx(nonceRead[p]))
              /\ contract' = [contract EXCEPT ![p] = acctNonce]
              /\ Goto(p, "waitForDeployment")
              /\ UNCHANGED <<exitCode, err>>
         ELSE /\ Fail(p, "Rejected")
              /\ UNCHANGED <<pool, next, contract>>
    /\ UNCHANGED <<privateKey, nodeAccounts, native, acctNonce, deployed,
                   ledger, reverted, nonceRead, txNonce, bal>>

\* Mutant: the address is computed from the nonce after the one used.
deploySendNextNonce(p) ==
    /\ pc[p] = "deploySend"
    /\ IF Admissible(nonceRead[p])
         THEN /\ Submit(DeployTx(nonceRead[p]))
              /\ contract' = [contract EXCEPT ![p] = nonceRead[p] + 1]
              /\ Goto(p, "waitForDeployment")
              /\ UNCHANGED <<exitCode, err>>
         ELSE /\ Fail(p, "Rejected")
              /\ UNCHANGED <<pool, next, contract>>
    /\ UNCHANGED <<privateKey, nodeAccounts, native, acctNonce, deployed,
                   ledger, reverted, nonceRead, txNonce, bal>>

\* Line 36, second half: eth_sendRawTransaction.  On acceptance deploy()
\* returns a contract whose address is computed from the nonce it used;
\* on rejection it throws.
deploySend(p) ==
    /\ pc[p] = "deploySend"
    /\ IF Admissible(nonceRead[p])
         THEN /\ Submit(DeployTx(nonceRead[p]))
              /\ contract' = [contract EXCEPT ![p] = nonceRead[p]]
              /\ Goto(p, "waitForDeployment")
              /\ UNCHANGED <<exitCode, err>>
         ELSE /\ Fail(p, "Rejected")
              /\ UNCHANGED <<pool, next, contract>>
    /\ UNCHANGED <<privateKey, nodeAccounts, native, acctNonce, deployed,
                   ledger, reverted, nonceRead, txNonce, bal>>

\* Lines 39-40: waitForDeployment() returns once the address has code.
waitForDeployment(p) ==
    /\ pc[p] = "waitForDeployment"
    /\ contract[p] \in deployed
    /\ Goto(p, "readBack")
    /\ UNCHANGED <<privateKey, nodeAccounts, chain, nonceRead, contract,
                   txNonce, bal, exitCode, err>>

\* Mutant: balanceOf is asked for the recipient instead of the deployer.
readBackWrongHolder(p) ==
    /\ pc[p] = "readBack"
    /\ bal' = [bal EXCEPT ![p] = IF RecipientIsAddress
                                   THEN ledger[contract[p]][Recipient]
                                   ELSE 0]
    /\ IF bal'[p] > 0 THEN Goto(p, "transfer") /\ UNCHANGED <<exitCode, err>>
                      ELSE Succeed(p)
    /\ UNCHANGED <<privateKey, nodeAccounts, chain, nonceRead, contract,
                   txNonce>>

\* Lines 42-54 and 69-71: read back the metadata and balanceOf(deployer);
\* with a zero balance main() prints a notice and resolves.
readBack(p) ==
    /\ pc[p] = "readBack"
    /\ bal' = [bal EXCEPT ![p] = ledger[contract[p]][Deployer]]
    /\ IF bal'[p] > 0 THEN Goto(p, "transfer") /\ UNCHANGED <<exitCode, err>>
                      ELSE Succeed(p)
    /\ UNCHANGED <<privateKey, nodeAccounts, chain, nonceRead, contract,
                   txNonce>>

\* Line 60, first half: transfer(RECIPIENT_WALLET, ...) resolves its
\* address argument (a string that is no address is looked up as an ENS
\* name, which this network does not support) and then reads the nonce.
transfer(p) ==
    /\ pc[p] = "transfer"
    /\ IF RecipientIsAddress
         THEN /\ nonceRead' = [nonceRead EXCEPT ![p] = next]
              /\ Goto(p, "transferSend")
              /\ UNCHANGED <<exitCode, err>>
         ELSE /\ Fail(p, "InvalidRecipient")
              /\ UNCHANGED nonceRead
    /\ UNCHANGED <<privateKey, nodeAccounts, chain, contract, txNonce, bal>>

\* Line 60, second half: send the transfer of the whole balance read.
transferSend(p) ==
    /\ pc[p] = "transferSend"
    /\ IF Admissible(nonceRead[p])
         THEN /\ Submit(TransferTx(nonceRead[p], p))
              /\ txNonce' = [txNonce EXCEPT ![p] = nonceRead[p]]
              /\ Goto(p, "wait")
              /\ UNCHANGED <<exitCode, err>>
         ELSE /\ Fail(p, "Rejected")
              /\ UNCHANGED <<pool, next, txNonce>>
    /\ UNCHANGED <<privateKey, nodeAccounts, native, acctNonce, deployed,
                   ledger, reverted, nonceRead, contract, bal>>

\* Mutant: the transfer is not awaited (a dropped await of wait()).
waitNotAwaited(p) ==
    /\ pc[p] = "wait"
    /\ IF txNonce[p] \in reverted THEN Fail(p, "Reverted") ELSE Succeed(p)
    /\ UNCHANGED <<privateKey, nodeAccounts, chain, nonceRead, contract,
                   txNonce, bal>>

\* Lines 64-68: transferTx.wait() returns the receipt once mined and throws
\* if the transaction reverted; then the balances are printed.
wait(p) ==
    /\ pc[p] = "wait"
    /\ txNonce[p] < acctNonce
    /\ IF txNonce[p] \in reverted THEN Fail(p, "Reverted") ELSE Succeed(p)
    /\ UNCHANGED <<privateKey, nodeAccounts, chain, nonceRead, contract,
                   txNonce, bal>>

\* Any awaited RPC call of lines 10-68 rejects (node unreachable, timeout);
\* the error reaches the top-level catch.
rpcFail(p) ==
    /\ pc[p] # "done"
    /\ Fail(p, "Network")
    /\ UNCHANGED <<privateKey, nodeAccounts, chain, nonceRead, contract,
                   txNonce, bal>>

\* Line 36 or 60: the node accepted the transaction but its answer was
\* lost, so the call rejects while the transaction stays in the mempool.
sendLost(p) ==
    /\ pc[p] \in {"deploySend", "transferSend"}
    /\ Admissible(nonceRead[p])
    /\ Submit(IF pc[p] = "deploySend" THEN DeployTx(nonceRead[p])
                                      ELSE TransferTx(nonceRead[p], p))
    /\ Fail(p, "Network")
    /\ UNCHANGED <<privateKey, nodeAccounts, native, acctNonce, deployed,
                   ledger, reverted, nonceRead, contract, txNonce, bal>>

-----------------------------------------------------------------------------
(* The node mines the pending transaction with the account's nonce.        *)

\* ERC20 transfer of HaqqTestToken: moves amount from the deployer to tx.to
\* (debit first, then credit) or reverts when the balance is too small.
TransferOk(tx) == ledger[tx.contract][Deployer] >= tx.amount

AfterTransfer(tx) ==
    LET debited == [ledger[tx.contract] EXCEPT ![Deployer] = @ - tx.amount]
    IN  [ledger EXCEPT ![tx.contract] = [debited EXCEPT ![tx.to] = @ + tx.amount]]

Mine ==
    \E tx \in pool :
       /\ tx.nonce = acctNonce
       /\ pool' = pool \ {tx}
       /\ acctNonce' = acctNonce + 1
       /\ native' = native - GasCost
       /\ IF tx.kind = "deploy"
            THEN /\ deployed' = deployed \cup {tx.nonce}
                 /\ ledger' = [c \in deployed' |->
                                 IF c = tx.nonce THEN Minted ELSE ledger[c]]
                 /\ UNCHANGED reverted
            ELSE /\ UNCHANGED deployed
                 /\ IF TransferOk(tx)
                      THEN ledger' = AfterTransfer(tx) /\ UNCHANGED reverted
                      ELSE reverted' = reverted \cup {tx.nonce}
                           /\ UNCHANGED ledger
       /\ UNCHANGED <<privateKey, nodeAccounts, next, run>>

\* Every invocation has exited and nothing is pending: the system rests.
Quiescent ==
    /\ \A p \in Procs : pc[p] = "done"
    /\ pool = {}
    /\ UNCHANGED vars

\* The steps main() takes by itself, without a failure of the node.
Progress(p) ==
    \/ getSigners(p) \/ getBalance(p) \/ deploy(p) \/ deploySend(p)
    \/ waitForDeployment(p) \/ readBack(p) \/ transfer(p)
    \/ transferSend(p) \/ wait(p)

Next ==
    \/ \E p \in Procs : Progress(p) \/ rpcFail(p) \/ sendLost(p)
    \/ Mine
    \/ Quiescent

\* Node.js runs main() to its end and the node keeps producing blocks;
\* failures of the network are possible but never forced.
Fairness ==
    /\ \A p \in Procs : WF_vars(Progress(p))
    /\ WF_vars(Mine)

Spec == Init /\ [][Next]_vars /\ Fairness

-----------------------------------------------------------------------------
(* Properties.                                                             *)

\* Every variable holds a value of its kind.
TypeOK ==
    /\ privateKey \in BOOLEAN /\ nodeAccounts \in BOOLEAN
    /\ native \in Nat /\ acctNonce \in Nat /\ next \in Nat
    /\ pool \subseteq Tx
    /\ deployed \subseteq Nat
    /\ ledger \in [deployed -> [Accounts -> Nat]]
    /\ reverted \subseteq Nat
    /\ pc \in [Procs -> Labels]
    /\ nonceRead \in [Procs -> Nat \cup {NoAddress}]
    /\ contract \in [Procs -> Nat \cup {NoAddress}]
    /\ txNonce \in [Procs -> Nat \cup {NoAddress}]
    /\ bal \in [Procs -> Nat]
    /\ exitCode \in [Procs -> {NoExit, 0, 1}]
    /\ err \in [Procs -> Errors \cup {"none"}]

\* Non-idempotence (spec section 8): two invocations of the script, even
\* concurrent ones that read the same pending nonce at line 36, never hold
\* the same contract address.
DistinctContracts ==
    \A p, q \in Procs :
        p # q /\ contract[p] # NoAddress => contract[p] # contract[q]

\* With an address recipient, main() fails only with no signer, a zero
\* balance, a transaction the node rejects or a network failure: the
\* transfer of line 60, sent while other invocations' transactions are
\* pending on the same key, never reverts, and its recipient resolves.
DeclaredFailures == {"NoSigner", "NoFunds", "Rejected", "Network"}

OnlyDeclaredFailures ==
    \A p \in Procs : exitCode[p] = 1 => err[p] \in DeclaredFailures

\* Spec section 8: when the script exits 0 after finding a nonzero balance,
\* the recipient holds exactly that balance and the deployer holds none.
DistributedOnSuccess ==
    \A p \in Procs :
        exitCode[p] = 0 /\ bal[p] > 0 =>
            /\ ledger[contract[p]][Recipient] = bal[p]
            /\ ledger[contract[p]][Deployer] = 0

\* When every invocation exited 0, no contract the deployer created still
\* holds tokens at the deployer: nothing was deployed behind the script's
\* back (an accepted creation whose answer was lost) and left stranded.
SuccessLeavesNothingStranded ==
    (\A p \in Procs : exitCode[p] = 0) =>
        \A c \in deployed : ledger[c][Deployer] = 0

\* The inductive strengthening of TypeOK and DistinctContracts.  The node's
\* pending nonce is ahead of every nonce in the mempool and of every address
\* an invocation holds; the mempool has one transaction per nonce; the
\* balance pays for everything pending; a transfer in the mempool, or an
\* invocation past waitForDeployment, refers to a contract with code.
PoolNonces ==
    /\ acctNonce <= next
    /\ \A tx \in pool : acctNonce <= tx.nonce /\ tx.nonce < next
    /\ \A t1, t2 \in pool : t1.nonce = t2.nonce => t1 = t2

PendingPaid == native >= GasCost * (next - acctNonce)

TransfersTargetCode ==
    /\ \A tx \in pool :
          tx.kind = "transfer" => tx.contract \in deployed /\ tx.to \in Accounts
    /\ \A p \in Procs :
          pc[p] \in {"readBack", "transfer", "transferSend", "wait"} =>
              contract[p] \in deployed
    /\ \A p \in Procs : pc[p] \in {"transferSend", "wait"} => RecipientIsAddress

AddressesBelowNext ==
    \A p \in Procs : contract[p] # NoAddress => contract[p] < next

IInv ==
    /\ TypeOK
    /\ PoolNonces
    /\ PendingPaid
    /\ TransfersTargetCode
    /\ AddressesBelowNext
    /\ DistinctContracts

\* The balances of one contract after its supply went to the recipient:
\* the token's transfer applied to Minted with the whole supply.
Credited ==
    [[Minted EXCEPT ![Deployer] = 0] EXCEPT ![Recipient] = InitialSupply]

Owned(c) == \E p \in Procs : contract[p] = c

PendingTransfer(c) ==
    \E tx \in pool : tx.kind = "transfer" /\ tx.contract = c

NoRevert == reverted = {}

DeployedConfirmed == \A c \in deployed : c < acctNonce

FreshBeforeDeploy ==
    \A p \in Procs :
        pc[p] \in {"getSigners", "getBalance", "deploy", "deploySend"} =>
            contract[p] = NoAddress

LedgerShapes == \A c \in deployed : ledger[c] \in {Minted, Credited}

PendingFull ==
    \A tx \in pool :
        tx.kind = "transfer" =>
            /\ tx.amount = InitialSupply
            /\ tx.to = Recipient
            /\ ledger[tx.contract] = Minted
            /\ Owned(tx.contract)

OneTransferPerContract ==
    \A t1, t2 \in pool :
        t1.kind = "transfer" /\ t2.kind = "transfer" /\ t1.contract = t2.contract
            => t1 = t2

UntouchedBeforeTransfer ==
    \A p \in Procs :
        /\ pc[p] \in {"waitForDeployment", "readBack", "transfer",
                     "transferSend"}
        /\ contract[p] \in deployed
        => ledger[contract[p]] = Minted /\ ~PendingTransfer(contract[p])

BalanceIsSupply ==
    \A p \in Procs :
        pc[p] \in {"transfer", "transferSend", "wait"} => bal[p] = InitialSupply

WaitTracksTransfer ==
    \A p \in Procs :
        pc[p] = "wait" =>
            /\ txNonce[p] \in Nat
            /\ acctNonce <= txNonce[p] =>
                  \E tx \in pool : /\ tx.nonce = txNonce[p]
                                   /\ tx.kind = "transfer"
                                   /\ tx.contract = contract[p]
            /\ txNonce[p] < acctNonce => ledger[contract[p]] = Credited

ExitMeansDone == \A p \in Procs : exitCode[p] # NoExit => pc[p] = "done"

SuccessDistributed ==
    \A p \in Procs :
        exitCode[p] = 0 =>
            /\ contract[p] \in deployed
            /\ bal[p] = InitialSupply
            /\ ledger[contract[p]] = Credited

OrphansBesideFailure ==
    /\ \A c \in deployed : Owned(c) \/ \E p \in Procs : exitCode[p] = 1
    /\ \A tx \in pool :
          tx.kind = "deploy" => Owned(tx.nonce) \/ \E p \in Procs : exitCode[p] = 1

\* Only the invocation that deployed a contract moves its tokens, once, and
\* with the balance it read: so a contract holds its supply either all at
\* the deployer or all at the recipient, a pending transfer always finds
\* the whole supply at the deployer and never reverts, and an invocation
\* that exited 0 has its contract distributed.  A contract nobody owns
\* (its creation's answer was lost) exists only beside an exit 1.
Ownership ==
    /\ NoRevert /\ DeployedConfirmed /\ FreshBeforeDeploy /\ LedgerShapes
    /\ PendingFull /\ OneTransferPerContract /\ UntouchedBeforeTransfer
    /\ BalanceIsSupply /\ WaitTracksTransfer /\ ExitMeansDone
    /\ SuccessDistributed /\ OrphansBesideFailure

\* The strengthening of IInv for a recipient that is an address other than
\* the deployer, from which the properties about distribution follow.
OInv == IInv /\ Ownership

\* One step's effect on the tokens: a deployed contract stays deployed, and
\* its balances stay put or go from Minted to Credited.
TokenStep ==
    \A c \in deployed :
        /\ c \in deployed'
        /\ \/ ledger'[c] = ledger[c]
           \/ ledger[c] = Minted /\ ledger'[c] = Credited

\* The tokens of a contract move at most once and wholly: every step leaves
\* a deployed contract deployed, and either leaves its balances alone or
\* takes them from the constructor's (all at the deployer) to all at the
\* recipient.  Concurrent invocations share the deployer's key and a lost
\* answer leaves a transaction pending behind an exit 1; a transfer sent
\* for a contract that is not the sender's, or of less than its supply,
\* would break this.
TokensMoveOnce == [][TokenStep]_vars

\* main() has no timeout, yet every invocation ends: waitForDeployment and
\* wait return because the node mines what it accepted.
Termination == <>(\A p \in Procs : pc[p] = "done")

\* wait() at line 64 may reject (a network failure, an RPC timeout) while
\* the transfer it waits for is still pending: a transfer the node accepted
\* at line 60 is nevertheless mined and empties the deployer's balance of
\* that contract, whatever the invocation reported.  So an exit 1 after
\* line 60 does not mean the tokens stayed put, and re-running the script
\* would not retry this transfer but deploy another contract.
AcceptedTransferLands ==
    \A p \in Procs :
        txNonce[p] # NoAddress ~>
            contract[p] \in deployed /\ ledger[contract[p]][Deployer] = 0

=============================================================================
