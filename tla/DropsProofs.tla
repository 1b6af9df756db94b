---------------------------- MODULE DropsProofs -----------------------------
(***************************************************************************)
(* Proofs about deploy.js against a node that may restart and forget its   *)
(* mempool (module ProvisioningDrops).  Termination is lost there (run     *)
(* drops_hang), but the gas bookkeeping and the token's all-or-nothing     *)
(* movement are not: for every value of the constants and every recipient, *)
(* RestartInv holds and the tokens of a contract move once and wholly.     *)
(* The node model over-approximates ethers (it lets a wait return where    *)
(* ethers throws TRANSACTION_REPLACED), so nothing about ownership is      *)
(* used and the results hold a fortiori for the code.                      *)
(***************************************************************************)
EXTENDS ProvisioningDrops, TokenProofs

USE ConstantsAssumption

\* The deployer's balance in a distributed contract: the whole supply when
\* the recipient is the deployer (then Credited is Minted), zero otherwise.
LEMMA CreditedShape ==
    /\ Recipient = Deployer => Credited = Minted
    /\ Recipient # Deployer => Credited[Deployer] = 0
    /\ Minted[Deployer] = InitialSupply
    /\ Minted \in [Accounts -> Nat] /\ Credited \in [Accounts -> Nat]
<1>1. Recipient = Deployer => Credited = Minted
      BY DEF Credited, Minted
<1>2. Recipient # Deployer => Credited[Deployer] = 0
      BY DEF Credited, Minted
<1>3. Minted[Deployer] = InitialSupply /\ Minted \in [Accounts -> Nat]
      BY DEF Minted
<1>4. Credited \in [Accounts -> Nat] BY <1>3 DEF Credited
<1>5. QED BY <1>1, <1>2, <1>3, <1>4

\* A contract whose balances are all-or-nothing holds at the deployer
\* either the whole supply or nothing; the whole supply only while it is
\* still as the constructor left it.
LEMMA DeployerHoldsAllOrNothing ==
    ASSUME NEW l \in {Minted, Credited}
    PROVE  /\ l[Deployer] \in {InitialSupply, 0}
           /\ l[Deployer] >= InitialSupply => l = Minted
<1>1. CASE Recipient = Deployer BY <1>1, CreditedShape
<1>2. CASE Recipient # Deployer BY <1>2, CreditedShape
<1>3. QED BY <1>1, <1>2

LEMMA InitRestartInv == Init => RestartInv
BY DEF Init, RestartInv, TypeOK, PoolNonces, PendingPaid, TransfersTargetCode,
       DeployedConfirmed, LedgerShapes, BalanceIsSupply, PendingWhole,
       Labels, NoAddress, NoExit, Errors

\* The steps of one invocation that send nothing keep RestartInv; readBack
\* reads all or nothing, and goes on to transfer only with all.
LEMMA LocalStepRestart ==
    ASSUME RestartInv, NEW p \in Procs,
           getSigners(p) \/ getBalance(p) \/ deploy(p)
             \/ waitForDeployment(p) \/ readBack(p) \/ transfer(p)
             \/ wait(p) \/ rpcFail(p)
    PROVE  RestartInv'
<1> USE DEF RestartInv, TypeOK, PoolNonces, PendingPaid, TransfersTargetCode,
            DeployedConfirmed, LedgerShapes, BalanceIsSupply, PendingWhole,
            Labels, NoAddress, NoExit, Errors, Fail, Succeed, Goto, chain
<1>1. CASE getSigners(p)        BY <1>1 DEF getSigners
<1>2. CASE getBalance(p)        BY <1>2 DEF getBalance
<1>3. CASE deploy(p)            BY <1>3 DEF deploy
<1>4. CASE waitForDeployment(p) BY <1>4 DEF waitForDeployment
<1>5. CASE readBack(p)
  <2>1. contract[p] \in deployed BY <1>5 DEF readBack
  <2>2. ledger[contract[p]][Deployer] \in {InitialSupply, 0}
        BY <2>1, DeployerHoldsAllOrNothing
  <2>3. bal' = [bal EXCEPT ![p] = ledger[contract[p]][Deployer]]
        BY <1>5 DEF readBack
  <2>4. bal'[p] > 0 => bal'[p] = InitialSupply BY <2>2, <2>3
  <2>5. QED BY <1>5, <2>2, <2>3, <2>4 DEF readBack
<1>6. CASE transfer(p)          BY <1>6 DEF transfer
<1>7. CASE wait(p)              BY <1>7 DEF wait
<1>8. CASE rpcFail(p)           BY <1>8 DEF rpcFail
<1>9. QED BY <1>1, <1>2, <1>3, <1>4, <1>5, <1>6, <1>7, <1>8

\* A transaction sent at the pending nonce keeps the mempool's bookkeeping,
\* and a transfer carries the supply read at line 49.
LEMMA SendRestart ==
    ASSUME RestartInv, NEW p \in Procs,
           deploySend(p) \/ transferSend(p) \/ sendLost(p)
    PROVE  RestartInv'
<1> USE DEF RestartInv, TypeOK, TransfersTargetCode, DeployedConfirmed,
            LedgerShapes, BalanceIsSupply, Labels, NoAddress, NoExit, Errors,
            Fail, Goto
<1> DEFINE tx == IF pc[p] = "deploySend" THEN DeployTx(nonceRead[p])
                                         ELSE TransferTx(nonceRead[p], p)
<1>1. CASE Admissible(nonceRead[p]) /\ (deploySend(p) \/ sendLost(p)
                                         \/ transferSend(p))
  <2>1. pc[p] \in {"deploySend", "transferSend"} /\ nonceRead[p] = next
        BY <1>1 DEF deploySend, transferSend, sendLost, Admissible
  <2>2. pc[p] = "transferSend" =>
          contract[p] \in deployed /\ RecipientIsAddress
          /\ bal[p] = InitialSupply
        BY <2>1
  <2>3. /\ tx \in Tx /\ tx.nonce = next
        /\ tx.kind = "transfer" =>
              /\ tx.contract \in deployed /\ tx.to \in Accounts
              /\ tx.amount = InitialSupply /\ tx.to = Recipient
        BY <2>1, <2>2 DEF DeployTx, TransferTx, Tx, RecipientIsAddress
  <2>4. Submit(tx) /\ UNCHANGED <<native, acctNonce, deployed>>
        BY <1>1, <2>1 DEF deploySend, transferSend, sendLost
  <2>5. /\ PoolNonces' /\ PendingPaid'
        /\ \A t \in pool' : t.kind = "transfer" =>
                              t.contract \in deployed' /\ t.to \in Accounts
        /\ pool' \subseteq Tx /\ next' \in Nat /\ next' = next + 1
        BY <1>1, <2>1, <2>3, <2>4, SubmitPool DEF PoolNonces, PendingPaid
  <2>6. PendingWhole' BY <2>3, <2>4 DEF PendingWhole, Submit
  <2>7. CASE deploySend(p)
        BY <1>1, <2>1, <2>5, <2>6, <2>7 DEF deploySend
  <2>8. CASE transferSend(p)
        BY <1>1, <2>1, <2>5, <2>6, <2>8 DEF transferSend
  <2>9. CASE sendLost(p)
        BY <1>1, <2>5, <2>6, <2>9 DEF sendLost
  <2>10. QED BY <1>1, <2>7, <2>8, <2>9
<1>2. CASE ~Admissible(nonceRead[p]) /\ (deploySend(p) \/ transferSend(p))
      BY <1>2 DEF deploySend, transferSend, PoolNonces, PendingPaid,
                  PendingWhole
<1>3. ~Admissible(nonceRead[p]) => ~sendLost(p) BY DEF sendLost
<1>4. QED BY <1>1, <1>2, <1>3

\* A transfer the node can carry out finds its contract as the constructor
\* left it, and leaves it Credited.
LEMMA MineTransferCredits ==
    ASSUME RestartInv, NEW tx \in pool, tx.kind # "deploy", TransferOk(tx)
    PROVE  /\ tx \in Tx /\ tx.contract \in deployed
           /\ ledger[tx.contract] = Minted
           /\ AfterTransfer(tx) = [ledger EXCEPT ![tx.contract] = Credited]
<1>1. /\ tx \in Tx /\ tx.kind = "transfer"
      /\ tx.contract \in deployed /\ tx.to \in Accounts
      /\ tx.amount = InitialSupply /\ tx.to = Recipient
      BY DEF RestartInv, TypeOK, Tx, TransfersTargetCode, PendingWhole
<1>2. ledger[tx.contract] \in {Minted, Credited}
      BY <1>1 DEF RestartInv, LedgerShapes
<1>3. ledger[tx.contract][Deployer] >= InitialSupply
      BY <1>1 DEF TransferOk
<1>4. ledger[tx.contract] = Minted
      BY <1>2, <1>3, DeployerHoldsAllOrNothing
<1>5. RecipientIsAddress BY <1>1 DEF RecipientIsAddress
<1>6. QED BY <1>1, <1>4, <1>5, CreditWhole DEF RestartInv

\* Mining the transaction at the confirmed nonce keeps RestartInv.
LEMMA MineRestart ==
    ASSUME RestartInv, Mine
    PROVE  RestartInv'
<1>0. TypeOK /\ PoolNonces /\ PendingPaid /\ DeployedConfirmed
      BY DEF RestartInv
<1>1. PICK tx \in pool :
        /\ tx.nonce = acctNonce
        /\ pool' = pool \ {tx}
        /\ acctNonce' = acctNonce + 1
        /\ native' = native - GasCost
        /\ IF tx.kind = "deploy"
             THEN /\ deployed' = deployed \cup {tx.nonce}
                  /\ ledger' = [c \in deployed' |->
                                  IF c = tx.nonce THEN Minted ELSE ledger[c]]
                  /\ UNCHANGED reverted
             ELSE /\ UNCHANGED deployed
                  /\ IF TransferOk(tx)
                       THEN ledger' = AfterTransfer(tx) /\ UNCHANGED reverted
                       ELSE reverted' = reverted \cup {tx.nonce}
                            /\ UNCHANGED ledger
        /\ UNCHANGED <<privateKey, nodeAccounts, next, run>>
      BY DEF Mine
<1>2. tx \in Tx /\ acctNonce < next /\ acctNonce \in Nat /\ next \in Nat
      BY <1>0, <1>1 DEF PoolNonces, TypeOK
<1>3. PoolNonces'
  <2>1. acctNonce' <= next' BY <1>1, <1>2
  <2>2. ASSUME NEW t \in pool' PROVE acctNonce' <= t.nonce /\ t.nonce < next
    <3>1. t \in pool /\ t # tx BY <1>1
    <3>2. t.nonce # tx.nonce BY <1>0, <3>1 DEF PoolNonces
    <3>3. t \in Tx /\ acctNonce <= t.nonce /\ t.nonce < next
          BY <1>0, <3>1 DEF PoolNonces, TypeOK
    <3>4. QED BY <1>1, <1>2, <3>2, <3>3 DEF Tx
  <2>3. \A t1, t2 \in pool' : t1.nonce = t2.nonce => t1 = t2
        BY <1>0, <1>1 DEF PoolNonces
  <2>4. QED BY <1>1, <2>1, <2>2, <2>3 DEF PoolNonces
<1>4. PendingPaid' /\ native' \in Nat
  <2> DEFINE k == next - acctNonce - 1
  <2>1. k \in Int /\ k >= 0 BY <1>2
  <2>2. native >= GasCost * (k + 1) /\ native \in Int
        BY <1>0 DEF PendingPaid, TypeOK
  <2>3. native - GasCost >= GasCost * k /\ native - GasCost >= 0
        BY <2>1, <2>2, GasArith
  <2>4. next - acctNonce' = k BY <1>1, <1>2
  <2>5. native' \in Nat BY <1>1, <2>2, <2>3
  <2>6. QED BY <1>1, <2>3, <2>4, <2>5 DEF PendingPaid
<1>5. (TransfersTargetCode /\ BalanceIsSupply /\ PendingWhole)'
  <2>1. deployed \subseteq deployed' BY <1>1
  <2>2. QED BY <1>1, <2>1 DEF RestartInv, TransfersTargetCode,
                             BalanceIsSupply, PendingWhole, run
<1>6. /\ deployed' \subseteq Nat /\ reverted' \subseteq Nat
      /\ pool' \subseteq Tx /\ acctNonce' \in Nat
  <2>1. tx.nonce \in Nat BY <1>2 DEF Tx
  <2>2. deployed \subseteq Nat /\ reverted \subseteq Nat /\ pool \subseteq Tx
        BY <1>0 DEF TypeOK
  <2>3. deployed' \subseteq deployed \cup {tx.nonce}
        /\ reverted' \subseteq reverted \cup {tx.nonce}
        BY <1>1
  <2>4. QED BY <1>1, <1>2, <2>1, <2>2, <2>3
<1>7. CASE tx.kind = "deploy"
  <2>1. acctNonce \notin deployed BY <1>0, <1>2 DEF DeployedConfirmed, TypeOK
  <2>2. deployed' = deployed \cup {acctNonce}
        /\ ledger' = [c \in deployed' |->
                        IF c = acctNonce THEN Minted ELSE ledger[c]]
        BY <1>1, <1>7
  <2>3. (LedgerShapes /\ DeployedConfirmed)'
        BY <1>0, <1>1, <1>2, <2>1, <2>2
        DEF RestartInv, LedgerShapes, DeployedConfirmed, TypeOK
  <2>4. (ledger \in [deployed -> [Accounts -> Nat]])'
        BY <1>0, <2>2, CreditedShape DEF TypeOK
  <2>5. QED BY <1>0, <1>1, <1>3, <1>4, <1>5, <1>6, <2>3, <2>4
            DEF RestartInv, TypeOK, run
<1>8. CASE tx.kind # "deploy"
  <2>1. deployed' = deployed BY <1>1, <1>8
  <2>2. \/ ledger' = [ledger EXCEPT ![tx.contract] = Credited]
           /\ tx.contract \in deployed
        \/ ledger' = ledger
        BY <1>1, <1>8, MineTransferCredits
  <2>3. (LedgerShapes /\ ledger \in [deployed -> [Accounts -> Nat]])'
        BY <1>0, <2>1, <2>2, CreditedShape DEF RestartInv, LedgerShapes, TypeOK
  <2>4. DeployedConfirmed' BY <1>0, <1>1, <1>2, <2>1 DEF DeployedConfirmed, TypeOK
  <2>5. QED BY <1>0, <1>1, <1>3, <1>4, <1>5, <1>6, <2>3, <2>4
            DEF RestartInv, TypeOK, run
<1>9. QED BY <1>7, <1>8

\* A restart empties the mempool and rewinds the pending nonce to the
\* confirmed one: there is nothing left to pay for.
LEMMA NodeRestartKeeps ==
    ASSUME RestartInv, NodeRestart
    PROVE  RestartInv'
<1>1. native \in Nat /\ acctNonce \in Nat BY DEF RestartInv, TypeOK
<1>2. PendingPaid' BY <1>1 DEF NodeRestart, PendingPaid
<1>3. QED BY <1>1, <1>2
          DEF NodeRestart, RestartInv, TypeOK, PoolNonces, TransfersTargetCode,
              DeployedConfirmed, LedgerShapes, BalanceIsSupply, PendingWhole,
              run

LEMMA NextDropsRestart == RestartInv /\ [NextDrops]_vars => RestartInv'
<1> SUFFICES ASSUME RestartInv, [NextDrops]_vars PROVE RestartInv'
    OBVIOUS
<1>1. ASSUME NEW p \in Procs, Progress(p) \/ rpcFail(p) \/ sendLost(p)
      PROVE  RestartInv'
      BY <1>1, LocalStepRestart, SendRestart DEF Progress
<1>2. CASE Mine BY <1>2, MineRestart
<1>3. CASE NodeRestart BY <1>3, NodeRestartKeeps
<1>4. CASE Quiescent \/ UNCHANGED vars
      BY <1>4 DEF Quiescent, vars, chain, run, RestartInv, TypeOK,
                  PoolNonces, PendingPaid, TransfersTargetCode,
                  DeployedConfirmed, LedgerShapes, BalanceIsSupply,
                  PendingWhole, RecipientIsAddress
<1>5. QED BY <1>1, <1>2, <1>3, <1>4 DEF NextDrops, Next

\* However often the node restarts and forgets what deploy.js sent, the
\* deployer's native balance pays for every pending transaction and never
\* goes negative, every address past waitForDeployment (line 39) has code,
\* and every contract holds its supply all at the deployer or all at the
\* recipient (RestartInv).
THEOREM RestartInvariant == SpecDrops => []RestartInv
BY InitRestartInv, NextDropsRestart, PTL DEF SpecDrops

\* Node restarts never make a variable leave its type (TypeOK).
THEOREM RestartTypeCorrect == SpecDrops => []TypeOK
BY RestartInvariant, PTL DEF RestartInv

\* Every step of deploy.js and of a restarting node moves a contract's
\* tokens at most once and wholly.
LEMMA DropsTokenStep ==
    RestartInv /\ [NextDrops]_vars => [TokenStep]_vars
<1> SUFFICES ASSUME RestartInv, [NextDrops]_vars PROVE [TokenStep]_vars
    OBVIOUS
<1>1. ASSUME NEW p \in Procs, Progress(p) \/ rpcFail(p) \/ sendLost(p)
      PROVE  TokenStep
      BY <1>1, LocalChainUnchanged DEF TokenStep
<1>2. CASE Mine
  <2>1. PICK tx \in pool :
          /\ tx.nonce = acctNonce
          /\ IF tx.kind = "deploy"
               THEN /\ deployed' = deployed \cup {tx.nonce}
                    /\ ledger' = [c \in deployed' |->
                                    IF c = tx.nonce THEN Minted ELSE ledger[c]]
               ELSE /\ UNCHANGED deployed
                    /\ IF TransferOk(tx)
                         THEN ledger' = AfterTransfer(tx)
                         ELSE UNCHANGED ledger
        BY <1>2 DEF Mine
  <2>2. CASE tx.kind = "deploy"
    <3>1. acctNonce \notin deployed
          BY DEF RestartInv, DeployedConfirmed, TypeOK
    <3>2. QED BY <2>1, <2>2, <3>1 DEF TokenStep
  <2>3. CASE tx.kind # "deploy" /\ ~TransferOk(tx)
        BY <2>1, <2>3 DEF TokenStep
  <2>4. CASE tx.kind # "deploy" /\ TransferOk(tx)
    <3>1. /\ tx.contract \in deployed /\ ledger[tx.contract] = Minted
          /\ ledger' = [ledger EXCEPT ![tx.contract] = Credited]
          /\ deployed' = deployed
          BY <2>1, <2>4, MineTransferCredits
    <3>2. QED BY <3>1 DEF TokenStep, RestartInv, TypeOK
  <2>5. QED BY <2>2, <2>3, <2>4
<1>3. CASE NodeRestart BY <1>3 DEF NodeRestart, TokenStep
<1>4. CASE Quiescent \/ UNCHANGED vars
  <2>1. deployed' = deployed /\ ledger' = ledger
        BY <1>4 DEF Quiescent, vars, chain
  <2>2. QED BY <2>1 DEF TokenStep
<1>5. QED BY <1>1, <1>2, <1>3, <1>4 DEF NextDrops, Next

\* With a node that may restart and forget pending transactions, the tokens
\* of a contract deploy.js created still move at most once and wholly
\* (TokensMoveOnce), for every recipient, the deployer and the shipped
\* placeholder included: the invariant RestartInv keeps every pending
\* transfer whole, and a whole transfer finds the supply or reverts.
THEOREM RestartTokensMoveOnce == SpecDrops => TokensMoveOnce
<1>1. RestartInv /\ [NextDrops]_vars => RestartInv'
      BY NextDropsRestart
<1>2. RestartInv /\ [NextDrops]_vars => [TokenStep]_vars
      BY DropsTokenStep
<1>3. QED BY InitRestartInv, <1>1, <1>2, PTL DEF SpecDrops, TokensMoveOnce
=============================================================================
