-------------------------- MODULE OwnershipProofs ---------------------------
(***************************************************************************)
(* Proofs that deploy.js distributes what it deploys: for every value of  *)
(* the constants and a recipient that is an address, the invariant         *)
(* Ownership of module Provisioning holds together with IInv.  From it     *)
(* follow, when the recipient is not the deployer, DistributedOnSuccess,   *)
(* SuccessLeavesNothingStranded and OnlyDeclaredFailures.                  *)
(***************************************************************************)
EXTENDS ProvisioningProofs

USE ConstantsAssumption

\* The token's transfer of the whole supply out of a fresh contract leaves
\* it Credited, whether or not the recipient is the deployer.
LEMMA CreditWhole ==
    ASSUME TypeOK, RecipientIsAddress, NEW tx \in Tx,
           tx.contract \in deployed, ledger[tx.contract] = Minted,
           tx.amount = InitialSupply, tx.to = Recipient
    PROVE  AfterTransfer(tx) = [ledger EXCEPT ![tx.contract] = Credited]
<1> DEFINE debited == [ledger[tx.contract] EXCEPT ![Deployer] = @ - tx.amount]
<1>1. debited = [Minted EXCEPT ![Deployer] = 0]
      BY DEF Minted
<1>2. debited[tx.to] + tx.amount = InitialSupply
      BY <1>1 DEF Minted, RecipientIsAddress
<1>3. [debited EXCEPT ![tx.to] = @ + tx.amount]
        = [[Minted EXCEPT ![Deployer] = 0] EXCEPT ![Recipient] = InitialSupply]
      BY <1>1, <1>2
<1>4. QED BY <1>3 DEF AfterTransfer, Credited

\* The steps of one invocation that leave the chain alone keep Ownership.
LEMMA LocalStepOwnership ==
    ASSUME IInv, Ownership, RecipientIsAddress, NEW p \in Procs,
           getSigners(p) \/ getBalance(p) \/ deploy(p)
             \/ waitForDeployment(p) \/ readBack(p) \/ transfer(p)
             \/ wait(p) \/ rpcFail(p)
    PROVE  Ownership'
<1> USE DEF Ownership, NoRevert, DeployedConfirmed, FreshBeforeDeploy,
            LedgerShapes, PendingFull, OneTransferPerContract,
            UntouchedBeforeTransfer, BalanceIsSupply, WaitTracksTransfer,
            ExitMeansDone, SuccessDistributed, OrphansBesideFailure,
            Owned, PendingTransfer, NoExit, NoAddress, Fail,
            Succeed, Goto, chain, IInv, TypeOK
<1>1. CASE getSigners(p)      BY <1>1 DEF getSigners
<1>2. CASE getBalance(p)      BY <1>2 DEF getBalance
<1>3. CASE deploy(p)          BY <1>3 DEF deploy
<1>4. CASE waitForDeployment(p) BY <1>4 DEF waitForDeployment
<1>5. CASE readBack(p)
  <2>1. contract[p] \in deployed /\ ledger[contract[p]] = Minted
        BY <1>5 DEF readBack, IInv, TransfersTargetCode
  <2>2. bal'[p] = InitialSupply /\ InitialSupply > 0
        BY <1>5, <2>1 DEF readBack, Minted, IInv, TypeOK
  <2>3. pc' = [pc EXCEPT ![p] = "transfer"] /\ UNCHANGED <<exitCode, err>>
        BY <1>5, <2>2 DEF readBack
  <2>4. bal' = [bal EXCEPT ![p] = InitialSupply]
        BY <1>5, <2>2 DEF readBack, IInv, TypeOK
  <2>5. QED BY <1>5, <2>1, <2>3, <2>4 DEF readBack, IInv, TypeOK
<1>6. CASE transfer(p)        BY <1>6 DEF transfer
<1>7. CASE wait(p)
  <2>1. txNonce[p] < acctNonce BY <1>7 DEF wait
  <2>2. ledger[contract[p]] = Credited /\ bal[p] = InitialSupply
        BY <1>7, <2>1 DEF wait
  <2>3. contract[p] \in deployed BY <1>7 DEF wait, IInv, TransfersTargetCode
  <2>4. pc' = [pc EXCEPT ![p] = "done"]
        /\ exitCode' = [exitCode EXCEPT ![p] = 0]
        BY <1>7 DEF wait
  <2>5. QED BY <1>7, <2>2, <2>3, <2>4 DEF wait, IInv, TypeOK
<1>8. CASE rpcFail(p)         BY <1>8 DEF rpcFail
<1>9. QED BY <1>1, <1>2, <1>3, <1>4, <1>5, <1>6, <1>7, <1>8


LEMMA DeploySendOwnership ==
    ASSUME IInv, Ownership, IInv', NEW p \in Procs, deploySend(p)
    PROVE  Ownership'
<1> USE DEF Ownership, IInv, TypeOK
<1>1. CASE Admissible(nonceRead[p])
  <2>1. nonceRead[p] = next BY <1>1 DEF Admissible
  <2>2. /\ pc[p] = "deploySend"
        /\ pool' = pool \cup {DeployTx(next)}
        /\ contract' = [contract EXCEPT ![p] = next]
        /\ pc' = [pc EXCEPT ![p] = "waitForDeployment"]
        /\ UNCHANGED <<exitCode, ledger, deployed, acctNonce, bal, txNonce,
                       reverted>>
        BY <1>1, <2>1 DEF deploySend, Submit, Goto
  <2>3. contract[p] = NoAddress BY DEF deploySend, FreshBeforeDeploy
  <2>4. next \notin deployed /\ acctNonce <= next
        BY DEF PoolNonces, DeployedConfirmed
  <2>5. \A c \in Nat : Owned(c) => Owned(c)'
        BY <2>2, <2>3 DEF Owned, NoAddress
  <2>6. DeployTx(next).kind = "deploy" BY DEF DeployTx
  <2>7. \E q \in Procs : contract'[q] = next BY <2>2
  <2>8. \A tx \in pool : tx.kind = "transfer" => tx.contract \in Nat
        BY DEF TransfersTargetCode
  <2>9. (NoRevert /\ DeployedConfirmed /\ FreshBeforeDeploy /\ LedgerShapes)'
        BY <2>2 DEF NoRevert, DeployedConfirmed, FreshBeforeDeploy,
                    LedgerShapes
  <2>10. PendingFull' BY <2>2, <2>5, <2>6, <2>8 DEF PendingFull, Tx
  <2>11. (OneTransferPerContract /\ BalanceIsSupply /\ ExitMeansDone)'
        BY <2>2, <2>6 DEF OneTransferPerContract, BalanceIsSupply,
                          ExitMeansDone, NoExit
  <2>12. \A c : PendingTransfer(c)' = PendingTransfer(c)
        BY <2>2, <2>6 DEF PendingTransfer
  <2>13. UntouchedBeforeTransfer'
        BY <2>2, <2>4, <2>12 DEF UntouchedBeforeTransfer
  <2>14. WaitTracksTransfer' BY <2>2 DEF WaitTracksTransfer
  <2>15. SuccessDistributed'
        BY <2>2 DEF SuccessDistributed, ExitMeansDone, NoExit
  <2>16. \A c \in deployed' : Owned(c)' \/ \E q \in Procs : exitCode'[q] = 1
        BY <2>2, <2>5 DEF OrphansBesideFailure
  <2>17. \A tx \in pool' : tx.kind = "deploy" =>
                 Owned(tx.nonce)' \/ \E q \in Procs : exitCode'[q] = 1
    <3>1. ASSUME NEW tx \in pool', tx.kind = "deploy", tx # DeployTx(next)
          PROVE  Owned(tx.nonce)' \/ \E q \in Procs : exitCode'[q] = 1
          BY <2>2, <2>5, <3>1 DEF OrphansBesideFailure, Tx
    <3>2. DeployTx(next).nonce = next BY DEF DeployTx
    <3>3. QED BY <3>1, <3>2, <2>7 DEF Owned
  <2>18. QED BY <2>9, <2>10, <2>11, <2>13, <2>14, <2>15, <2>16, <2>17
             DEF OrphansBesideFailure
<1>2. CASE ~Admissible(nonceRead[p])
      BY <1>2 DEF deploySend, Fail, NoExit, NoRevert, DeployedConfirmed, FreshBeforeDeploy,
            LedgerShapes, PendingFull, OneTransferPerContract,
            UntouchedBeforeTransfer, BalanceIsSupply, WaitTracksTransfer,
            ExitMeansDone, SuccessDistributed, OrphansBesideFailure, Owned,
                  PendingTransfer
<1>3. QED BY <1>1, <1>2


\* Submitting the transfer of contract[p]: the mempool gains the one
\* transfer of that contract, for the whole supply, to the recipient.
LEMMA SubmitTransferOwnership ==
    ASSUME IInv, Ownership, IInv', NEW p \in Procs,
           pc[p] = "transferSend",
           pool' = pool \cup {TransferTx(next, p)},
           pc' \in [Procs -> Labels],
           \A q \in Procs \ {p} : pc'[q] = pc[q],
           pc'[p] \in {"wait", "done"},
           pc'[p] = "wait" => txNonce' = [txNonce EXCEPT ![p] = next]
                             /\ exitCode' = exitCode,
           pc'[p] = "done" => UNCHANGED txNonce
                             /\ exitCode' = [exitCode EXCEPT ![p] = 1],
           UNCHANGED <<ledger, deployed, acctNonce, bal, contract, reverted>>
    PROVE  Ownership'
<1> USE DEF Ownership, IInv, TypeOK
<1> DEFINE tx == TransferTx(next, p)
<1>1. /\ contract[p] \in deployed
      /\ ledger[contract[p]] = Minted
      /\ ~PendingTransfer(contract[p])
      /\ bal[p] = InitialSupply
  <2>1. contract[p] \in deployed BY DEF TransfersTargetCode
  <2>2. QED BY <2>1 DEF UntouchedBeforeTransfer, BalanceIsSupply
<1>2. /\ tx.kind = "transfer" /\ tx.nonce = next
      /\ tx.contract = contract[p] /\ tx.amount = InitialSupply
      /\ tx.to = Recipient
      BY <1>1 DEF TransferTx
<1>3. \A q \in Procs : q # p /\ contract[q] \in deployed =>
                        contract[q] # contract[p]
      BY <1>1 DEF DistinctContracts, NoAddress
<1>4. /\ \A t \in pool : t.nonce # next
      /\ acctNonce <= next
      BY DEF PoolNonces
<1>5. \A c : Owned(c)' = Owned(c) BY DEF Owned
<1>6. \A c : PendingTransfer(c)' = (PendingTransfer(c) \/ c = contract[p])
      BY <1>2 DEF PendingTransfer
<1>7. (NoRevert /\ DeployedConfirmed /\ LedgerShapes)'
      BY DEF NoRevert, DeployedConfirmed, LedgerShapes
<1>8. FreshBeforeDeploy'
      BY DEF FreshBeforeDeploy
<1>9. PendingFull'
      BY <1>1, <1>2, <1>5 DEF PendingFull, Owned
<1>10. OneTransferPerContract'
      BY <1>1, <1>2 DEF OneTransferPerContract, PendingTransfer
<1>11. UntouchedBeforeTransfer'
      BY <1>3, <1>6 DEF UntouchedBeforeTransfer
<1>12. BalanceIsSupply' BY <1>1 DEF BalanceIsSupply
<1>13. WaitTracksTransfer'
  <2> SUFFICES ASSUME NEW q \in Procs, pc'[q] = "wait"
               PROVE  /\ txNonce'[q] \in Nat
                      /\ acctNonce <= txNonce'[q] =>
                            \E t \in pool' : /\ t.nonce = txNonce'[q]
                                            /\ t.kind = "transfer"
                                            /\ t.contract = contract[q]
                      /\ txNonce'[q] < acctNonce =>
                            ledger[contract[q]] = Credited
      BY DEF WaitTracksTransfer
  <2>1. CASE q # p BY <2>1 DEF WaitTracksTransfer
  <2>2. CASE q = p
    <3>1. txNonce'[p] = next /\ next \in Nat BY <2>2
    <3>2. tx \in pool' OBVIOUS
    <3>3. QED BY <1>2, <1>4, <2>2, <3>1, <3>2
  <2>3. QED BY <2>1, <2>2
<1>14. (ExitMeansDone /\ SuccessDistributed)'
      BY DEF ExitMeansDone, SuccessDistributed, NoExit
<1>15. OrphansBesideFailure'
      BY <1>2, <1>5 DEF OrphansBesideFailure
<1>16. QED BY <1>7, <1>8, <1>9, <1>10, <1>11, <1>12, <1>13, <1>14, <1>15

LEMMA TransferSendOwnership ==
    ASSUME IInv, Ownership, IInv', NEW p \in Procs, transferSend(p)
    PROVE  Ownership'
<1>1. CASE Admissible(nonceRead[p])
  <2>1. nonceRead[p] = next BY <1>1 DEF Admissible
  <2>2. pc' \in [Procs -> Labels] BY DEF IInv, TypeOK
  <2>3. QED BY <1>1, <2>1, <2>2, SubmitTransferOwnership
        DEF transferSend, Submit, Goto
<1>2. CASE ~Admissible(nonceRead[p])
      BY <1>2 DEF transferSend, Fail, NoExit, NoRevert, DeployedConfirmed, FreshBeforeDeploy,
                  LedgerShapes, PendingFull, OneTransferPerContract,
                  UntouchedBeforeTransfer, BalanceIsSupply, WaitTracksTransfer,
                  ExitMeansDone, SuccessDistributed, OrphansBesideFailure, Owned,
                  PendingTransfer, Ownership, IInv, TypeOK
<1>3. QED BY <1>1, <1>2

LEMMA SendLostOwnership ==
    ASSUME IInv, Ownership, IInv', NEW p \in Procs, sendLost(p)
    PROVE  Ownership'
<1>1. nonceRead[p] = next BY DEF sendLost, Admissible
<1>2. /\ pc' = [pc EXCEPT ![p] = "done"]
      /\ exitCode' = [exitCode EXCEPT ![p] = 1]
      /\ UNCHANGED <<ledger, deployed, acctNonce, bal, contract, txNonce,
                     reverted>>
      BY DEF sendLost, Fail
<1>3. CASE pc[p] = "deploySend"
  <2>1. pool' = pool \cup {DeployTx(next)} BY <1>1, <1>3 DEF sendLost, Submit
  <2>2. DeployTx(next).kind = "deploy" BY DEF DeployTx
  <2>3. \A c : PendingTransfer(c)' = PendingTransfer(c)
        BY <2>1, <2>2 DEF PendingTransfer
  <2>4. (NoRevert /\ DeployedConfirmed /\ LedgerShapes)'
        BY <1>2 DEF Ownership, NoRevert, DeployedConfirmed, LedgerShapes
  <2>5. FreshBeforeDeploy'
        BY <1>2, <1>3 DEF Ownership, FreshBeforeDeploy, IInv, TypeOK
  <2>6. (PendingFull /\ OneTransferPerContract)'
        BY <1>2, <2>1, <2>2 DEF Ownership, PendingFull, OneTransferPerContract, Owned, IInv, TypeOK
  <2>7. UntouchedBeforeTransfer'
        BY <1>2, <2>3 DEF Ownership, UntouchedBeforeTransfer, IInv, TypeOK
  <2>8. (BalanceIsSupply /\ WaitTracksTransfer)'
        BY <1>2, <1>3, <2>1 DEF Ownership, BalanceIsSupply, WaitTracksTransfer, IInv, TypeOK
  <2>9. (ExitMeansDone /\ SuccessDistributed)'
        BY <1>2 DEF Ownership, ExitMeansDone, SuccessDistributed, IInv, TypeOK, NoExit
  <2>10. OrphansBesideFailure'
        BY <1>2, <1>3, <2>1, <2>2 DEF Ownership, OrphansBesideFailure, Owned, IInv, TypeOK,
                                      NoAddress
  <2>11. QED BY <2>4, <2>5, <2>6, <2>7, <2>8, <2>9, <2>10 DEF Ownership
<1>4. CASE pc[p] # "deploySend"
  <2>1. pc[p] = "transferSend" BY <1>4 DEF sendLost
  <2>2. pool' = pool \cup {TransferTx(next, p)}
        BY <1>1, <1>4 DEF sendLost, Submit
  <2>3. pc' \in [Procs -> Labels] BY DEF IInv, TypeOK
  <2>4. QED BY <1>2, <2>1, <2>2, <2>3, SubmitTransferOwnership DEF IInv, TypeOK
<1>5. QED BY <1>3, <1>4


\* The node mines the creation at the confirmed nonce: the new contract
\* holds the whole supply at the deployer and no transfer targets it yet.
LEMMA MineDeployOwnership ==
    ASSUME IInv, Ownership, IInv', NEW tx \in pool,
           tx.nonce = acctNonce, tx.kind = "deploy",
           pool' = pool \ {tx}, acctNonce' = acctNonce + 1,
           deployed' = deployed \cup {tx.nonce},
           ledger' = [c \in deployed' |->
                        IF c = tx.nonce THEN Minted ELSE ledger[c]],
           UNCHANGED <<reverted, run>>
    PROVE  Ownership'
<1> USE DEF Ownership, IInv, TypeOK, run
<1>0. /\ pc' = pc /\ txNonce' = txNonce /\ contract' = contract
      /\ bal' = bal /\ exitCode' = exitCode /\ nonceRead' = nonceRead
      /\ err' = err
      BY DEF run
<1>1. acctNonce \notin deployed /\ acctNonce \in Nat
      BY DEF DeployedConfirmed
<1>2. \A c \in deployed : ledger'[c] = ledger[c] BY <1>1
<1>3. \A t \in pool' : t \in pool /\ t.nonce # acctNonce
      BY DEF PoolNonces
<1>4. \A c : PendingTransfer(c)' => PendingTransfer(c) /\ c \in deployed
      BY DEF PendingTransfer, TransfersTargetCode
<1>5. \A c : Owned(c)' = Owned(c) BY DEF Owned
<1>6. (NoRevert /\ DeployedConfirmed /\ FreshBeforeDeploy /\ LedgerShapes)'
      BY <1>1, <1>2 DEF NoRevert, DeployedConfirmed, FreshBeforeDeploy,
                       LedgerShapes
<1>7. PendingFull'
      BY <1>2, <1>3, <1>5 DEF PendingFull, TransfersTargetCode
<1>8. (OneTransferPerContract /\ BalanceIsSupply /\ ExitMeansDone)'
      BY DEF OneTransferPerContract, BalanceIsSupply, ExitMeansDone
<1>9. UntouchedBeforeTransfer'
      BY <1>1, <1>2, <1>4 DEF UntouchedBeforeTransfer
<1>10. WaitTracksTransfer'
  <2> SUFFICES ASSUME NEW p \in Procs, pc[p] = "wait"
               PROVE  (/\ txNonce[p] \in Nat
                       /\ acctNonce <= txNonce[p] =>
                             \E t \in pool : /\ t.nonce = txNonce[p]
                                            /\ t.kind = "transfer"
                                            /\ t.contract = contract[p]
                       /\ txNonce[p] < acctNonce =>
                             ledger[contract[p]] = Credited)'
      BY <1>0, Zenon DEF WaitTracksTransfer
  <2>1. contract[p] \in deployed BY DEF TransfersTargetCode
  <2>2. txNonce[p] # acctNonce
    <3>1. SUFFICES ASSUME txNonce[p] = acctNonce PROVE FALSE
          OBVIOUS
    <3>2. PICK t \in pool : t.nonce = txNonce[p] /\ t.kind = "transfer"
          BY <3>1 DEF WaitTracksTransfer
    <3>3. t = tx BY <3>1, <3>2 DEF PoolNonces
    <3>4. QED BY <3>2, <3>3
  <2>3. txNonce[p] \in Nat BY DEF WaitTracksTransfer
  <2>4. ASSUME acctNonce' <= txNonce[p]
        PROVE  \E t \in pool' : /\ t.nonce = txNonce[p]
                                /\ t.kind = "transfer"
                                /\ t.contract = contract[p]
    <3>1. PICK t \in pool : /\ t.nonce = txNonce[p]
                            /\ t.kind = "transfer"
                            /\ t.contract = contract[p]
          BY <2>4 DEF WaitTracksTransfer
    <3>2. t # tx BY <3>1
    <3>3. QED BY <3>1, <3>2
  <2>5. ASSUME txNonce[p] < acctNonce' PROVE ledger'[contract[p]] = Credited
    <3>1. txNonce[p] < acctNonce BY <1>1, <2>2, <2>3, <2>5
    <3>2. ledger[contract[p]] = Credited BY <3>1 DEF WaitTracksTransfer
    <3>3. QED BY <1>2, <2>1, <3>2
  <2>6. QED BY <1>0, <2>3, <2>4, <2>5
<1>11. SuccessDistributed' BY <1>2 DEF SuccessDistributed
<1>12. OrphansBesideFailure' BY <1>3, <1>5 DEF OrphansBesideFailure
<1>13. QED BY <1>6, <1>7, <1>8, <1>9, <1>10, <1>11, <1>12


\* The node mines a transfer: it is the one transfer of its contract, finds
\* the whole supply at the deployer, and leaves the contract Credited.
LEMMA MineTransferOwnership ==
    ASSUME IInv, Ownership, IInv', RecipientIsAddress, NEW tx \in pool,
           tx.nonce = acctNonce, tx.kind # "deploy",
           pool' = pool \ {tx}, acctNonce' = acctNonce + 1,
           UNCHANGED <<deployed, run>>,
           IF TransferOk(tx)
             THEN ledger' = AfterTransfer(tx) /\ UNCHANGED reverted
             ELSE reverted' = reverted \cup {tx.nonce} /\ UNCHANGED ledger
    PROVE  Ownership'
<1> USE DEF Ownership, IInv, TypeOK
<1> DEFINE c == tx.contract
<1>0. /\ pc' = pc /\ txNonce' = txNonce /\ contract' = contract
      /\ bal' = bal /\ exitCode' = exitCode /\ nonceRead' = nonceRead
      /\ err' = err
      BY DEF run
<1>1. /\ tx \in Tx /\ tx.kind = "transfer"
      /\ c \in deployed /\ tx.to \in Accounts
      /\ ledger[c] = Minted /\ tx.amount = InitialSupply
      /\ tx.to = Recipient /\ Owned(c)
      BY DEF Tx, PoolNonces, TransfersTargetCode, PendingFull
<1>2. TransferOk(tx) BY <1>1 DEF TransferOk, Minted
<1>3. ledger' = [ledger EXCEPT ![c] = Credited] /\ reverted' = reverted
      BY <1>1, <1>2, CreditWhole
<1>4. \A t \in pool' : /\ t \in pool /\ t.nonce # acctNonce
                       /\ t.kind = "transfer" => t.contract # c
      BY <1>1 DEF PoolNonces, OneTransferPerContract
<1>5. \A d \in deployed : d # c => ledger'[d] = ledger[d] BY <1>3
<1>6. ~PendingTransfer(c)' BY <1>4 DEF PendingTransfer
<1>7. \A d : PendingTransfer(d)' => PendingTransfer(d)
      BY DEF PendingTransfer
<1>8. \A d : Owned(d)' = Owned(d) BY <1>0 DEF Owned
<1>9. (NoRevert /\ DeployedConfirmed /\ FreshBeforeDeploy /\ LedgerShapes)'
      BY <1>0, <1>3 DEF NoRevert, DeployedConfirmed, FreshBeforeDeploy,
                       LedgerShapes
<1>10. PendingFull'
      BY <1>4, <1>5, <1>8 DEF PendingFull, TransfersTargetCode
<1>11. (OneTransferPerContract /\ BalanceIsSupply /\ ExitMeansDone)'
      BY <1>0 DEF OneTransferPerContract, BalanceIsSupply, ExitMeansDone
<1>12. UntouchedBeforeTransfer'
  <2> SUFFICES ASSUME NEW p \in Procs,
                      pc[p] \in {"waitForDeployment", "readBack", "transfer",
                               "transferSend"},
                      contract[p] \in deployed
               PROVE  (ledger[contract[p]] = Minted
                       /\ ~PendingTransfer(contract[p]))'
      BY <1>0, Zenon DEF UntouchedBeforeTransfer
  <2>1. ~PendingTransfer(contract[p]) /\ ledger[contract[p]] = Minted
        BY DEF UntouchedBeforeTransfer
  <2>2. contract[p] # c BY <1>1, <2>1 DEF PendingTransfer
  <2>3. QED BY <1>0, <1>5, <1>7, <2>1, <2>2
<1>13. WaitTracksTransfer'
  <2> SUFFICES ASSUME NEW p \in Procs, pc[p] = "wait"
               PROVE  (/\ txNonce[p] \in Nat
                       /\ acctNonce <= txNonce[p] =>
                             \E t \in pool : /\ t.nonce = txNonce[p]
                                            /\ t.kind = "transfer"
                                            /\ t.contract = contract[p]
                       /\ txNonce[p] < acctNonce =>
                             ledger[contract[p]] = Credited)'
      BY <1>0, Zenon DEF WaitTracksTransfer
  <2>1. contract[p] \in deployed /\ txNonce[p] \in Nat
        BY DEF TransfersTargetCode, WaitTracksTransfer
  <2>2. CASE txNonce[p] = acctNonce
    <3>1. PICK t \in pool : /\ t.nonce = txNonce[p]
                            /\ t.kind = "transfer"
                            /\ t.contract = contract[p]
          BY <2>2 DEF WaitTracksTransfer
    <3>2. t = tx BY <2>2, <3>1 DEF PoolNonces
    <3>3. ledger'[contract[p]] = Credited BY <1>3, <3>1, <3>2
    <3>4. acctNonce \in Nat /\ acctNonce' = acctNonce + 1 OBVIOUS
    <3>5. txNonce[p] < acctNonce' /\ ~(acctNonce' <= txNonce[p])
          BY ONLY <2>1, <2>2, <3>4, SMT
    <3>6. QED BY <1>0, <2>1, <3>3, <3>5
  <2>3. CASE acctNonce < txNonce[p]
    <3>1. PICK t \in pool : /\ t.nonce = txNonce[p]
                            /\ t.kind = "transfer"
                            /\ t.contract = contract[p]
          BY <2>3 DEF WaitTracksTransfer
    <3>2. t \in pool' BY <2>3, <3>1
    <3>3. QED BY <1>0, <2>1, <2>3, <3>1, <3>2
  <2>4. CASE txNonce[p] < acctNonce
    <3>1. ledger[contract[p]] = Credited BY <2>4 DEF WaitTracksTransfer
    <3>2. ledger'[contract[p]] = Credited BY <1>3, <2>1, <3>1
    <3>3. QED BY <1>0, <2>1, <2>4, <3>2
  <2>5. \/ txNonce[p] = acctNonce
        \/ acctNonce < txNonce[p]
        \/ txNonce[p] < acctNonce
    <3>1. acctNonce \in Nat /\ txNonce[p] \in Nat BY <2>1
    <3>2. QED BY ONLY <3>1, SMT
  <2>6. QED BY <2>2, <2>3, <2>4, <2>5
<1>14. SuccessDistributed'
  <2> SUFFICES ASSUME NEW p \in Procs, exitCode[p] = 0
               PROVE  (/\ contract[p] \in deployed
                       /\ bal[p] = InitialSupply
                       /\ ledger[contract[p]] = Credited)'
      BY <1>0, Zenon DEF SuccessDistributed
  <2>1. contract[p] \in deployed /\ bal[p] = InitialSupply
        /\ ledger[contract[p]] = Credited
        BY DEF SuccessDistributed
  <2>2. QED BY <1>0, <1>3, <2>1
<1>15. OrphansBesideFailure' BY <1>0, <1>4, <1>8 DEF OrphansBesideFailure
<1>16. QED BY <1>9, <1>10, <1>11, <1>12, <1>13, <1>14, <1>15


LEMMA MineOwnership ==
    ASSUME IInv, Ownership, IInv', RecipientIsAddress, Mine
    PROVE  Ownership'
<1>1. PICK tx \in pool :
        /\ tx.nonce = acctNonce
        /\ pool' = pool \ {tx}
        /\ acctNonce' = acctNonce + 1
        /\ IF tx.kind = "deploy"
             THEN /\ deployed' = deployed \cup {tx.nonce}
                  /\ ledger' = [c \in deployed' |->
                                  IF c = tx.nonce THEN Minted ELSE ledger[c]]
                  /\ UNCHANGED reverted
             ELSE /\ UNCHANGED deployed
                  /\ IF TransferOk(tx)
                       THEN ledger' = AfterTransfer(tx) /\ UNCHANGED reverted
                       ELSE reverted' = reverted \cup {tx.nonce}
                            /\ UNCHANGED ledger
        /\ UNCHANGED run
      BY DEF Mine
<1>2. CASE tx.kind = "deploy" BY <1>1, <1>2, MineDeployOwnership
<1>3. CASE tx.kind # "deploy" BY <1>1, <1>3, MineTransferOwnership
<1>4. QED BY <1>2, <1>3

LEMMA InitOwnership == Init => Ownership
BY DEF Init, Ownership, NoRevert, DeployedConfirmed, FreshBeforeDeploy,
       LedgerShapes, PendingFull, OneTransferPerContract,
       UntouchedBeforeTransfer, BalanceIsSupply, WaitTracksTransfer,
       ExitMeansDone, SuccessDistributed, OrphansBesideFailure, Owned, NoExit, NoAddress

LEMMA NextOwnership ==
    ASSUME RecipientIsAddress
    PROVE  IInv /\ Ownership /\ [Next]_vars => Ownership'
<1> SUFFICES ASSUME IInv, Ownership, [Next]_vars PROVE Ownership'
    OBVIOUS
<1>1. IInv' BY NextIInv
<1>2. ASSUME NEW p \in Procs, Progress(p) \/ rpcFail(p) \/ sendLost(p)
      PROVE  Ownership'
  <2>1. CASE deploySend(p) BY <1>1, <2>1, DeploySendOwnership
  <2>2. CASE transferSend(p) BY <1>1, <2>2, TransferSendOwnership
  <2>3. CASE sendLost(p) BY <1>1, <2>3, SendLostOwnership
  <2>4. CASE \/ getSigners(p) \/ getBalance(p) \/ deploy(p)
             \/ waitForDeployment(p) \/ readBack(p) \/ transfer(p)
             \/ wait(p) \/ rpcFail(p)
        BY <2>4, LocalStepOwnership
  <2>5. QED BY <1>2, <2>1, <2>2, <2>3, <2>4 DEF Progress
<1>3. CASE Mine BY <1>1, <1>3, MineOwnership
<1>4. CASE Quiescent \/ UNCHANGED vars
  <2>1. UNCHANGED vars BY <1>4 DEF Quiescent
  <2>2. /\ pc' = pc /\ nonceRead' = nonceRead /\ contract' = contract
        /\ txNonce' = txNonce /\ bal' = bal /\ exitCode' = exitCode
        /\ acctNonce' = acctNonce /\ pool' = pool /\ deployed' = deployed
        /\ ledger' = ledger /\ reverted' = reverted
        BY <2>1 DEF vars, chain, run
  <2>3. NoRevert' BY <2>2 DEF NoRevert, Ownership, Owned, PendingTransfer
  <2>4. DeployedConfirmed' BY <2>2 DEF DeployedConfirmed, Ownership, Owned, PendingTransfer
  <2>5. FreshBeforeDeploy' BY <2>2 DEF FreshBeforeDeploy, Ownership, Owned, PendingTransfer
  <2>6. LedgerShapes' BY <2>2 DEF LedgerShapes, Ownership, Owned, PendingTransfer
  <2>7. PendingFull' BY <2>2 DEF PendingFull, Ownership, Owned, PendingTransfer
  <2>8. OneTransferPerContract' BY <2>2 DEF OneTransferPerContract, Ownership, Owned, PendingTransfer
  <2>9. UntouchedBeforeTransfer' BY <2>2 DEF UntouchedBeforeTransfer, Ownership, Owned, PendingTransfer
  <2>10. BalanceIsSupply' BY <2>2 DEF BalanceIsSupply, Ownership, Owned, PendingTransfer
  <2>11. WaitTracksTransfer' BY <2>2 DEF WaitTracksTransfer, Ownership, Owned, PendingTransfer
  <2>12. ExitMeansDone' BY <2>2 DEF ExitMeansDone, Ownership, Owned, PendingTransfer
  <2>13. SuccessDistributed' BY <2>2 DEF SuccessDistributed, Ownership, Owned, PendingTransfer
  <2>14. OrphansBesideFailure' BY <2>2 DEF OrphansBesideFailure, Ownership, Owned, PendingTransfer
  <2>15. QED BY <2>3, <2>4, <2>5, <2>6, <2>7, <2>8, <2>9, <2>10, <2>11, <2>12, <2>13, <2>14 DEF Ownership
<1>5. QED BY <1>2, <1>3, <1>4 DEF Next

\* Whatever the interleaving of invocations, lost answers and network
\* failures, only the invocation that deployed a contract moves its
\* tokens, once and in full; a pending transfer never reverts; an exit 0
\* comes with a distributed contract; and a contract nobody owns exists
\* only beside an exit 1.  (Provided RECIPIENT_WALLET of deploy.js line 4
\* is an address.)
THEOREM OwnershipHolds ==
    ASSUME RecipientIsAddress
    PROVE  Spec => []OInv
<1>1. Init => OInv BY InitIInv, InitOwnership DEF OInv
<1>2. OInv /\ [Next]_vars => OInv' BY NextIInv, NextOwnership DEF OInv
<1>3. QED BY <1>1, <1>2, PTL DEF Spec


\* Spec section 8, for a recipient that is an address other than the
\* deployer: an invocation that exits 0 after finding a nonzero balance has
\* moved all of it, so the recipient holds it and the deployer holds none.
THEOREM DistributionOnSuccess ==
    ASSUME RecipientIsAddress, Recipient # Deployer
    PROVE  Spec => []DistributedOnSuccess
<1>1. OInv => DistributedOnSuccess
  <2> SUFFICES ASSUME OInv, NEW p \in Procs, exitCode[p] = 0, bal[p] > 0
               PROVE  /\ ledger[contract[p]][Recipient] = bal[p]
                      /\ ledger[contract[p]][Deployer] = 0
      BY DEF DistributedOnSuccess
  <2>1. bal[p] = InitialSupply /\ ledger[contract[p]] = Credited
        BY DEF OInv, Ownership, SuccessDistributed
  <2>2. QED BY <2>1 DEF Credited, Minted, RecipientIsAddress
<1>2. QED BY <1>1, OwnershipHolds, PTL

\* If every invocation exited 0, no contract of the deployer still holds
\* tokens at the deployer: a creation whose answer was lost (deploy.js
\* line 36) always shows up as an exit 1.
THEOREM NothingStranded ==
    ASSUME RecipientIsAddress, Recipient # Deployer
    PROVE  Spec => []SuccessLeavesNothingStranded
<1>1. OInv => SuccessLeavesNothingStranded
  <2> SUFFICES ASSUME OInv, \A p \in Procs : exitCode[p] = 0,
                      NEW c \in deployed
               PROVE  ledger[c][Deployer] = 0
      BY DEF SuccessLeavesNothingStranded
  <2>1. PICK p \in Procs : contract[p] = c
        BY DEF OInv, Ownership, OrphansBesideFailure, Owned
  <2>2. ledger[c] = Credited
        BY <2>1 DEF OInv, Ownership, SuccessDistributed
  <2>3. QED BY <2>2 DEF Credited, Minted, RecipientIsAddress
<1>2. QED BY <1>1, OwnershipHolds, PTL

\* No step of main() or of the node makes an invocation fail in a way
\* section 7 does not name: the transfer of line 60 never reverts, and
\* with an address recipient it never fails to resolve.
LEMMA NextDeclared ==
    ASSUME RecipientIsAddress
    PROVE  OInv /\ OnlyDeclaredFailures /\ [Next]_vars => OnlyDeclaredFailures'
<1> SUFFICES ASSUME OInv, OnlyDeclaredFailures, [Next]_vars
             PROVE  OnlyDeclaredFailures'
    OBVIOUS
<1> USE DEF OnlyDeclaredFailures, DeclaredFailures, OInv, IInv, TypeOK,
            Fail, Succeed, Goto
<1>1. ASSUME NEW p \in Procs,
             \/ getSigners(p) \/ getBalance(p) \/ deploy(p)
             \/ deploySend(p) \/ waitForDeployment(p) \/ readBack(p)
             \/ transferSend(p) \/ rpcFail(p) \/ sendLost(p)
      PROVE  OnlyDeclaredFailures'
  <2>1. CASE getSigners(p) BY <2>1 DEF getSigners
  <2>2. CASE getBalance(p) BY <2>2 DEF getBalance
  <2>3. CASE deploy(p) BY <2>3 DEF deploy
  <2>4. CASE deploySend(p) BY <2>4 DEF deploySend
  <2>5. CASE waitForDeployment(p) BY <2>5 DEF waitForDeployment
  <2>6. CASE readBack(p) BY <2>6 DEF readBack
  <2>7. CASE transferSend(p) BY <2>7 DEF transferSend
  <2>8. CASE rpcFail(p) BY <2>8 DEF rpcFail
  <2>9. CASE sendLost(p) BY <2>9 DEF sendLost
  <2>10. QED BY <1>1, <2>1, <2>2, <2>3, <2>4, <2>5, <2>6, <2>7, <2>8, <2>9
<1>2. ASSUME NEW p \in Procs, transfer(p) PROVE OnlyDeclaredFailures'
      BY <1>2 DEF transfer
<1>3. ASSUME NEW p \in Procs, wait(p) PROVE OnlyDeclaredFailures'
      BY <1>3 DEF wait, Ownership, NoRevert
<1>4. CASE Mine BY <1>4 DEF Mine, run
<1>5. CASE Quiescent \/ UNCHANGED vars
      BY <1>5 DEF Quiescent, vars, run
<1>6. QED BY <1>1, <1>2, <1>3, <1>4, <1>5 DEF Next, Progress

THEOREM FailuresDeclared ==
    ASSUME RecipientIsAddress
    PROVE  Spec => []OnlyDeclaredFailures
<1>1. Init => OnlyDeclaredFailures BY DEF Init, OnlyDeclaredFailures, NoExit
<1>2. QED BY <1>1, NextDeclared, OwnershipHolds, PTL DEF Spec

=============================================================================
