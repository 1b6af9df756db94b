------------------------- MODULE ProvisioningProofs -------------------------
(***************************************************************************)
(* Proofs, for every value of the constants, that the provisioning         *)
(* workflow keeps its variables well typed and that no two invocations of  *)
(* deploy.js ever hold the same contract address.  Both follow from the    *)
(* inductive invariant IInv of module Provisioning.                        *)
(***************************************************************************)
EXTENDS Provisioning, TLAPS

USE ConstantsAssumption

\* Arithmetic of the gas bound: paying one transaction's gas out of a
\* balance that covers k + 1 of them leaves enough for k.
LEMMA GasArith ==
    ASSUME NEW n \in Int, NEW k \in Int, k >= 0, n >= GasCost * (k + 1)
    PROVE  /\ n - GasCost >= GasCost * k
           /\ n - GasCost >= 0
           /\ n >= GasCost * k
BY SMT

LEMMA InitIInv == Init => IInv
BY DEF Init, IInv, TypeOK, PoolNonces, PendingPaid, TransfersTargetCode,
       AddressesBelowNext, DistinctContracts, Labels, NoAddress, NoExit,
       Errors

\* The steps of one invocation that leave the chain alone keep IInv.
LEMMA LocalStepIInv ==
    ASSUME IInv, NEW p \in Procs,
           getSigners(p) \/ getBalance(p) \/ deploy(p)
             \/ waitForDeployment(p) \/ readBack(p) \/ transfer(p)
             \/ wait(p) \/ rpcFail(p)
    PROVE  IInv'
<1> USE DEF IInv, TypeOK, PoolNonces, PendingPaid, TransfersTargetCode,
            AddressesBelowNext, DistinctContracts, Labels, NoAddress, NoExit,
            Errors, Fail, Succeed, Goto, chain
<1>1. CASE getSigners(p)      BY <1>1 DEF getSigners
<1>2. CASE getBalance(p)      BY <1>2 DEF getBalance
<1>3. CASE deploy(p)          BY <1>3 DEF deploy
<1>4. CASE waitForDeployment(p) BY <1>4 DEF waitForDeployment
<1>5. CASE readBack(p)        BY <1>5 DEF readBack
<1>6. CASE transfer(p)        BY <1>6 DEF transfer
<1>7. CASE wait(p)            BY <1>7 DEF wait
<1>8. CASE rpcFail(p)         BY <1>8 DEF rpcFail
<1>9. QED BY <1>1, <1>2, <1>3, <1>4, <1>5, <1>6, <1>7, <1>8

\* Submitting an admissible transaction at the pending nonce keeps the
\* mempool's part of IInv; nothing about addresses is needed.
LEMMA SubmitPool ==
    ASSUME TypeOK, PoolNonces, PendingPaid,
           \A t \in pool : t.kind = "transfer" =>
                              t.contract \in deployed /\ t.to \in Accounts,
           NEW tx \in Tx, tx.nonce = next, Admissible(tx.nonce),
           tx.kind = "transfer" => tx.contract \in deployed /\ tx.to \in Accounts,
           Submit(tx),
           UNCHANGED <<native, acctNonce, deployed>>
    PROVE  /\ PoolNonces'
           /\ PendingPaid'
           /\ \A t \in pool' : t.kind = "transfer" =>
                                 t.contract \in deployed' /\ t.to \in Accounts
           /\ pool' \subseteq Tx
           /\ next' \in Nat
           /\ next' = next + 1
<1> USE DEF TypeOK, PoolNonces, Submit
<1>1. PoolNonces' BY DEF Admissible, Tx
<1>2. PendingPaid'
  <2>1. native >= GasCost * ((next + 1) - acctNonce)
        BY DEF Admissible
  <2>2. QED BY <2>1 DEF PendingPaid
<1>3. QED BY <1>1, <1>2

LEMMA DeploySendIInv ==
    ASSUME IInv, NEW p \in Procs, deploySend(p)
    PROVE  IInv'
<1> USE DEF IInv, TypeOK, TransfersTargetCode, AddressesBelowNext,
            DistinctContracts, Labels, NoAddress, NoExit, Errors, Fail, Goto
<1>1. CASE Admissible(nonceRead[p])
  <2>1. nonceRead[p] = next BY <1>1 DEF Admissible
  <2>2. DeployTx(nonceRead[p]) \in Tx BY <2>1 DEF DeployTx, Tx
  <2>3. /\ PoolNonces' /\ PendingPaid'
        /\ \A t \in pool' : t.kind = "transfer" =>
                              t.contract \in deployed' /\ t.to \in Accounts
        /\ pool' \subseteq Tx /\ next' \in Nat /\ next' = next + 1
        BY <1>1, <2>1, <2>2, SubmitPool DEF deploySend, DeployTx
  <2>4. contract' = [contract EXCEPT ![p] = next]
        BY <1>1, <2>1 DEF deploySend
  <2>5. QED BY <1>1, <2>3, <2>4 DEF deploySend
<1>2. CASE ~Admissible(nonceRead[p])
      BY <1>2 DEF deploySend, PoolNonces, PendingPaid
<1>3. QED BY <1>1, <1>2

LEMMA TransferSendIInv ==
    ASSUME IInv, NEW p \in Procs, transferSend(p)
    PROVE  IInv'
<1> USE DEF IInv, TypeOK, TransfersTargetCode, AddressesBelowNext,
            DistinctContracts, Labels, NoAddress, NoExit, Errors, Fail, Goto
<1>1. CASE Admissible(nonceRead[p])
  <2>1. nonceRead[p] = next BY <1>1 DEF Admissible
  <2>2. contract[p] \in deployed /\ RecipientIsAddress
        BY DEF transferSend
  <2>3. TransferTx(nonceRead[p], p) \in Tx
        BY <2>1, <2>2 DEF TransferTx, Tx
  <2>4. /\ PoolNonces' /\ PendingPaid'
        /\ \A t \in pool' : t.kind = "transfer" =>
                              t.contract \in deployed' /\ t.to \in Accounts
        /\ pool' \subseteq Tx /\ next' \in Nat /\ next' = next + 1
        BY <1>1, <2>1, <2>2, <2>3, SubmitPool
        DEF transferSend, TransferTx, RecipientIsAddress
  <2>5. QED BY <1>1, <2>1, <2>4 DEF transferSend
<1>2. CASE ~Admissible(nonceRead[p])
      BY <1>2 DEF transferSend, PoolNonces, PendingPaid
<1>3. QED BY <1>1, <1>2

LEMMA SendLostIInv ==
    ASSUME IInv, NEW p \in Procs, sendLost(p)
    PROVE  IInv'
<1> USE DEF IInv, TypeOK, TransfersTargetCode, AddressesBelowNext,
            DistinctContracts, Labels, NoAddress, NoExit, Errors, Fail
<1> DEFINE tx == IF pc[p] = "deploySend" THEN DeployTx(nonceRead[p])
                                         ELSE TransferTx(nonceRead[p], p)
<1>1. nonceRead[p] = next BY DEF sendLost, Admissible
<1>2. pc[p] = "transferSend" => contract[p] \in deployed /\ RecipientIsAddress
      BY DEF sendLost
<1>3. tx \in Tx /\ tx.nonce = next
  <2>1. CASE pc[p] = "deploySend"
        BY <1>1, <2>1 DEF DeployTx, Tx
  <2>2. CASE pc[p] # "deploySend"
    <3>1. pc[p] = "transferSend" BY <2>2 DEF sendLost
    <3>2. QED BY <1>1, <1>2, <2>2, <3>1 DEF TransferTx, Tx, RecipientIsAddress
  <2>3. QED BY <2>1, <2>2
<1>4. tx.kind = "transfer" => tx.contract \in deployed /\ tx.to \in Accounts
  <2>1. CASE pc[p] = "deploySend" BY <2>1 DEF DeployTx
  <2>2. CASE pc[p] # "deploySend"
    <3>1. pc[p] = "transferSend" BY <2>2 DEF sendLost
    <3>2. QED BY <1>2, <2>2, <3>1 DEF TransferTx, RecipientIsAddress
  <2>3. QED BY <2>1, <2>2
<1>5. /\ PoolNonces' /\ PendingPaid'
      /\ \A t \in pool' : t.kind = "transfer" =>
                            t.contract \in deployed' /\ t.to \in Accounts
      /\ pool' \subseteq Tx /\ next' \in Nat /\ next' = next + 1
      BY <1>1, <1>3, <1>4, SubmitPool DEF sendLost, DeployTx, TransferTx
<1>6. QED BY <1>5 DEF sendLost

LEMMA MineIInv ==
    ASSUME IInv, Mine
    PROVE  IInv'
<1> USE DEF IInv, TypeOK
<1>1. PICK tx \in pool :
        /\ tx.nonce = acctNonce
        /\ pool' = pool \ {tx}
        /\ acctNonce' = acctNonce + 1
        /\ native' = native - GasCost
        /\ IF tx.kind = "deploy"
             THEN /\ deployed' = deployed \cup {tx.nonce}
                  /\ ledger' = [c \in deployed' |->
                                  IF c = tx.nonce THEN Minted ELSE ledger[c]]
                  /\ UNCHANGED reverted
             ELSE /\ UNCHANGED deployed
                  /\ IF TransferOk(tx)
                       THEN ledger' = AfterTransfer(tx) /\ UNCHANGED reverted
                       ELSE reverted' = reverted \cup {tx.nonce}
                            /\ UNCHANGED ledger
        /\ UNCHANGED <<privateKey, nodeAccounts, next, run>>
      BY DEF Mine
<1>2. tx \in Tx /\ acctNonce < next BY <1>1 DEF PoolNonces
<1>3. deployed \subseteq deployed' BY <1>1
<1>4. PoolNonces'
  <2>1. acctNonce' <= next' BY <1>1, <1>2
  <2>2. ASSUME NEW t \in pool' PROVE acctNonce' <= t.nonce /\ t.nonce < next
    <3>1. t \in pool /\ t # tx BY <1>1
    <3>2. t.nonce # tx.nonce BY <3>1 DEF PoolNonces
    <3>3. t \in Tx /\ acctNonce <= t.nonce /\ t.nonce < next
          BY <3>1 DEF PoolNonces
    <3>4. QED BY <1>1, <1>2, <3>2, <3>3 DEF Tx
  <2>3. \A t1, t2 \in pool' : t1.nonce = t2.nonce => t1 = t2
        BY <1>1 DEF PoolNonces
  <2>4. QED BY <1>1, <2>1, <2>2, <2>3 DEF PoolNonces
<1>5. PendingPaid' /\ native' \in Nat
  <2> DEFINE k == next - acctNonce - 1
  <2>1. k \in Int /\ k >= 0 BY <1>2
  <2>2. native >= GasCost * (k + 1) BY DEF PendingPaid
  <2>3. native - GasCost >= GasCost * k /\ native - GasCost >= 0
        BY <2>1, <2>2, GasArith
  <2>4. next - acctNonce' = k BY <1>1
  <2>5. QED BY <1>1, <2>3, <2>4 DEF PendingPaid
<1>6. ledger' \in [deployed' -> [Accounts -> Nat]]
  <2>1. Minted \in [Accounts -> Nat] BY DEF Minted
  <2>2. CASE tx.kind = "deploy"
    <3>1. deployed' = deployed \cup {tx.nonce}
          /\ ledger' = [c \in deployed' |->
                          IF c = tx.nonce THEN Minted ELSE ledger[c]]
          BY <1>1, <2>2
    <3>2. QED BY <2>1, <3>1
  <2>3. CASE tx.kind # "deploy" /\ TransferOk(tx)
    <3>1. tx.contract \in deployed /\ tx.to \in Accounts
          BY <1>2, <2>3 DEF TransfersTargetCode, Tx
    <3>2. ledger' = AfterTransfer(tx) /\ deployed' = deployed BY <1>1, <2>3
    <3> DEFINE debited == [ledger[tx.contract] EXCEPT ![Deployer] = @ - tx.amount]
    <3>3. ledger[tx.contract] \in [Accounts -> Nat]
          /\ ledger[tx.contract][Deployer] >= tx.amount /\ tx.amount \in Nat
          BY <2>3, <3>1, <1>2 DEF TransferOk, Tx
    <3>4. debited \in [Accounts -> Nat] BY <3>3
    <3>5. [debited EXCEPT ![tx.to] = @ + tx.amount] \in [Accounts -> Nat]
          BY <3>1, <3>3, <3>4
    <3>6. QED BY <3>1, <3>2, <3>5 DEF AfterTransfer
  <2>4. CASE tx.kind # "deploy" /\ ~TransferOk(tx) BY <1>1, <2>4
  <2>5. QED BY <2>2, <2>3, <2>4
<1>7. deployed' \subseteq Nat /\ reverted' \subseteq Nat
      BY <1>1, <1>2 DEF Tx
<1>8. TransfersTargetCode'
      BY <1>1, <1>3 DEF TransfersTargetCode, run
<1>9. TypeOK' BY <1>1, <1>4, <1>5, <1>6, <1>7 DEF run, PoolNonces
<1>10. (AddressesBelowNext /\ DistinctContracts)'
       BY <1>1 DEF AddressesBelowNext, DistinctContracts, run
<1>11. QED BY <1>4, <1>5, <1>8, <1>9, <1>10

LEMMA NextIInv == IInv /\ [Next]_vars => IInv'
<1> SUFFICES ASSUME IInv, [Next]_vars PROVE IInv'
    OBVIOUS
<1>1. ASSUME NEW p \in Procs, Progress(p) \/ rpcFail(p) \/ sendLost(p)
      PROVE  IInv'
      BY <1>1, LocalStepIInv, DeploySendIInv, TransferSendIInv, SendLostIInv
      DEF Progress
<1>2. CASE Mine BY <1>2, MineIInv
<1>3. CASE Quiescent \/ UNCHANGED vars
      BY <1>3 DEF Quiescent, vars, chain, run, IInv, TypeOK, PoolNonces,
                  PendingPaid, TransfersTargetCode, AddressesBelowNext,
                  DistinctContracts, RecipientIsAddress
<1>4. QED BY <1>1, <1>2, <1>3 DEF Next

THEOREM InvariantHolds == Spec => []IInv
BY InitIInv, NextIInv, PTL DEF Spec

\* Every variable keeps a value of its kind: in particular the deployer's
\* native balance never goes negative, because the node admits a
\* transaction only when the balance pays for everything pending.
THEOREM TypeCorrect == Spec => []TypeOK
BY InvariantHolds, PTL DEF IInv

\* No two invocations of deploy.js, however their steps interleave with each
\* other and with the node, ever hold the same contract address.
THEOREM ContractsDistinct == Spec => []DistinctContracts
BY InvariantHolds, PTL DEF IInv

=============================================================================
