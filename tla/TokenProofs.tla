---------------------------- MODULE TokenProofs -----------------------------
(***************************************************************************)
(* Proof of the action property TokensMoveOnce: whatever the interleaving  *)
(* of invocations, lost answers and failures, a deployed contract's tokens *)
(* move once, all of them, from the deployer to the recipient.  It rests   *)
(* on the ownership invariant OInv of OwnershipProofs: the only transfer   *)
(* the node can mine for a contract is its owner's, with the whole supply, *)
(* sent while the supply is still at the deployer.                         *)
(***************************************************************************)
EXTENDS OwnershipProofs

USE ConstantsAssumption

\* A step of one invocation, or of the network failing it, sends at most a
\* transaction: the mined chain (deployed code and balances) is untouched.
LEMMA LocalChainUnchanged ==
    ASSUME NEW p \in Procs, Progress(p) \/ rpcFail(p) \/ sendLost(p)
    PROVE  deployed' = deployed /\ ledger' = ledger
<1>1. CASE getSigners(p) BY <1>1 DEF getSigners, chain
<1>2. CASE getBalance(p) BY <1>2 DEF getBalance, chain
<1>3. CASE deploy(p) BY <1>3 DEF deploy, chain
<1>4. CASE deploySend(p) BY <1>4 DEF deploySend, chain
<1>5. CASE waitForDeployment(p) BY <1>5 DEF waitForDeployment, chain
<1>6. CASE readBack(p) BY <1>6 DEF readBack, chain
<1>7. CASE transfer(p) BY <1>7 DEF transfer, chain
<1>8. CASE transferSend(p) BY <1>8 DEF transferSend, chain
<1>9. CASE wait(p) BY <1>9 DEF wait, chain
<1>10. CASE rpcFail(p) BY <1>10 DEF rpcFail, chain
<1>11. CASE sendLost(p) BY <1>11 DEF sendLost
<1>12. QED BY <1>1, <1>2, <1>3, <1>4, <1>5, <1>6, <1>7, <1>8, <1>9,
              <1>10, <1>11 DEF Progress

\* Mining keeps every deployed contract deployed; a creation adds a fresh
\* address, a reverted transfer changes no balance, and a transfer that
\* succeeds is its owner's and moves the whole supply.
LEMMA MineTokenStep ==
    ASSUME OInv, RecipientIsAddress, Mine
    PROVE  TokenStep
<1>1. PICK tx \in pool :
        /\ tx.nonce = acctNonce
        /\ IF tx.kind = "deploy"
             THEN /\ deployed' = deployed \cup {tx.nonce}
                  /\ ledger' = [c \in deployed' |->
                                  IF c = tx.nonce THEN Minted ELSE ledger[c]]
             ELSE /\ UNCHANGED deployed
                  /\ IF TransferOk(tx)
                       THEN ledger' = AfterTransfer(tx)
                       ELSE UNCHANGED ledger
      BY DEF Mine
<1>2. CASE tx.kind = "deploy"
  <2>1. acctNonce \notin deployed
        BY DEF OInv, Ownership, DeployedConfirmed, IInv, TypeOK
  <2>2. deployed' = deployed \cup {tx.nonce}
        /\ \A c \in deployed : ledger'[c] = ledger[c]
        BY <1>1, <1>2, <2>1
  <2>3. QED BY <2>2 DEF TokenStep
<1>3. CASE tx.kind # "deploy" /\ ~TransferOk(tx)
      BY <1>1, <1>3 DEF TokenStep
<1>4. CASE tx.kind # "deploy" /\ TransferOk(tx)
  <2>1. /\ tx \in Tx /\ tx.kind = "transfer"
        /\ tx.contract \in deployed
        /\ ledger[tx.contract] = Minted
        /\ tx.amount = InitialSupply /\ tx.to = Recipient
        BY <1>4 DEF OInv, IInv, TypeOK, Tx, TransfersTargetCode, Ownership,
                    PendingFull
  <2>2. ledger' = [ledger EXCEPT ![tx.contract] = Credited]
        BY <1>1, <1>4, <2>1, CreditWhole DEF OInv, IInv
  <2>3. deployed' = deployed BY <1>1, <1>4
  <2>4. QED BY <2>1, <2>2, <2>3 DEF TokenStep, OInv, IInv, TypeOK
<1>5. QED BY <1>2, <1>3, <1>4

\* Every step of the model satisfies TokenStep or leaves ledger and
\* deployed alone, from a state of OInv.
LEMMA NextTokenStep ==
    ASSUME RecipientIsAddress
    PROVE  OInv /\ [Next]_vars => [TokenStep]_vars
<1> SUFFICES ASSUME OInv, [Next]_vars PROVE [TokenStep]_vars
    OBVIOUS
<1>1. ASSUME NEW p \in Procs, Progress(p) \/ rpcFail(p) \/ sendLost(p)
      PROVE  TokenStep
      BY <1>1, LocalChainUnchanged DEF TokenStep
<1>2. CASE Mine BY <1>2, MineTokenStep
<1>3. CASE Quiescent \/ UNCHANGED vars
  <2>1. deployed' = deployed /\ ledger' = ledger
        BY <1>3 DEF Quiescent, vars, chain
  <2>2. QED BY <2>1 DEF TokenStep
<1>4. QED BY <1>1, <1>2, <1>3 DEF Next

\* For every number of invocations and every recipient that is an address,
\* the tokens of a contract deploy.js created move once and wholly
\* (TokensMoveOnce): the shared key, lost answers and failures never let a
\* second or partial transfer through.
THEOREM TokensMovedOnce ==
    ASSUME RecipientIsAddress
    PROVE  Spec => TokensMoveOnce
<1>1. Init => OInv BY InitIInv, InitOwnership DEF OInv
<1>2. OInv /\ [Next]_vars => OInv'
      BY NextIInv, NextOwnership DEF OInv
<1>3. OInv /\ [Next]_vars => [TokenStep]_vars
      BY NextTokenStep
<1>4. QED BY <1>1, <1>2, <1>3, PTL DEF Spec, TokensMoveOnce
=============================================================================
