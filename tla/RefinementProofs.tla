-------------------------- MODULE RefinementProofs --------------------------
(***************************************************************************)
(* Proof that Provisioning implements ProvisioningAbstract under the       *)
(* refinement mapping of module ProvisioningRefinement, for every value of *)
(* the constants and a recipient that is an address other than the         *)
(* deployer.  Each step of the script or of the node is a step of the      *)
(* abstract workflow or leaves its state alone; the argument rests on      *)
(* OInv, proved in OwnershipProofs, and on NonceBudget.                    *)
(***************************************************************************)
EXTENDS ProvisioningRefinement, OwnershipProofs

USE ConstantsAssumption

-----------------------------------------------------------------------------
(* Every nonce the deployer uses is an address of ContractAddresses.       *)

LEMMA BudgetInit == Init => NonceBudget
BY DEF Init, NonceBudget

LEMMA BudgetNext == TypeOK /\ NonceBudget /\ [Next]_vars => NonceBudget'
<1> SUFFICES ASSUME TypeOK, NonceBudget, [Next]_vars PROVE NonceBudget'
    OBVIOUS
<1>1. CASE Mine
  <2>1. native' = native - GasCost /\ acctNonce' = acctNonce + 1
        BY <1>1 DEF Mine
  <2>2. QED BY <2>1 DEF NonceBudget, TypeOK
<1>2. CASE ~Mine
  <2>1. native' = native /\ acctNonce' = acctNonce
        BY <1>2 DEF Next, Progress, getSigners, getBalance, deploy, deploySend,
                    waitForDeployment, readBack, transfer, transferSend, wait,
                    rpcFail, sendLost, Quiescent, vars, chain
  <2>2. QED BY <2>1 DEF NonceBudget
<1>3. QED BY <1>1, <1>2

LEMMA NonceBound ==
    ASSUME TypeOK, NonceBudget
    PROVE  acctNonce \in ContractAddresses
<1>1. GasCost * acctNonce >= acctNonce BY DEF TypeOK
<1>2. QED BY <1>1 DEF NonceBudget, TypeOK, ContractAddresses

-----------------------------------------------------------------------------
(* The abstract step each kind of concrete step maps to.                   *)

\* A step that changes no contract, no balance of one, no exit code, and no
\* invocation's address of deployed code is an abstract stutter.
LEMMA StutterStep ==
    ASSUME deployed' = deployed, ledger' = ledger, exitCode' = exitCode,
           \A q \in Procs : OwnerOf(q)' = OwnerOf(q)
    PROVE  UNCHANGED A!avars
<1>1. absStatus' = absStatus BY DEF absStatus, StatusOf
<1>2. absOwner' = absOwner BY DEF absOwner
<1>3. absOutcome' = absOutcome BY DEF absOutcome, OutcomeOf
<1>4. QED BY <1>1, <1>2, <1>3 DEF A!avars

\* Fail(p) of an invocation still running is the abstract FailRun(p).
LEMMA FailStep ==
    ASSUME TypeOK, NEW p \in Procs, exitCode[p] = NoExit,
           exitCode' = [exitCode EXCEPT ![p] = 1],
           deployed' = deployed, ledger' = ledger, contract' = contract
    PROVE  A!FailRun(p)
<1>1. absOutcome[p] = "running" BY DEF absOutcome, OutcomeOf, NoExit
<1>2. absOutcome' = [absOutcome EXCEPT ![p] = "failed"]
  <2>1. \A q \in Procs : q # p => OutcomeOf(q)' = OutcomeOf(q)
        BY DEF OutcomeOf, TypeOK
  <2>2. OutcomeOf(p)' = "failed" BY DEF OutcomeOf, TypeOK, NoExit
  <2>3. QED BY <2>1, <2>2 DEF absOutcome
<1>3. absStatus' = absStatus /\ absOwner' = absOwner
      BY DEF absStatus, StatusOf, absOwner, OwnerOf
<1>4. QED BY <1>1, <1>2, <1>3 DEF A!FailRun


\* The wait() of line 64 returning is the abstract Finish(p): the contract
\* the invocation owns has been distributed.
LEMMA FinishStep ==
    ASSUME OInv, RecipientIsAddress, Recipient # Deployer,
           NEW p \in Procs, wait(p)
    PROVE  A!Finish(p)
<1> USE DEF OInv, IInv, TypeOK, Ownership
<1>1. /\ contract[p] \in deployed
      /\ txNonce[p] < acctNonce
      /\ ledger[contract[p]] = Credited
      /\ exitCode[p] = NoExit
  <2>1. contract[p] \in deployed /\ txNonce[p] < acctNonce
        BY DEF wait, TransfersTargetCode
  <2>2. QED BY <2>1 DEF wait, WaitTracksTransfer, ExitMeansDone
<1>2. /\ exitCode' = [exitCode EXCEPT ![p] = 0]
      /\ UNCHANGED <<deployed, ledger, contract>>
      BY <1>1 DEF wait, Succeed, NoRevert, chain
<1>3. StatusOf(contract[p]) = "distributed"
      BY <1>1 DEF StatusOf, Credited, Minted, RecipientIsAddress
<1>4. absOutcome[p] = "running" BY <1>1 DEF absOutcome, OutcomeOf, NoExit
<1>5. absOwner[p] \in DOMAIN absStatus
      /\ absStatus[absOwner[p]] = "distributed"
      BY <1>1, <1>3 DEF absOwner, OwnerOf, absStatus
<1>6. absOutcome' = [absOutcome EXCEPT ![p] = "ok"]
  <2>1. \A q \in Procs : q # p => OutcomeOf(q)' = OutcomeOf(q)
        BY <1>2 DEF OutcomeOf
  <2>2. OutcomeOf(p)' = "ok" BY <1>2 DEF OutcomeOf, NoExit
  <2>3. QED BY <2>1, <2>2 DEF absOutcome
<1>7. absStatus' = absStatus /\ absOwner' = absOwner
      BY <1>2 DEF absStatus, StatusOf, absOwner, OwnerOf
<1>8. QED BY <1>4, <1>5, <1>6, <1>7 DEF A!Finish

\* The node mining a creation is the abstract Create: the new contract
\* holds its supply, and belongs to the invocation deploy() returned its
\* address to, if any.
LEMMA CreateStep ==
    ASSUME OInv, NonceBudget, NEW tx \in pool,
           tx.nonce = acctNonce, tx.kind = "deploy",
           deployed' = deployed \cup {tx.nonce},
           ledger' = [c \in deployed' |->
                        IF c = tx.nonce THEN Minted ELSE ledger[c]],
           UNCHANGED run
    PROVE  \E c \in ContractAddresses, o \in Procs \cup {NoAddress} :
               A!Create(c, o)
<1> USE DEF OInv, IInv, TypeOK, Ownership
<1> DEFINE n == tx.nonce
<1>0. contract' = contract /\ exitCode' = exitCode BY DEF run
<1>1. n \in ContractAddresses BY NonceBound
<1>2. n \notin deployed /\ n \notin DOMAIN absStatus
      BY DEF DeployedConfirmed, absStatus
<1>3. absStatus' = [x \in DOMAIN absStatus \cup {n} |->
                     IF x = n THEN "held" ELSE absStatus[x]]
      BY <1>2 DEF absStatus, StatusOf, Minted
<1>4. absOutcome' = absOutcome BY <1>0 DEF absOutcome, OutcomeOf
<1>5. \A q \in Procs : contract[q] # n => OwnerOf(q)' = OwnerOf(q)
      BY <1>0 DEF OwnerOf
<1>6. CASE \E q \in Procs : contract[q] = n
  <2>1. PICK q \in Procs : contract[q] = n BY <1>6
  <2>2. \A r \in Procs : r # q => contract[r] # n
        BY <2>1 DEF DistinctContracts, NoAddress
  <2>3. absOwner[q] = NoAddress BY <1>2, <2>1 DEF absOwner, OwnerOf
  <2>4. absOwner' = [absOwner EXCEPT ![q] = n]
        BY <1>0, <1>5, <2>1, <2>2 DEF absOwner, OwnerOf
  <2>5. A!Create(n, q) BY <1>2, <1>3, <1>4, <2>3, <2>4 DEF A!Create
  <2>6. QED BY <1>1, <2>5
<1>7. CASE ~\E q \in Procs : contract[q] = n
  <2>1. absOwner' = absOwner BY <1>5, <1>7 DEF absOwner
  <2>2. A!Create(n, NoAddress) BY <1>2, <1>3, <1>4, <2>1 DEF A!Create
  <2>3. QED BY <1>1, <2>2
<1>8. QED BY <1>6, <1>7

\* The node mining a transfer is the abstract Distribute of its contract,
\* which the invocation that sent the transfer owns.
LEMMA DistributeStep ==
    ASSUME OInv, NonceBudget, RecipientIsAddress, Recipient # Deployer,
           NEW tx \in pool, tx.kind = "transfer",
           deployed' = deployed,
           ledger' = [ledger EXCEPT ![tx.contract] = Credited],
           UNCHANGED run
    PROVE  \E c \in ContractAddresses : A!Distribute(c)
<1> USE DEF OInv, IInv, TypeOK, Ownership
<1> DEFINE c == tx.contract
<1>0. contract' = contract /\ exitCode' = exitCode BY DEF run
<1>1. c \in deployed /\ ledger[c] = Minted /\ Owned(c)
      BY DEF TransfersTargetCode, PendingFull
<1>2. c \in ContractAddresses
  <2>1. c < acctNonce BY <1>1 DEF DeployedConfirmed
  <2>2. acctNonce \in ContractAddresses BY NonceBound
  <2>3. c \in Nat /\ acctNonce \in Nat /\ MaxNative \in Nat BY <1>1
  <2>4. QED BY ONLY <2>1, <2>2, <2>3 DEF ContractAddresses
<1>3. absStatus[c] = "held" BY <1>1 DEF absStatus, StatusOf, Minted
<1>4. \E q \in Procs : absOwner[q] = c BY <1>1 DEF Owned, absOwner, OwnerOf
<1>5. absStatus' = [absStatus EXCEPT ![c] = "distributed"]
      BY <1>1 DEF absStatus, StatusOf, Credited, Minted, RecipientIsAddress
<1>6. absOwner' = absOwner /\ absOutcome' = absOutcome
      BY <1>0 DEF absOwner, OwnerOf, absOutcome, OutcomeOf
<1>7. A!Distribute(c) BY <1>1, <1>3, <1>4, <1>5, <1>6 DEF A!Distribute, absStatus
<1>8. QED BY <1>2, <1>7


\* An invocation that has not exited is still running.
LEMMA RunningBeforeDone ==
    ASSUME OInv, NEW p \in Procs, pc[p] # "done"
    PROVE  exitCode[p] = NoExit
BY DEF OInv, Ownership, ExitMeansDone

\* A step that keeps contracts, balances and addresses and either keeps the
\* exit codes or fails p maps to a stutter or to FailRun(p).
LEMMA KeepOrFail ==
    ASSUME OInv, NEW p \in Procs, pc[p] # "done",
           UNCHANGED <<deployed, ledger, contract>>,
           \/ exitCode' = exitCode
           \/ exitCode' = [exitCode EXCEPT ![p] = 1]
    PROVE  [A!ANext]_A!avars
<1>1. exitCode[p] = NoExit BY RunningBeforeDone
<1>2. \A q \in Procs : OwnerOf(q)' = OwnerOf(q) BY DEF OwnerOf
<1>3. CASE exitCode' = exitCode BY <1>2, <1>3, StutterStep
<1>4. CASE exitCode' = [exitCode EXCEPT ![p] = 1]
      BY <1>1, <1>4, FailStep DEF A!ANext, OInv, IInv
<1>5. QED BY <1>3, <1>4

LEMMA StepRefines ==
    ASSUME RecipientIsAddress, Recipient # Deployer, OInv, NonceBudget,
           [Next]_vars
    PROVE  [A!ANext]_A!avars
<1>1. ASSUME NEW p \in Procs,
             \/ getSigners(p) \/ getBalance(p) \/ deploy(p) \/ deploySend(p)
             \/ waitForDeployment(p) \/ readBack(p) \/ transfer(p)
             \/ transferSend(p) \/ rpcFail(p) \/ sendLost(p)
      PROVE  [A!ANext]_A!avars
  <2>1. pc[p] # "done"
        BY <1>1 DEF getSigners, getBalance, deploy, deploySend,
                    waitForDeployment, readBack, transfer, transferSend,
                    rpcFail, sendLost
  <2>2. CASE deploySend(p) /\ Admissible(nonceRead[p])
    <3>a. contract[p] = NoAddress
          BY <2>2 DEF deploySend, OInv, Ownership, FreshBeforeDeploy
    <3>b. /\ acctNonce <= next /\ next \in Nat /\ acctNonce \in Nat
          /\ \A c \in deployed : c < acctNonce /\ c \in Nat
          BY DEF OInv, Ownership, IInv, PoolNonces, DeployedConfirmed, TypeOK
    <3>c. next \notin deployed
          BY ONLY <3>b
    <3>1. contract[p] = NoAddress /\ next \notin deployed
          BY <3>a, <3>c
    <3>2. contract' = [contract EXCEPT ![p] = next]
          /\ UNCHANGED <<deployed, ledger, exitCode>>
          BY <2>2 DEF deploySend, Admissible
    <3>3. \A q \in Procs : OwnerOf(q)' = OwnerOf(q)
          BY <3>1, <3>2 DEF OwnerOf, NoAddress, OInv, IInv, TypeOK
    <3>4. QED BY <3>2, <3>3, StutterStep
  <2>3. CASE ~(deploySend(p) /\ Admissible(nonceRead[p]))
    <3>1. UNCHANGED <<deployed, ledger, contract>>
          BY <1>1, <2>3 DEF getSigners, getBalance, deploy, deploySend,
                            waitForDeployment, readBack, transfer,
                            transferSend, rpcFail, sendLost, chain
    <3>2. readBack(p) => bal'[p] > 0
          BY DEF readBack, OInv, IInv, TypeOK, TransfersTargetCode,
                 Ownership, UntouchedBeforeTransfer, Minted
    <3>3. \/ exitCode' = exitCode
          \/ exitCode' = [exitCode EXCEPT ![p] = 1]
          BY <1>1, <2>3, <3>2
          DEF getSigners, getBalance, deploy, deploySend, waitForDeployment,
              readBack, transfer, transferSend, rpcFail, sendLost, Fail, Goto
    <3>4. QED BY <2>1, <3>1, <3>3, KeepOrFail
  <2>4. QED BY <2>2, <2>3
<1>5. ASSUME NEW p \in Procs, wait(p) PROVE [A!ANext]_A!avars
      BY <1>5, FinishStep DEF A!ANext
<1>6. CASE Mine
  <2>1. PICK tx \in pool :
          /\ tx.nonce = acctNonce
          /\ IF tx.kind = "deploy"
               THEN /\ deployed' = deployed \cup {tx.nonce}
                    /\ ledger' = [c \in deployed' |->
                                    IF c = tx.nonce THEN Minted ELSE ledger[c]]
               ELSE /\ UNCHANGED deployed
                    /\ IF TransferOk(tx)
                         THEN ledger' = AfterTransfer(tx)
                         ELSE UNCHANGED ledger
          /\ UNCHANGED run
        BY <1>6 DEF Mine
  <2>2. CASE tx.kind = "deploy"
        BY <2>1, <2>2, CreateStep DEF A!ANext
  <2>3. CASE tx.kind # "deploy"
    <3> USE DEF OInv, IInv, TypeOK, Ownership
    <3>1. /\ tx \in Tx /\ tx.kind = "transfer"
          /\ tx.contract \in deployed /\ ledger[tx.contract] = Minted
          /\ tx.amount = InitialSupply /\ tx.to = Recipient
          BY <2>3 DEF Tx, PoolNonces, TransfersTargetCode, PendingFull
    <3>2. TransferOk(tx) BY <3>1 DEF TransferOk, Minted
    <3>3. ledger' = [ledger EXCEPT ![tx.contract] = Credited]
          BY <2>1, <2>3, <3>1, <3>2, CreditWhole
    <3>4. QED BY <2>1, <2>3, <3>1, <3>3, DistributeStep DEF A!ANext
  <2>4. QED BY <2>2, <2>3
<1>7. CASE Quiescent \/ UNCHANGED vars
  <2>1. UNCHANGED <<deployed, ledger, exitCode, contract>>
        BY <1>7 DEF Quiescent, vars, chain, run
  <2>2. \A q \in Procs : OwnerOf(q)' = OwnerOf(q) BY <2>1 DEF OwnerOf
  <2>3. QED BY <2>1, <2>2, StutterStep
<1>8. QED BY <1>1, <1>5, <1>6, <1>7 DEF Next, Progress

\* Provisioning implements ProvisioningAbstract: for every number of
\* invocations, every initial native balance and every gas cost, the
\* script and the node only ever create contracts holding their supply,
\* distribute a contract only for the invocation that owns it, and let an
\* invocation exit 0 only after its own contract was distributed.
THEOREM Refinement ==
    ASSUME RecipientIsAddress, Recipient # Deployer
    PROVE  Spec => Refines
<1>1. Init => A!AInit
  <2> SUFFICES ASSUME Init PROVE A!AInit OBVIOUS
  <2>1. deployed = {} BY DEF Init
  <2>2. absStatus = [c \in {} |-> "held"] BY <2>1 DEF absStatus
  <2>3. absOwner = [p \in Procs |-> NoAddress]
    <3>1. contract = [p \in Procs |-> NoAddress] BY DEF Init
    <3>2. QED BY <2>1, <3>1 DEF absOwner, OwnerOf
  <2>4. absOutcome = [p \in Procs |-> "running"]
    <3>1. exitCode = [p \in Procs |-> NoExit] BY DEF Init
    <3>2. \A p \in Procs : OutcomeOf(p) = "running"
      <4> TAKE p \in Procs
      <4>1. exitCode[p] = NoExit BY <3>1
      <4>2. NoExit # 0 /\ NoExit # 1 BY DEF NoExit
      <4>3. QED BY <4>1, <4>2 DEF OutcomeOf
    <3>3. QED BY <3>2 DEF absOutcome
  <2>5. QED BY <2>2, <2>3, <2>4 DEF A!AInit
<1>2. Init => OInv /\ NonceBudget
      BY InitIInv, InitOwnership, BudgetInit DEF OInv
<1>3. OInv /\ NonceBudget /\ [Next]_vars => (OInv /\ NonceBudget)'
      BY NextIInv, NextOwnership, BudgetNext DEF OInv, IInv
<1>4. OInv /\ NonceBudget /\ [Next]_vars => [A!ANext]_A!avars
      BY StepRefines
<1>5. QED BY <1>1, <1>2, <1>3, <1>4, PTL DEF Spec, Refines, A!ASpec

=============================================================================
