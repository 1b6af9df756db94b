# Formal model of the haqq token provisioning workflow

This directory holds TLA+ specifications of the repository's one piece of
logic: the deployment script `contracts/scripts/deploy.js` with its network
configuration `contracts/hardhat.config.js`. It also holds the TLC configurations
that model-check them and the TLAPS proofs about them.

## 1. Inventory

| Component | Source | State | Operations | Status |
|---|---|---|---|---|
| Provisioning workflow | `src/contracts/scripts/deploy.js` | where `main()` is; the nonce `deploy()`/`transfer()` read; the contract address; the transfer's nonce; `deployerTokenBalance`; the exit code and error | `getSigners`, `getBalance` + zero check, `deploy`, `waitForDeployment`, read-back, conditional `transfer`, `wait`, top-level `then`/`catch` | modelled |
| Network configuration | `src/contracts/hardhat.config.js` | whether `PRIVATE_KEY` is set; whether the node has its own accounts | decides what `getSigners()` returns | modelled |
| HaqqTestToken contract | Solidity source outside `src/` (from the spec) | balances per contract | constructor (mint to deployer), `transfer`, `balanceOf` | partly |
| JSON-RPC node | third-party environment | deployer's native balance, confirmed nonce, pending nonce, mempool, deployed addresses, reverted transactions | admit or reject a transaction, mine the next one, lose an answer, fail a call | partly |
| Docs site config | `src/docs/.vuepress/config.js` | static data | none | not modelled |
| Built bundles | `src/assets/js/*.js` | generated webpack output | none | not modelled |

**How the parts interact.** Each invocation of the script is one Node.js
process. It runs `main()` as one sequential async function. The processes never
talk to each other. They all use the same deployer account on one node, so they
share three things:

- the deployer's native balance, which pays gas;
- its nonce;
- the node's mempool.

`deploy()` and `transfer()` (ethers v6) do two things:

1. read the pending nonce;
2. send a signed transaction.

The node accepts a transaction only at the next pending nonce, and only when
the balance covers the gas of every pending transaction. It mines in nonce
order. A contract's address is derived from the deployer and the creation
nonce. `waitForDeployment()` and `wait()` block until the node has mined.

**What is hard.**
- Concurrent invocations racing for the same nonce.
- An answer lost after the node accepted the transaction.
- A failure between deploying and distributing, with nothing rolled back.
- Waits with no timeout.
- The shipped placeholder recipient, and a recipient equal to the deployer.

Every item is listed with its source line under `hazards` in `PROJECT.json`.

**What makes it correct** (spec sections 7 and 8):
- two invocations never share a contract;
- with an address recipient, a run fails only with no signer, no funds, a
  rejected transaction or a network error: the transfer never reverts;
- an exit 0 after a nonzero balance means the recipient holds that balance and
  the deployer holds none;
- if every run succeeded, no deployed contract still holds tokens at the
  deployer;
- every run ends.

## 2. Modules

- `Provisioning.tla` is the model.
  - CONSTANTS: `Procs`, the invocations; `Accounts`; `Deployer`; `Recipient`,
    which need not be an address; `InitialSupply`; `GasCost`; `MaxNative`.
    The assumption `ConstantsAssumption` names what the proofs need.
  - One action per await of `main()`, named after the code:
    - `getSigners`: lines 9-13.
    - `getBalance`: lines 15-21.
    - `deploy` and `deploySend`: line 36, split into reading the nonce and
      sending, because another process can act in between.
    - `waitForDeployment`: lines 38-40.
    - `readBack`: lines 42-54 and the else branch at 69-71.
    - `transfer` and `transferSend`: line 60. The address is resolved first,
      then the nonce is read, then the transaction is sent.
    - `wait`: lines 62-68.
    - `rpcFail`: any awaited call rejects, and `catch` exits 1.
    - `sendLost`: the node accepted a transaction but the answer was lost.
  - The node's step is `Mine`. The token's `transfer` (`TransferOk`,
    `AfterTransfer`) debits, then credits, or reverts.
  - `Fail` and `Succeed` model lines 74-79.
- `MC_Provisioning.tla` gives the model values.
- `ProvisioningDrops.tla` adds one fault of the node: `NodeRestart` empties
  the in-memory mempool and the pending nonce falls back to the confirmed
  one. The script notices nothing. `MC_Drops.tla` instantiates it.
  `RestartInv` is what survives a restart: types, the gas and nonce
  bookkeeping of the mempool, code behind every address past
  `waitForDeployment`, all-or-nothing balances, and transfers of the whole
  supply (`PendingWhole`).
- `ProvisioningAbstract.tla` is what the workflow promises, with no nonces,
  gas or mempool. A contract is created, possibly owned by one run
  (`Create`); an owned contract is distributed (`Distribute`); a run exits 0
  only when its own contract is distributed (`Finish`), or fails
  (`FailRun`).
- `ProvisioningRefinement.tla` maps `Provisioning` onto it:
  - a contract exists once its creation is mined;
  - it is "distributed" once the deployer's balance in it is 0 (the test at
    line 54);
  - a run owns the address `deploy()` returned to it once code is there;
  - the outcome is the exit code.
  A creation whose answer was lost is a contract nobody owns.
  `Refines == A!ASpec` is checked by TLC (`MC_Refinement`) and proved.
- `ProvisioningProofs.tla`, `OwnershipProofs.tla`, `TokenProofs.tla`,
  `RefinementProofs.tla` and `DropsProofs.tla` hold the TLAPS proofs.

Abstractions:
- Console output, `formatEther`, and `name`/`symbol`/`decimals` are left out.
  They are only printed.
- `initialSupply` (10^24) is abstracted to 2.
- Deploy gas and transfer gas are one cost, `GasCost`.
- A contract address is the nonce that created it.

## 3. Runs

All runs use `Procs = {r1, r2}`, `Accounts = {d, a}`, `Deployer = d`,
`InitialSupply = 2`, `GasCost = 1` and a native balance in `0..4`. Four
transactions is the most two invocations can send, so `0..4` covers every case:
- no gas at all;
- gas for the deployment but not the transfer;
- gas for one invocation's two transactions but not the other's;
- gas for everything.

Every signer configuration is in the initial states. Two invocations are
enough for the nonce race and for a lost answer of one invocation to affect the
other.

| Run | Expect | Shows |
|---|---|---|
| `provisioning` (`MC_Provisioning.cfg`) | pass, ~10.7k states | `TypeOK`; `DistinctContracts`; `OnlyDeclaredFailures` (with an address recipient the transfer never reverts); `DistributedOnSuccess`; `SuccessLeavesNothingStranded` (a lost answer never hides behind an all-success); `OInv`, the ownership invariant of the proofs; `Termination`; `TokensMoveOnce`, an action property: every step leaves each deployed contract deployed, and its balances either unchanged or moved from all at the deployer to all at the recipient; `AcceptedTransferLands`: a transfer the node accepted is mined and empties the contract at the deployer, even when `wait()` failed and the run exited 1 |
| `refinement` (`MC_Refinement.cfg`) | pass, ~10.7k states | `Refines`: every behaviour is one of `ProvisioningAbstract` under the mapping |
| `self_recipient` (`MC_SelfRecipient.cfg`) | violation of `DistributedOnSuccess` | with recipient = deployer, the script exits 0 while the deployer still holds everything |
| `drops_tokens` (`MC_DropsTokens.cfg`) | pass, ~18.6k states | under restarts: `RestartInv` (gas of everything pending paid, code behind every address past `waitForDeployment`, all-or-nothing balances) and `TokensMoveOnce` still hold. The node model over-approximates ethers here (see below), so both hold a fortiori for the code. |
| `drops_hang` (`MC_DropsHang.cfg`) | violation of `Termination` | r1's deployment is forgotten; `waitForDeployment()` has no timeout and never resends, so r1 never exits, where the spec says every failure exits non-zero |

Two branches never fire in the passing run, and that is correct:
- the "no tokens to transfer" branch, because the constructor always mints a
  nonzero supply to the deployer;
- a reverted transfer, because only the invocation that deployed a contract
  moves its tokens.

`OnlyDeclaredFailures` is the property that would catch either one becoming
reachable. The `InvalidRecipient` branch of `transfer` (a recipient that is no
address, such as the shipped `"[YOUR_WALLET_ADDRESS]"` placeholder) is modelled
but no run takes it: spec section 7 counts it as a malformed configuration and
section 9 already flags the missing validation, so it is a declared failure,
and `OnlyDeclaredFailures` and the proofs assume an address recipient.

**Restarts over-approximate ethers.** In `ProvisioningDrops`, when a restart
forgets an invocation's transaction and another transaction takes its nonce,
ethers' `wait()` (which `waitForDeployment` awaits) throws
`TRANSACTION_REPLACED`, and the invocation exits 1; the model has that exit as
`rpcFail`, but also lets `waitForDeployment` and `wait` return, since they only
look at what is mined at the nonce. Every behaviour of the code is therefore a
behaviour of the model, and invariants and action properties that hold for the
model hold for the code. Properties that fail only in the extra behaviours
(two invocations on one contract) say nothing about the code and are not
checked there.

Each property has a mutant in `PROJECT.json`, a plausible bug that TLC
catches:
- the node checks only one transaction's gas;
- the contract address comes from the latest nonce instead of the pending one;
- the transfer moves one token more than the balance read;
- `wait()` is not awaited (also breaks `Refines`);
- the transfer leaves one token behind (breaks `OInv`,
  `AcceptedTransferLands`, `TokensMoveOnce` and `RestartInv`);
- `balanceOf` is asked about the wrong holder;
- the contract address is computed from the wrong nonce.

**Fairness.** `WF(Progress(p))` for each invocation: Node.js runs `main()`
until it settles. `WF(Mine)`: the node keeps producing blocks. Network failures
and lost answers are possible but never forced. So `Termination` says the waits
end because the node mines, not because a failure ends them. In the drop
runs `NodeRestart` is not fair either: one restart is enough to hang a run,
since nothing in the script or the node ever resends.

## 4. Proofs

All proofs hold for every value of the constants that satisfies
`ConstantsAssumption` (finite `Procs`, `Deployer \in Accounts`, positive
supply and gas cost, natural `MaxNative`), plus the hypotheses stated.

`ProvisioningProofs.tla`:
- `InvariantHolds`: `Spec => []IInv`, the inductive invariant the other two
  rest on (TLC checks it as a conjunct of `OInv`);
- `TypeCorrect`: `Spec => []TypeOK`;
- `ContractsDistinct`: `Spec => []DistinctContracts`.

`TypeOK` alone is not inductive. `Mine` subtracts gas, and it applies
`ledger[tx.contract]` to a transfer's contract. So `IInv` adds four facts:
- `PoolNonces`: every mempool nonce is between the confirmed nonce and the
  pending nonce, with one transaction per nonce. So the mined transaction is
  the lowest.
- `PendingPaid`: the balance pays the gas of everything pending. So the
  balance stays `>= 0`.
- `TransfersTargetCode`: a pending transfer, and an invocation past
  `waitForDeployment`, refers to deployed code with an address recipient.
- `AddressesBelowNext`: every held address is below the pending nonce. A new
  address equals the pending nonce, so it is distinct from every held one.

`OwnershipProofs.tla`, with `RecipientIsAddress`:
- `OwnershipHolds`: `Spec => []OInv`, where `OInv == IInv /\ Ownership`;
- `FailuresDeclared`: `Spec => []OnlyDeclaredFailures`;
- with also `Recipient # Deployer`: `DistributionOnSuccess`
  (`[]DistributedOnSuccess`) and `NothingStranded`
  (`[]SuccessLeavesNothingStranded`).

`Ownership` is what makes these inductive. Its main conjuncts:
- each deployed contract's ledger is either `Minted` or `Credited`;
- a pending transfer moves the whole supply of a `Minted` contract owned by
  some invocation, and there is at most one per contract;
- an owned contract is untouched until its owner sends the transfer;
- `readBack` reads exactly the supply;
- a waiting invocation's transfer is either pending or already credited;
- every deployed contract, and every pending deployment, is owned or some
  invocation has exited 1.

The last one is why an all-success run strands nothing: a lost answer always
leaves an exit 1 behind. The proof has one lemma per group of actions, with
`CreditWhole` for the token arithmetic.

`RefinementProofs.tla`, with `RecipientIsAddress` and `Recipient # Deployer`:
- `Refinement`: `Spec => A!ASpec`.

The argument:
- `Init` maps to `AInit`.
- Each step maps to an abstract step or a stutter, under
  `OInv /\ NonceBudget`. `NonceBudget` bounds every address by `MaxNative`,
  so addresses stay in the abstract `Addresses`.
- A mined deployment is `Create`, owned or not.
- A mined transfer is `Distribute` of its owned contract.
- `wait` finishing is `Finish`, and any failure is `FailRun`.
- Every other step is a stutter.

`TokenProofs.tla`, with `RecipientIsAddress`:
- `TokensMovedOnce`: `Spec => TokensMoveOnce`, i.e. `[][TokenStep]_vars`.

The argument: from `OInv`, a step of an invocation or a network failure
leaves `deployed` and `ledger` alone (`LocalChainUnchanged`). Mining a
creation adds an address below no deployed one (`DeployedConfirmed`).
Mining a transfer that does not revert finds, by `PendingFull`, a `Minted`
contract and the whole supply, so `CreditWhole` makes it `Credited`. The
temporal step is `OInv /\ [Next]_vars => [TokenStep]_vars` combined with
`[]OInv` by PTL.

`DropsProofs.tla`, with no hypothesis on the recipient, for `SpecDrops`:
- `RestartInvariant`: `SpecDrops => []RestartInv`;
- `RestartTypeCorrect`: `SpecDrops => []TypeOK` (a corollary);
- `RestartTokensMoveOnce`: `SpecDrops => TokensMoveOnce`.

`IInv` and `OInv` are not invariants of this over-approximation:
`AddressesBelowNext`, `DistinctContracts` and the ownership facts break in its
extra behaviours, where a wait returns on a nonce another transaction took. `RestartInv` keeps only what no
restart can break, and it is inductive:
- a restart empties the mempool, so nothing is left to pay for;
- `waitForDeployment` waits for code at the address, so
  `TransfersTargetCode` survives even when the address was taken by another
  invocation;
- balances are all-or-nothing, so `readBack` reads the whole supply or 0.

Without ownership, the token argument changes. A transfer that does not
revert needs `ledger[c][Deployer] >= InitialSupply`, and
`DeployerHoldsAllOrNothing` shows that only a `Minted` contract has that.
So even in the model's extra behaviours, a second transfer of one contract
would revert. `SubmitPool` of
`ProvisioningProofs` is stated with only the mempool facts it needs, so
both proofs use it.

Only TLC checks these:
- `Termination` and `AcceptedTransferLands`, because they are liveness
  properties and TLAPS cannot prove liveness (nor reason about `ENABLED`,
  which the fairness conditions need);
- the violations of the drop runs.

## 5. Plan for later sittings

1. A sequential re-run as a constraint of the same model: a second run after
   a failure deploys a second contract (non-idempotence across time).
2. A fair `NodeRestart` with a resending client, to show what a timeout and
   resend in the script would restore.
3. Refinement under `ProvisioningDrops`, which must fail, since ownership is
   lost; a weaker abstract spec without owners that it does refine.

## 6. Not modelled

- The VuePress configuration and the pre-built bundles: static data and
  generated code, with no operation that changes state.
- The node beyond the behaviour the script depends on: fee bumping,
  replacement and reorgs. The script never resends, so none of them is
  reachable from the script alone.
