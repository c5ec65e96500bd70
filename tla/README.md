# TLA+ specifications of the Angle borrowing module

These modules specify the contracts of `contracts/` that lend stablecoins (agTokens) against
collateral and carry them between chains, and the scripts of `deploy/` that put them in place: what
each call does to the storage, what may happen between the steps of a call, and what must hold
throughout. TLC checks small instances; TLAPS proves the main invariants for every
value of the constants. `PROJECT.json` maps every definition to the lines it models and lists the
runs, the theorems, the hazards of the code and the disagreements found between code and comments.

## 1. The system

| Component | State | Operations | Hard behaviours |
|---|---|---|---|
| **VaultManager** (one per collateral) | `vaultData`, `totalNormalizedDebt`, `interestAccumulator` and its date, `surplus`, `badDebt`, parameters, whitelist | `angle` (a list of actions settled at the end), `liquidate`, `getDebtOut`, `createVault`, `accrueInterestToTreasury`, setters | netting and settlement in four cases around a swapper; callbacks inside a non-reentrant call while other functions stay open; truncating divisions; values cached through a call; rollback |
| **VaultManagerERC721** (base contract of VaultManager) | `vaultIDCount`, `_owners`, `_balances`, `_vaultApprovals`, `_operatorApprovals` | mint, burn, transfers, approvals | unchecked balances, self-transfers, approvals that outlive a vault, callback on reception |
| **VaultManagerPermit** | `_nonces` | `permit` | replay, deadlines, an approval and its revocation signed one after the other |
| **Treasury** (one per stablecoin) | list and map of VaultManagers, `surplusBuffer`, `badDebt`, references | fetch and push surplus, update bad debt, add/remove VaultManagers, migrations | pooling surplus and losses, the balance that must back the buffer, a manager removed with unaccrued amounts |
| **CoreBorrow** | roles, flash loan module | grant/revoke, `setFlashLoanModule`, `setCore` | loops over treasuries, two roles kept in step by convention |
| **FlashAngle** | per-stablecoin parameters, treasury | `flashLoan`, accrual of fees | inflated supply during the callback |
| **AgToken** | balances, minters, treasury | mint, burns, minters | who holds the minter right after wiring changes |
| **MultiBridge tokens** | limits, hourly usage, fees, list | `swapIn`, `swapOut`, governance | successive minimums, hour boundaries, list handling |
| **LayerZero bridge** | trusted remotes, failed messages, credits | send, receive, retry, withdraw, credit | loss, reordering, failure and retry of messages, insufficient balance |
| **Settlement** | phase, frozen oracle and accumulator, exchange rate | activation, claims, recovery | phases by timestamp, claims and recovery sharing a balance |
| **Deployment scripts** | contracts recorded, rights handed over | the tags of hardhat-deploy, with their dependencies | runs that throw or die between two transactions, reruns, steps that are not idempotent, the order of rights |
| Swapper, oracles, keeper multicall, UI helpers, proxies | none of the protocol's | | calls to third parties, views |

How they interact:

- A user calls `angle`. The VaultManager mints and burns agTokens (it is a minter because its
  Treasury registered it), moves collateral, calls the receiver of a vault it mints
  (`onERC721Received`), the VaultManager named by a `getDebtIn` (`getDebtOut` there) and a swapper
  between the payment of what it owes and the collection of what it is owed.
- A liquidator calls `liquidate` on several vaults; the settlement is that of `angle`.
- Anybody calls the Treasury's `fetchSurplusFromAll` or `pushSurplus`, which calls
  `accrueInterestToTreasury` on each VaultManager and on the flash loan module.
- A user sends stablecoins to another chain: LayerZeroBridge locks them on mainnet, or
  LayerZeroBridgeToken swaps them out of the stablecoin and burns what it gets; the endpoint carries a
  message; the bridge there pays, or mints and swaps in; a message that fails is stored for anybody
  to retry.
- Governance winds a VaultManager down by moving its collateral to a Settlement, which the owners of
  vaults and then the holders of stablecoins claim from.
- An operator runs the scripts, which deploy contracts, register them and give the rights away.
- Governance (governors and guardians, read from CoreBorrow through the Treasury) sets parameters.
- On one chain everything runs in transactions: one call at a time, all or nothing. Interleaving
  comes only from callbacks, and failure is a rollback of the whole call. Between two chains, and
  between two transactions of a script, there is no such protection.

What makes each correct: for the VaultManager, that debts, collateral and stablecoins add up
whatever the order of actions and callbacks, that only time makes debts grow, that no call commits
with a riskier and insolvent vault, and that unhealthy vaults can always be liquidated without
taking more than the rules say. For the ownership part, that the counters count and that approvals
die with what they were given for. For the Treasury, that its buffer is backed and losses come
first; for the wiring, that exactly the right contracts can mint; for the bridges, that no amount is
created, lost or delivered twice, and that a failed message can be delivered later; for the
Settlement, that no vault is paid for twice and that what is redeemed later stays covered; for the
scripts, that no stop leaves a contract open or handed over before what it needs.

## 2. The modules

- `VaultMath` is the arithmetic: every division of the contract, with its truncation, as operators
  over a vault, a price, an accumulator and a record of parameters. The bases (10^9 and 10^27 in the
  contract) are constants, so that TLC can use small ones, where truncation is the normal case.
- `VaultManagerERC721` is the ownership. Its operators are also the ownership part of the next
  module; `NFTSpec` is the component alone.
- `VaultManager` is one VaultManager contract with its environment (below).
- `Counting` defines the sum of a function as a cardinality, which the provers can handle.
- `AgToken` is the stablecoin: balances, minters and the treasury that names them, as operators for
  the calls of the other contracts.
- `FlashAngle` extends it with the flash loan modules: parameters, fees, and the loan in progress.
- `Treasury` extends both: one stablecoin, its treasuries, its VaultManagers as a treasury sees them,
  and the part of CoreBorrow that installs flash loan modules (below).
- `VaultManagerPermit` adds signed approvals to `VaultManagerERC721`.
- `MultiBridge` is the stablecoin of a side chain: swaps of bridge tokens under limits.
- `LayerZero` extends it with mainnet, the two bridges and the messages between them. `Delivery` is
  what a bridge promises of its messages; `LayerZero` implements it.
- `Settlement` is the winding down of a VaultManager.
- `Deployment` is the scripts.
- `MCOwnership`, `MCVaultManager`, `MCLiquidation`, `MCTreasury`, `MCMultiBridge`, `MCBridge`,
  `MCSettlement` and `MCDeployment` give the constants of the runs.
- `CountingProofs`, `OwnershipProofs` (with permits), `VaultManagerProofs`, `CallProofs`,
  `TreasuryProofs`, `BridgeProofs`, `SettlementProofs` and `DeploymentProofs` hold the theorems.

Definitions whose comment starts with "Mutant" are wrong versions of the definition that follows or
precedes them. Nothing uses them: they are there to show that each property notices such a mistake
(`PROJECT.json`, "mutants").

### VaultManager: from the code to the model

A call of `angle` is `BeginAngle`, then one step per action (`Borrow`, `RepayDebt`, `AddCollateral`,
`RemoveCollateral`, `CloseVault`, `CreateVaultInCall`, `GetDebtInLocal`, `GetDebtInRemote`), then
`EndAngle`, which pays what is owed, and `Collect`, which collects and commits. `liquidate` is
`BeginLiquidation`, `LiquidateVault` for each vault, `EndLiquidation` and `Collect`. The memory of
the call (`newInterestAccumulator`, `PaymentData`, `LiquidatorData`) is the variable `tx`; `saved` is
the storage at the start of the call. A condition of the code that fails makes the action impossible,
and `Revert`, possible at any step of a call, restores `saved`: it stands for every failure, including
those of contracts outside (a token that refuses a transfer, a receiver that refuses a vault).

`tx.phase` says who has the control. In `callback` (the receiver of a vault, or the address given to
`getDebtIn`) and `swap` (the swapper), anything that is not `nonReentrant` can run: `CreateVault`,
`MoveOwnership`, `GetDebtOut` (called by another VaultManager) and `AccrueInterestToTreasury`. In
`idle` the same can run between calls, and so can governance (`SetUint64`, `Administer`), time
(`Tick`) and the market (`PriceMoves`).

Each handler is one action and contains all it does: `Borrow` is `_borrow` with `_increaseDebt` and
the accrual that the loop performs before the first action that needs it.

Abstractions, and why they keep what the properties are about:

- The stablecoins of all users are one number, `circulating`; balances and allowances of individual
  users only make calls fail, which `Revert` covers. The collateral of the contract is `custody`.
- The other VaultManagers of the treasury are `foreignDebt`: the debt recorded there. A
  `getDebtIn` to one of them reduces it, a `getDebtOut` from one of them increases it. `getDebtIn` to
  an address that is not a VaultManager (`fake`) reduces nothing and gives the control away.
- The price moves between calls. The code reads it once per call and keeps it, as here.
- The `permit` action only sets an ERC-20 allowance of the caller's. `setOracle`, `setTreasury` and
  `setBaseURI` change references the model does not distinguish. They are left out.
- A vault can be sent to a contract by `safeTransferFrom` too; the callback comes after the state has
  changed and outside of a locked call, so what it does is further steps.
- Amounts are unbounded naturals except `_balances`, whose arithmetic is unchecked in the code and
  wraps here at `MaxBalance`. Elsewhere Solidity reverts on overflow; the bounds of the runs stay far
  below, and a revert is `Revert`.
- `MaxVaults`, `MaxTime`, `MaxActions`, `MaxCollateral`, `MaxCirculating`, `MaxForeignDebt` and
  `MaxBadDebt` bound the runs only: each is a conjunct that stops a step from going beyond. In the
  proofs they are arbitrary.

### Treasury: from the code to the model

`VaultManager` above has one treasury, of which only accruals matter; here it is the other way round.
A VaultManager is its `debt` (the sum over its vaults), its `surplus`, interest up to now included,
and its bad debt (`lost`); `Borrow`, `Repay` and `Earn` are what calls of `angle` and `liquidate` and
time do to these, with any fee and any bad debt. `StablecoinsAddUp` is thus exact up to the roundings
that `EveryStepIsBacked` bounds in `VaultManager`.

- `NetSurplus`, `NetLoss` and `CanAccrue` are `accrueInterestToTreasury` of a VaultManager: what it
  mints, what it reports, and when it does not revert. `Collected` and `Losses` are the loop of
  `_fetchSurplusFromAll`; `ToBurn` and `BufferAfterBurn` are `_updateSurplusAndBadDebt`.
- `FetchAndPay` is what `fetchSurplusFromAll`, `pushSurplus` and `recoverERC20` have in common: fetch
  everything, then keep a buffer and send something to the surplus manager.
- Registration is `AddVaultManager`, `RemoveVaultManager` (with the loop of the code over the list),
  `AddMinter`, `RemoveMinter` and `SetTreasury`, the migration to another treasury.
- `SetFlashLoanModule`, `AddFlashLoanerTreasuryRole` and `RemoveFlashLoanerTreasuryRole` are
  CoreBorrow's, with the calls they make to every treasury and to the module. `GrantOrRevokeRole` is
  the inherited `grantRole` and `revokeRole` for the same role.

Every call is one step, with a condition for each revert, except a flash loan: `BeginFlashLoan` mints
and copies the state into `saved`, any of the other calls may follow (the borrower has the control),
then `EndFlashLoan` collects and burns, or `RevertFlashLoan` restores `saved`.

Abstractions:

- Users are one account (`Public`), the surplus manager another (`Recipient`). Stablecoins that
  `recoverERC20` takes out go to the latter. The recovery of other tokens moves nothing of the
  stablecoin. Users may send stablecoins to treasuries and modules, not to the surplus manager, so
  that what reaches it comes from a treasury.
- Contracts that governance lets mint (the modules of the core protocol) are external: they `Issue`,
  `Redeem` and `Resign`, and `issued` is what they answer for.
- One loan at a time: a module is `nonReentrant`, and a second module is a minter only if governance
  added it by hand.
- `setCore`, the `initialize` functions, the roles of governors and guardians, allowances and
  permits are left out: governance is one actor, and a missing allowance is a revert.
- `MaxBacking` (what backs the stablecoins) and `MaxCallback` (calls made during a loan) bound the
  runs only; in the proofs they are arbitrary.

### Permits: from the code to the model

`Permit` is `permit`: deadline, nonce, approval. What the digest and the signature check establish is
that the owner signed these very fields with the nonce now current; so a signature is a record in
`signed`, its nonce is what the owner guessed, and `Permit` needs equality with `nonces`. A contract
that owns vaults answers `isValidSignature`: what it accepts counts as signed. `used` remembers what
took effect. Everything of `VaultManagerERC721` happens in between.

### Bridges: from the code to the model

In `MultiBridge` each function of AgTokenSideChainMultiBridge is an action. `WithinLimits` is the two
successive cuts of `swapIn`, `RecordOut` the hourly limit of `swapOut`, `WithoutToken` the loop of
`removeBridgeToken`, which drops the last entry whether it has found the token or not. Bridge tokens
of other bridges come from outside (`OutsideTokens`), what VaultManagers mint and burn is `native`. `issued`,
`contributed`, `volumeIn` and `volumeOut` observe: stablecoins that swaps created, bridge tokens
that came otherwise (gifts, less recoveries), and volumes by tick rather than by hour.

`LayerZero` is one mainnet and one side chain. `LZ` is LayerZeroBridgeToken: a contract and the bridge
token it is. Each function is one transaction on one chain:

- `SendFromMain` and `SendFromSide` are `send` (and `sendWithPermit`), with the debit and `_lzSend`;
  `SendCreditFromMain` and `SendCreditFromSide` are `sendCredit`. `SwapInFor` is what `_creditTo` and
  `withdraw` of the side chain share: swap in as much as the limits leave, and give the rest to the
  recipient as bridge tokens, the credit of that chain. `PayOnMain` is `_creditTo` of mainnet.
- The endpoint is external and modelled from how the bridge uses it: messages to a chain come in the
  order they were sent; one that the bridge refuses (`require` of `lzReceive`, the source is not
  trusted) is held up (`Refuse`, `heldUp`), with those behind it, until the remote is trusted again
  or governance calls `forceResumeReceive`.
- `lzReceive` never reverts otherwise: `Deliver` executes, `DeliverFailing` stores the message in
  `failed` (`failedMessages`). The latter may always happen, as the gas left is the relayer's choice.
  `RetryMessage` clears and executes in any order; a retry that fails changes nothing.
- `received`, `dropped`, `forgotten` and `notReceived` observe: what was executed and given up,
  amounts nobody is owed any more, and for each user what was bridged and not paid.
- One user address can be any of `Users` on both chains. Adapter parameters, gas limits, precrime and
  the configuration of the endpoint only make a call fail.

`Delivery` has three actions: a message is sent once, then pending, then received once or dropped.
`ImplementsDelivery` maps `pending` to what is in the channels or stored.

### Settlement: from the code to the model

Both claims pay the collateral, call the swapper back and collect stablecoins. The model starts a
claim with one action, which pushes what is due on `calls`, and ends it with `Settle`; between the two
everything that users do may happen, further claims included, up to `MaxDepth`. `Revert` undoes all
calls under way, from `saved`. Governance acts between transactions. As the comment of
`activateSettlement` asks, the VaultManager is paused, with its interest accrued, and its collateral
is here. `covered` and `redeemed` observe the debt the rate was computed for and what was redeemed.
The subtraction that gives the leftover of a capped rate is checked by the compiler: it is a condition
of `ActivateGlobalClaimPeriod`, as the `require`s are.

### Scripts: from the code to the model

A script is a sequence of steps; a step looks up contracts by name, deploys one, or sends a
transaction. `records` is what hardhat-deploy keeps in `deployments/`, `facts` what is true of the
contracts because of transactions: registered, open, given to governance. A step says what it needs and
what makes it revert, from the contracts it calls. `deploy` does nothing if the contract is recorded
with the same arguments; `deployImplem` and `deployProxy` (`Ensure`) do nothing if it is recorded at
all. `WithDependencies` is the order that hardhat-deploy gives. A run throws (`Throw`) or dies
(`Crash`) between two steps, and what was done stays.

A network is a fork or live, mainnet or not; the constants of `constants.ts` are `Configs`. The
branches on them are `When`. Addresses, arguments of initializers that change no branch and messages
are left out.

Three details are coarser than the scripts. `bridges/LayerZeroBridge.ts` also runs on a live network
named `localhost`, which no network of the model is. `newStable/7_` has `USD` written out: it is modelled
after the stablecoin of `constants.ts` and the table of addresses have been brought in line, as its own
comment asks. The two `setUint64` transactions of the fees are one step: a run that dies between them is
not told from one that dies before.

## 3. What is checked

The runs of the VaultManager use `BASE_PARAMS = 10` and `BASE_INTEREST = 4`: with such coarse units
every division truncates in most states and the amount at stake is a large part of the amounts, so
an error of rounding direction shows in a few steps. Deadlock is not checked: with the bounds above
the system may stop (time is over, the contract is full or paused), and a contract has no obligation
to move.

| Run | Instance | What it shows |
|---|---|---|
| `ownership` | 3 users; 2 vaults, or 1 vault and 2 signatures with 2 nonces and a deadline | `_balances` counts `_owners`; free ids carry no approval; owners change only with the approval cleared; no permit takes effect twice |
| `vaults` | four families of states: 1 user, 2 vaults, 2 actions per call, interest, dust, 2 prices; 1 vault with all fees, remote managers with other fees, fees and rate changed; no vault and every setter, accepted and refused values; 1 vault and a second user that is a contract, callbacks, swaps, fake targets | types; the total debt is the sum; parameters stay consistent; custody, free vaults and the cache, through callbacks; every step backed by debt; only time accrues; no riskier vault commits insolvent |
| `liquidation` | 36 vaults x 2 accumulators x 2 prices x 288 parameter sets; one action of `angle` or one liquidation, 4 amounts | liquidations are defined, accepted, stop at the target, and make bad debt only where they must; nothing leaves a dusty debt |
| `accounting` | 1 treasury, 2 VaultManagers, 1 flash loan module, 1 other minter, `MaxBacking = 2` | types; stablecoins add up; the buffer is backed; losses come first; nothing is paid out beside a loss |
| `wiring` | 2 treasuries, 2 VaultManagers, 2 modules, no amounts | list and map agree; what is registered can mint; whoever can mint has a reason |
| `flash_wiring` | 1 treasury, 1 module, no amounts | a treasury with the flash loan role may lack a module that knows it (a finding) |
| `multibridge` | 2 bridge tokens, 1 user, 2 hours, from nothing | swaps are backed; volumes of a rolling hour are bounded; the list has only supported tokens, once |
| `bridge` | 2 chains, 2 messages to each, a fee, 2 minted by governance | types; tokens, messages and credits are backed; credits come from mints; `Delivery` is implemented; messages arrive |
| `bridge_credit` | the same, smaller amounts, nothing locked | a second credit replaces the first (a finding) |
| `settlement` | 2 vaults, 2 users, 2 nested calls | types; no vault is paid for twice; redemptions are covered |
| `settlement_leftover` | 2 vaults, price 3, collateral not worth what is owed | the rate can be capped with less collateral than the left over debt is worth (a finding) |
| `deployment` | 3 networks, 2 configurations, 5 starts, 2 runs of any of 31 tags | rights come in order; reruns neither undo nor resume; a run from nothing completes |

`vaults` starts from `ConfiguredSpec`: a contract as `initialize` leaves it, or that governance has
configured with its setters before unpausing it, which is how dust and fees get their values
(`initialize` leaves them at zero). Its `Families` constraint keeps the four instances apart: states
outside of them are checked and not continued. `MCVaultManager` assumes, and TLC evaluates, that these parameters pass the checks of
`initialize` and of the setters. `liquidation` starts from vaults of any size, dusty ones included, instead of building
them: calls reach such vaults, through deposits, loans, accruals, price moves and raises of the dust.
What `OnlyGovernanceLeavesDust` says of several actions, of other VaultManagers and of time is beyond
this run and is proved.

`accounting` starts from `ConfiguredSpec` of `MCTreasury`: what governance sets up with the calls of
the module before lending starts, which `wiring` reaches from nothing. Amounts are 0 and 1, two units
in all, and half of the surplus goes to governance (`BASE_9 = 2`), so that a buffer can be partly
burnt, partly paid, and met by the loss of the other VaultManager; one call in the callback of a loan
reaches each function once with the inflated supply (about 420,000 states). `wiring` has no amounts
because no operation of the wiring reads one; every order of two VaultManagers, two modules and two
treasuries is there (about 400,000 states), including roles granted without the rest. Two
VaultManagers are enough for each case of the removal loop: found before the end, found at the end.
These runs declare the VaultManagers symmetric, which is sound because they check safety only, no
definition singles one out, and every order of the first list is an initial state. The same holds of
the users of `ownership`, of the bridge tokens of `multibridge`, and of the vaults and users of
`settlement`.

`multibridge` uses one amount, equal to the limits tried, and a fee of one half (`BASE_PARAMS = 2`), so
that one swap fills a limit, gifts push the balance beyond it and a changed limit falls below
what is used; two hours of two ticks (the second one cut short) are what a rolling hour needs. A fee
above the whole is tried and refused. `bridge` starts set up, as the scripts of `deploy/newStable`
leave both chains and governance's limits complete it; from there remotes are removed and added, the
bridges paused and unpaused, and tokens minted. Two messages to each chain are enough for a refused
message with one behind it, and for two failures retried out of order. `settlement` has a healthy and
an unhealthy value for each vault, a rate that is capped and one that is not, and a claim within the
callback of another. `deployment` lets the second run follow any stop of the first.

`settlement` allows one call of each activation (`MaxActivations = MaxClaimPeriods = 1`): see the
observations below. `settlement_leftover` differs by its amounts: a price that does not divide the
cap.

Two actions in a call are enough for the hazards listed: they all come from two actions on the same
or on two vaults, or from an action and what happens in its callback; the longest sequences come from
several calls, which the runs do not limit except through the amounts.

The properties worth a comment:

- `EveryStepIsBacked`. `Unbacked` is what circulates, is in surplus or is to be minted, less all the
  debts behind it. Every step may raise it by less than one unit for each vault whose debt it wipes
  out, and by nothing otherwise. It covers borrow, repay and transfer fees, interest, liquidations
  with their surcharge and bad debt, accruals to the treasury, in any order. The allowance is real:
  the debt of a vault is truncated when it is paid in full.
- `RiskierVaultsAreSolvent` compares the vaults before and after the whole call, whereas the code
  checks each action when it runs.
- `OnlyGovernanceLeavesDust` does not say that debts exceed the dust, which is not so (observations):
  a debt opened just above it is recorded up to one unit of normalized debt below. No step crosses that
  bound. The tests of first debts and of repayments keep it each on its side, at an accumulator that
  moves, and `getDebtIn` from a vault to itself meets both.
- `CanAlwaysBeLiquidated` excludes a 100% maximum discount and a zero surcharge, which the setters
  accept and which make the divisions fail (observations).
- `StablecoinsAddUp` is an equality, in every state, during flash loans too: balances and what may
  still be minted as surplus, against debts, losses on record, other minters and the loan. It sees
  stablecoins from nowhere as well as earnings that disappear.
- `PaidOnlyWithoutLosses` relates what leaves a treasury to the losses of all its VaultManagers at
  that time; it leaves aside the end of a flash loan, where a rollback gives back what was spent.
- `RegisteredCanMint` is about the treasury of the token. The treasury it replaced keeps its list,
  and the VaultManagers on it may have moved.
- `TargetNotOvershot` allows one unit of collateral, the rounding of the collateral released. What is
  true of it beyond the amounts of the run is in section 4.
- `PermitsAreUsedOnce` counts: nonces move by one with each permit that took effect, so that a
  revocation cannot be followed by the approval it revoked.
- `RollingVolumesAreBounded`: usage is counted by calendar hours, so what any 3600 seconds see is
  bounded by twice the largest limit set, not by the limit.
- `ListedAreSupported` is one direction only: removing a token that is not listed, which the code
  does not refuse, may take a supported token off the list.
- `BridgedIsBacked` is an equality over both chains and what travels between them.
- `CreditsComeFromMints` is the assumption that the comment of `_creditTo` rests on.
- `AlwaysArrives` is conditional on governance leaving the bridge open (`Open`).
- `RedemptionsAreCovered` includes what governance may recover, nested redemptions and their
  reverts; it stops being claimed once more is redeemed than the debt counted, which happens when
  governance hands out stablecoins it has recovered, or when stablecoins come from elsewhere.
- `DeploymentInv` is `DeploymentTypeOK`, `OpenIsRegistered` and `HandedOverInOrder`;
  what it needs of the start is `Consistent`, which TLC evaluates on the five starts of the run;
  `RerunsStopEarly` is `StaysOpen` and `NeverResumed`.

### Fairness

Users, liquidators and governance never have to act, so no liveness is claimed of the lending
contracts: they have no obligation to move. Two parts do:

- `LayerZero`: weak fairness of `Deliver \/ DeliverFailing` of each chain (relayers are paid to hand
  over the first message; the code stores it if it cannot be executed) and of retries
  (`retryMessage` is open to anybody, and the recipient wants the tokens). Retries are fair as a whole,
  so that one that always fails does not have to be retried; each one that succeeds removes a message.
  No fairness of governance. Retrying in order only, instead, would block (the mutant).
- `Deployment`: weak fairness of a run that has started; a process that does not die goes on. A crash
  is always possible and `FreshRunCompletes` excuses it.

### Observations

Behaviour of the code that a reader may not expect, found while modelling; the runs with
`expect: violation` and `findings` in `PROJECT.json` have the three that contradict a statement of the
code and that a run shows.

- A vault's debt can be one unit below the dust: the code compares the amount asked for and records
  the truncated amount (`VaultManager.sol:543-547`). `OnlyGovernanceLeavesDust` bounds by how much.
- The comment at `VaultManager.sol:790` takes a denominator for non-zero because the maximum discount
  is below 100%; `setUint64` accepts exactly 100% (line 887).
- `whitelistingActivated` is documented as deciding who may own vaults
  (`VaultManagerStorage.sol:79`, `103`); the code reads it for liquidations only (`VaultManager.sol:699`); the
  rule on owners is in the deprecated version (`OldVaultManagerERC721.sol:164`).
- `LayerZeroBridge._creditTo` assigns a credit (finding `bridge_credit`); withdrawing it later does
  not help the first.
- `Settlement.activateGlobalClaimPeriod` can be called again, for instance once governance has
  moved stablecoins between settlements (line 144); it does not reset `leftOverCollateral`, so that
  when the rate is no longer capped the old leftover, still recoverable, is counted in the new rate.
  Line 187 says that claims revert when the rate is null; the code only tests that it was computed, and a null rate pays nothing for the
  stablecoins.
- The comment at `Settlement.sol:165` is sure that a capped rate leaves collateral. The cap and the
  rate are both truncated, and can be equal while the collateral is worth less than the left over
  debt; then the subtraction at line 168 underflows, and the claim period cannot start (finding
  `settlement_leftover`). `ExactPriceLeavesCollateral` proves that there is no other case: where the
  price divides the value of a unit exactly, the comment is right.
- The scripts: `newStable` cannot be resumed by its tags after `safeCreate2`, nor
  `proxyAdminAngleLabs` after its transfer; a VaultManager is unpaused before its dusts and fees are set;
  `togglePause` and `addVaultManager` are not idempotent, and only the revert of the latter keeps a
  rerun from pausing; `newChain/0_proxyAdmin.ts:13-14` has the name and the owner swapped;
  `flashloan/1_` (line 27) and `newBorrowCollat/3_swapper.ts` (line 10) import a directory that is not
  there; `newStable/6_` leaves the total hourly limit of the side chain at zero, so that nothing
  leaves it before governance raises it.

## 4. What is proved

Every statement is for all users, vaults, amounts, prices, bases and bounds, and for the whole
specification: calls interleaved, nested, reverted. The assumptions are those on the constants:

- `BasesAssumption`, `OwnershipAssumption`, `ConfigAssumption`, `ParamsAssumption`, `PermitAssumption`,
  `TreasuryAssumption`, `MultiBridgeAssumption`, `LayerZeroAssumption`, `SettlementAssumption`: the
  constants have their types, the bases are positive, different contracts are different addresses (the
  address zero, `NoModule`, is nobody's), a VaultManager has finitely many vaults and an owner cannot
  own as many as a `uint256` counts.
- `LimitsAreBounded`: there is a highest limit, since limits are `uint256`.
- `DeploymentAssumption`, `TagsAssumption`: types; the tags that are run are tags of scripts.
- `NamesAssumption`: the names that the scripts build from `constants.ts` (`Treasury_...`,
  `VaultManager_..._...`, `LayerZeroBridge_...`) are different from each other and from the names
  written out in other scripts that would be confused with them. It is how the scripts build them.
- `StartsAssumption`: what the first run finds is `Consistent`: a name is recorded once; what is open is
  registered, what is registered may mint; the proxy was handed over with its implementation. A
  VaultManager opened by other means without being registered would stay so, whatever the scripts do.

TLC evaluates them in the runs. Sums are cardinalities of sets of units (`Counting`), because a
recursive sum needs an induction that the provers cannot do. `CountingProofs` has the lemmas on them
(`TotalOfUpdate` for single updates; `TotalOfSum`, `TotalOfZeroed` and `TotalOfBelow` for whole loops)
and those on products and truncated divisions that all proofs about amounts cite.

### Ownership and permits

`OwnershipInv` (types, balances, free ids) is inductive for `NFTSpec`; the three properties of ownership
follow. `PermitInv` (types and `PermitsAreUsedOnce`) is inductive for `PermitSpec`, and `PermitSpec =>
NFTSpec`, so that what is proved of the first holds with permits.

### VaultManager

`VaultManagerProofs` starts with the arithmetic: a repayment stays within the offer and the debt
(`RepaymentWithinDebt`) and pays for what it takes off (`RepaymentPaysForItself`), the accumulator never
decreases (`AccumulatorNeverDecreases`), a vault whose debt grew no faster than its collateral is solvent
if it was (`SaferVaultsAreSolvent`), a liquidation offer never divides by zero (`OfferIsAlwaysDefined`).
Then, each invariant relative to the ones before:

| Invariant | Says | Gives |
|---|---|---|
| `ConfigInv` | parameters are typed and consistent | `ParamsConsistent` |
| `LedgerInv` | types of each group of variables; the total is the sum of the vaults' debts; the same of `saved` | `TypeOK`, `DebtConservation` |
| `FreshInv` | the cached accumulator is the contract's; the saved one is worth the same now | `CachedAccumulatorIsFresh`, `OnlyTimeAccrues` |
| `CustodyInv`, `PaidInv` | custody, corrected by what `tx` still has to settle, is the sum of the collateral; unowned ids are empty; the same of `saved`; a call that has paid owes no collateral | `CollateralCustody`, `FreeVaultsAreEmpty` |
| `RiskInv` | in a call of `angle`, each vault is safer than in `saved`, or solvent at the cached accumulator | `RiskierVaultsAreSolvent` |
| `AccumulatorInv` | the accumulator, and the saved one, are at least `BASE_INTEREST` | `OnlyGovernanceLeavesDust` |
| `SettledInv` | only liquidations have bad debt to report; a call that has paid owes no stablecoins | `EveryStepIsBacked` |

- `LedgerInv`: its parts need each other. The total stays a natural number because it counts the debt
  that is subtracted, and a rollback keeps the sum only if the saved state has it.
- `FreshInv`: a rollback undoes accruals made in the same block, which must not change what is owed.
- `CustodyInv`: that a debt cannot be attached to an unowned id uses that every increase of debt is
  authorized by an owner.
- `RiskInv` is why testing a vault when it is made riskier, and not at the end of the call, is enough:
  each step of a call makes a vault safer or has tested it, and being safer is transitive and keeps
  solvency (`SaferVaultsAreSolvent`). Callbacks need no special case: what they change is a step as any
  other. That all the tests of a call are at one accumulator is `FreshInv`.
- `EveryStepIsBacked` compares two states, so that its proof is by action: `Net`, what circulates or is
  to be minted less the losses, grows by no more than the debts behind it. It needs, for a loan, that
  fees only shrink what is paid out; for a repayment, `RepaymentPaysForItself`; for an accrual, that the
  surplus and the debts grow by the same interest, truncated once; for a liquidation, that the surcharge
  on several payments is at least the sum of the surcharges (`Pending`); and for a revert, that what it
  brings back is what was saved, at the accumulator of `FreshInv`.
- `OnlyGovernanceLeavesDust` is by action too: each leaves a debt alone, wipes it out, adds to it, or
  leaves what the code tests, at the accumulator of the call, which by `FreshInv` is the contract's. The
  test on first debts loses less than a unit of normalized debt to rounding; the one on repayments is
  as strong because a unit is worth at least one stablecoin unit (`AccumulatorInv`). Between actions a
  debt's worth only grows: with time, since every term of the expansion does
  (`AccumulatorGrowsWithTime`), and with nothing else, by `FreshInv`.
- `CanAlwaysBeLiquidated` follows from `ConfigInv` and `LedgerInv`: the largest offer repays all of the
  debt, or leaves more than the minimum debt through both truncations, or takes all the collateral.
- `LiquidationsStopAtTarget` bounds a partial payment by the repayment to the target, including the
  payments below the threshold of a dusty offer; then the truncations of the collateral released, of its
  value, of the surcharge and of the debt add up to less than one in the health factor.
- `NoBadDebtFromCoveredVaults`: a liquidation that empties a vault and leaves a debt paid less than the
  collateral at the discounted price; so the collateral, at that price, was worth less than the debt
  with its surcharge.

### Treasury

`LedgerInv` is the four properties of the accounting with the same facts about `saved` during a loan:
types, `StablecoinsAddUp`, `BufferIsBacked` and `LossesComeFirst`. They need each other: balances stay
natural numbers because what a treasury pays is part of a buffer that its balance backs; `updateBadDebt`
burns only what no buffer counts, because a bad debt never stands beside a buffer, and a fetch burns
either all of the losses or all of the balance. That pooling keeps the books balanced is `Netting`,
VaultManager by VaultManager, and then sums. `PaidOnlyWithoutLosses` (`ManagerIsPaidWithoutLosses`)
follows by action: only `FetchAndPay` pays, and what it pays is out of a buffer, so that no loss is
left.

`RegistryInv` is the wiring. `RegistryOK`: the map of a treasury is what its list has, and the list
repeats nothing, which the loop of `removeVaultManager` (swap with the last, drop the last) needs to
take an entry off. `RightsOK`: a VaultManager that is registered with a treasury and answers to it can
mint and that treasury is in charge of the token; `RegisteredCanMint` alone is not inductive, as it says
nothing of the treasuries that `setTreasury` may bring back. `ReasonsOK`: whoever can mint was let to by
the core protocol, or is registered, or is the module of a treasury.

### Bridges

For `MultiBridge` alone: `BridgeTypesAreKept`; `SwapsAreAlwaysBacked`, relative to the types (what is
paid out is at most what was taken, fees only add); `ListedAreAlwaysSupported` (the list has no
duplicates, so that one removal takes out all of a token). `RollingVolumesStayBounded` rests on
`UsageIsVolume`: the usage of a clock hour is the volume of its ticks, ticks to come have none, and no
usage exceeds the highest limit. A rolling hour meets two clock hours, so that its volume is at most the
sum of two usages. A token that is removed and added again keeps its usage, in the code as in the model;
the proof uses it.

For `LayerZero`: `LedgerInv` is `BridgeInv` (types, `MessagesOK`, `SwitchesOK`), `LedgerFinite`,
`BridgedIsBacked` and `CreditsComeFromMints`. `MessagesOK` says that nonces are distinct, at most the
chain's count, and that what is in a channel, stored, received and dropped is disjoint: without it a
delivered message could be one that is stored too, and the sum over what is pending would not fall by
its amount. `LedgerFinite` is what the sums need. `BridgedIsBacked` gives `CreditsComeFromMints`: a
credit is only given when nothing is left locked. `BridgeTypesOnBothChains`, `BridgedIsAlwaysBacked` and
`CreditsAlwaysComeFromMints` follow, and `BridgeDelivers`: from `MessagesOK`, each step is a step of
`Delivery` or a stutter.

The promises of the swaps hold under the bridge as well: `BridgedSwapsAreBacked`,
`BridgedVolumesAreBounded` and `BridgedTokensAreSupported`. Run `multibridge` checks these invariants of
`MultiBridge` alone; in `LayerZero` steps of the bridge that are not steps of `MultiBridgeNext` change
the same state (a message executed swaps in on behalf of its recipient and hands back the rest, `send`
burns what it swaps out, `mint` and `burn` change what the stablecoin contract holds). `StepsAreSwapSteps`
says which kinds of steps there are for the swaps (`SwapStep`), and each invariant has one step for each.

### Settlement

`HeldInv` is the types, the order of the two activations, and what `PaidOnce` needs: a vault that is not
marked was not paid for, in the present state and in each state that a revert may restore. `PeriodInv`
says, once each activation has been called, that claims are closed and the collateral held covers what
is left to redeem with the leftover, here and in `saved`; its first step is that the rate and the
leftover, truncated, share out no more than the balance. `RedemptionsStayCovered` is for one call of
each activation, as the run: with more the statement is false (observations).
`ExactPriceLeavesCollateral` is the boundary of the finding `settlement_leftover`.

### Scripts

Any number of runs, of any tags, on any networks, from any consistent start, with any `constants.ts`.
A script is a concatenation of steps, and what is proved of a script is closed under concatenation
(`Good`, `ConcatIsGood`, `LedIsGood`): each step is `Safe`, that is, what it gives is justified by what
it needs and the contracts it deploys are not of another script; and a step that opens a VaultManager,
or gives the proxy away, comes directly after the call that registers it, or upgrades it (`Ordered`).
`ScriptsAreGood` is the 31 scripts, with both sides of every branch.

`Inv` is `DeploymentInv` made inductive. `Consistent` says of all contracts what the property says of the
configured ones. `Armed` is the state between two steps: before a step that unpauses, the VaultManager
is registered and not open. That is what protects from `togglePause`: if it was open it was registered,
and the step before has reverted. `Resumed` is about the scripts that wait: each comes after the one it
depends on, and by then this run has created the stablecoin, or handed the `ProxyAdmin` over, which is
only possible once. `DeploymentsAreSafe`, `NothingIsUndone` and `RerunsAlwaysStopEarly` follow.

### Only model-checked

- `TargetNotOvershot`, in general: it is not true of all constants. `LiquidationsStopAtTarget` proves it
  where it is: for liquidations that raise the health factor and leave a debt of at least
  `collateralFactor` base units of stablecoin. Below that, the stablecoin that the value of the
  collateral is truncated by is worth more than one in the health factor. When repaying lowers the
  health factor there is no target; but the code compares a truncated health factor, so that at the
  boundary a vault can be on the wrong side of it by a fraction, which a repayment of nearly all the
  debt magnifies. The run shows that no such case occurs with the amounts and the dusts of its grid.
- `AlwaysArrives` and `FreshRunCompletes`: liveness.
- `ENABLED` and what a recursive definition computes are out of the provers' reach; no theorem needs
  them.

## 5. Not modelled, and what could come next

- **Two VaultManagers** moving debt between them, each with its accumulator and fees, in place of
  `foreignDebt`; the abstract specification of a call as one atomic transaction, which the stepwise
  one implements.
- **CoreBorrow**: governors and guardians are guards of other functions and are left to the caller;
  the inherited role functions can separate the two roles, and the code promises nothing there.
  `setCore` on core, treasuries and modules changes references.
- **Liquidation boost**: the interpolation over a third-party balance; its result, a factor of the
  discount, takes several values in `liquidation`.
- **TokenPolygonUpgradeable**: its swaps are those of `MultiBridge`, line for line; `deposit` and
  `withdraw` of the Polygon bridge mint and burn like `native`.
- **Scripts**: those of `scripts/` that read, rehearse on a fork of mainnet or send one transaction,
  and the hardhat configuration: no logic of their own.

Left out for good: the oracle adapters (read-only formulas over third-party feeds), Swapper routes
and keeper multicalls (calls to third parties), UI helpers, proxies, naming contracts, vendored
ERC-20 code, deprecated contracts, mocks and tests.
