---------------------------- MODULE VaultManager ----------------------------
(***************************************************************************)
(* One VaultManager contract: vaults that hold collateral and owe          *)
(* stablecoins, the actions grouped in a call of angle(), liquidations,    *)
(* interest, debt moved from and to other VaultManagers, governance.       *)
(*                                                                         *)
(* A call of angle() or liquidate() is not one step: it runs its actions   *)
(* one after the other over storage, hands control to contracts on the way *)
(* (the receiver of a new vault, the target of getDebtIn, the swapper) and *)
(* either commits or rolls everything back.  `tx` is its memory, `saved`   *)
(* the state a rollback returns to.  While control is outside, whatever is *)
(* not nonReentrant can run.                                               *)
(***************************************************************************)
EXTENDS VaultMath, VaultManagerERC721, Counting

CONSTANTS
    Contracts,           \* the users that are contracts: a vault sent to one calls it
    StableAmounts,       \* the amounts of stablecoins in calls
    CollateralAmounts,   \* the amounts of collateral in calls
    Prices,              \* the values oracle.read() can take
    InitialParams,       \* the parameters initialize() is tried with
    ParamChoices,        \* for each setter, the values governance tries
    WhitelistTargets,    \* the targets of toggleWhitelist; NoOne toggles the check itself
    RemoteFees,          \* <<borrowFee, repayFee>> of the other VaultManagers
    ForeignDebt,         \* initial debt in the other VaultManagers, issued as stablecoins
    MaxForeignDebt,      \* bound on the debt in the other VaultManagers
    MaxBadDebt,          \* bound on the bad debt, accrued to the treasury or not
    MaxTime,             \* bound on the clock
    MaxActions,          \* bound on the actions of a call
    MaxCollateral,       \* bound on the collateral in custody
    MaxCirculating       \* bound on the stablecoins users hold

ParamNames == {"CF", "THF", "BF", "RF", "IR", "LS", "MLD", "ceiling", "boost", "dusts"}

ASSUME ConfigAssumption ==
    /\ Contracts \subseteq Users
    /\ StableAmounts \subseteq Nat
    /\ CollateralAmounts \subseteq Nat
    /\ Prices \subseteq Nat \ {0}
    /\ ParamChoices \in [ParamNames -> SUBSET Nat]
    /\ WhitelistTargets \subseteq Addresses
    /\ RemoteFees \subseteq (0..BASE_PARAMS) \X (0..BASE_PARAMS)
    /\ MaxForeignDebt \in Nat
    /\ ForeignDebt \in 0..MaxForeignDebt
    /\ MaxBadDebt \in Nat
    /\ MaxTime \in Nat
    /\ MaxActions \in Nat
    /\ MaxCollateral \in Nat
    /\ MaxCirculating \in Nat

VARIABLES
    vaultData,                       \* vaultID -> [collateralAmount, normalizedDebt]
    totalNormalizedDebt,
    interestAccumulator,
    lastInterestAccumulatorUpdated,
    surplus,
    badDebt,
    params,                          \* the parameters, one field each
    paused,
    isWhitelisted,                   \* the addresses mapped to 1
    treasury,                        \* what accruals left there: [minted, badDebt]
    custody,                         \* the collateral the contract holds
    circulating,                     \* the stablecoins in the hands of users
    foreignDebt,                     \* debt in the other VaultManagers, less their surplus
    now,                             \* block.timestamp
    oracleValue,                     \* what oracle.read() answers
    tx,                              \* the memory of the call in progress
    saved                            \* the state to return to if it reverts

debtVars   == <<vaultData, totalNormalizedDebt>>
accrualVars == <<interestAccumulator, lastInterestAccumulatorUpdated>>
govVars    == <<params, paused, isWhitelisted>>
worldVars  == <<now, oracleValue>>
moneyVars  == <<custody, circulating>>
vars == <<debtVars, accrualVars, surplus, badDebt, govVars, treasury, moneyVars,
          foreignDebt, worldVars, tx, saved, nftVars>>

-----------------------------------------------------------------------------
\* Calls and their rollback

\* The storage and balances that a rollback restores: all a call can change.
Snapshot ==
    [vaultData |-> vaultData, totalNormalizedDebt |-> totalNormalizedDebt,
     interestAccumulator |-> interestAccumulator,
     lastInterestAccumulatorUpdated |-> lastInterestAccumulatorUpdated,
     surplus |-> surplus, badDebt |-> badDebt, treasury |-> treasury,
     custody |-> custody, circulating |-> circulating, foreignDebt |-> foreignDebt,
     vaultIDCount |-> vaultIDCount, owners |-> owners, balances |-> balances,
     vaultApprovals |-> vaultApprovals, operatorApprovals |-> operatorApprovals]

NoSnapshot == "none"

(***************************************************************************)
(* phase: idle, running (the loop of angle), callback (in the middle of    *)
(* it), liquidating (the loop of liquidate), swap (the swapper has the     *)
(* control) or paying (what is left is to collect).  acc is                *)
(* newInterestAccumulator, 0 until it is computed; the amounts are those   *)
(* of PaymentData or LiquidatorData.                                       *)
(***************************************************************************)
NoTx == [phase |-> "idle", call |-> "none", sender |-> NoOne, acc |-> 0, actions |-> 0,
         stableToGive |-> 0, stableToReceive |-> 0,
         collateralToGive |-> 0, collateralToReceive |-> 0, badDebt |-> 0]

Idle == tx.phase = "idle"

\* Control is outside the contract: between calls or in a callback.
Outside == tx.phase \in {"idle", "callback", "swap"}

\* One more action of the call, with the fields of tx it changes.
Proceed(changes) ==
    /\ tx.phase = "running"
    /\ tx.actions < MaxActions
    /\ tx' = [f \in DOMAIN tx |->
                 IF f = "actions" THEN tx.actions + 1
                 ELSE IF f \in DOMAIN changes THEN changes[f] ELSE tx[f]]
    /\ UNCHANGED saved

Begin(call, sender, acc) ==
    /\ Idle
    /\ ~paused
    /\ tx' = [NoTx EXCEPT !.phase = IF call = "angle" THEN "running" ELSE "liquidating",
                          !.call = call, !.sender = sender, !.acc = acc]
    /\ saved' = Snapshot

\* Any failure of a call undoes all of it.
Revert ==
    /\ ~Idle
    /\ vaultData' = saved.vaultData
    /\ totalNormalizedDebt' = saved.totalNormalizedDebt
    /\ interestAccumulator' = saved.interestAccumulator
    /\ lastInterestAccumulatorUpdated' = saved.lastInterestAccumulatorUpdated
    /\ surplus' = saved.surplus
    /\ badDebt' = saved.badDebt
    /\ treasury' = saved.treasury
    /\ custody' = saved.custody
    /\ circulating' = saved.circulating
    /\ foreignDebt' = saved.foreignDebt
    /\ vaultIDCount' = saved.vaultIDCount
    /\ owners' = saved.owners
    /\ balances' = saved.balances
    /\ vaultApprovals' = saved.vaultApprovals
    /\ operatorApprovals' = saved.operatorApprovals
    /\ tx' = NoTx
    /\ saved' = NoSnapshot
    /\ UNCHANGED <<govVars, worldVars>>

-----------------------------------------------------------------------------
\* Interest

NewAccumulator ==
    CurrentAccumulator(interestAccumulator, params.interestRate,
                       now - lastInterestAccumulatorUpdated)

\* Mutant: the interest is rounded up.
InterestAccruedUp ==
    (totalNormalizedDebt * (NewAccumulator - interestAccumulator) + BASE_INTEREST - 1)
       \div BASE_INTEREST

InterestAccrued ==
    (totalNormalizedDebt * (NewAccumulator - interestAccumulator)) \div BASE_INTEREST

\* Mutant: the accrual does not record when it happened.
AccrueUntimed(income) ==
    /\ surplus' = surplus + InterestAccrued + income
    /\ interestAccumulator' = NewAccumulator
    /\ UNCHANGED lastInterestAccumulatorUpdated

\* _accrue, followed by another `income` in surplus.
AccrueAndEarn(income) ==
    /\ surplus' = surplus + InterestAccrued + income
    /\ interestAccumulator' = NewAccumulator
    /\ lastInterestAccumulatorUpdated' = now

\* The accumulator of a call of angle: computed by the first action that needs it.
Acc == IF tx.acc = 0 THEN NewAccumulator ELSE tx.acc

AccrueOnce(income) ==
    IF tx.acc = 0 THEN AccrueAndEarn(income)
    ELSE surplus' = surplus + income /\ UNCHANGED accrualVars

-----------------------------------------------------------------------------
\* The actions of angle()

Debt(v) == vaultData[v].normalizedDebt

IsSolvent(vault, acc) == Solvent(vault, oracleValue, acc, params)

BeginAngle(sender) ==
    /\ Begin("angle", sender, 0)
    /\ UNCHANGED <<debtVars, accrualVars, surplus, badDebt, govVars, treasury, moneyVars,
                   foreignDebt, worldVars, nftVars>>

\* createVault: minting to a contract hands it the control.
CreateVaultInCall(to) ==
    /\ Proceed([phase |-> IF to \in Contracts THEN "callback" ELSE "running"])
    /\ Mint(to)
    /\ UNCHANGED <<debtVars, accrualVars, surplus, badDebt, govVars, treasury, moneyVars,
                   foreignDebt, worldVars>>

\* The contract called back returns to the loop of angle().
CallbackReturns ==
    /\ tx.phase = "callback"
    /\ tx' = [tx EXCEPT !.phase = "running"]
    /\ UNCHANGED <<debtVars, accrualVars, surplus, badDebt, govVars, treasury, moneyVars,
                   foreignDebt, worldVars, nftVars, saved>>

\* vaultID 0 stands for the last vault created, whoever created it.
VaultOf(id) == IF id = 0 THEN vaultIDCount ELSE id
CallIDs == 0..MaxVaults

\* addCollateral: anybody can add to any vault.
AddCollateral(v, amount) ==
    /\ Exists(v)
    /\ Proceed([collateralToReceive |-> tx.collateralToReceive + amount])
    /\ vaultData' = [vaultData EXCEPT ![v].collateralAmount = @ + amount]
    /\ UNCHANGED <<totalNormalizedDebt, accrualVars, surplus, badDebt, govVars, treasury,
                   moneyVars, foreignDebt, worldVars, nftVars>>

RemoveCollateral(v, amount) ==
    LET left == [vaultData[v] EXCEPT !.collateralAmount = @ - amount]
    IN /\ IsApprovedOrOwner(tx.sender, v)
       /\ amount <= vaultData[v].collateralAmount
       /\ IsSolvent(left, Acc)
       /\ Proceed([acc |-> Acc, collateralToGive |-> tx.collateralToGive + amount])
       /\ vaultData' = [vaultData EXCEPT ![v] = left]
       /\ AccrueOnce(0)
       /\ UNCHANGED <<totalNormalizedDebt, badDebt, govVars, treasury, moneyVars,
                      foreignDebt, worldVars, nftVars>>

\* Mutant: the health of the vault is read before its debt grows.
CanIncreaseDebtStale(v, amount) ==
    /\ IsApprovedOrOwner(tx.sender, v)
    /\ Debt(v) = 0 => amount > params.dust
    /\ (totalNormalizedDebt + Normalized(amount, Acc)) * Acc
          <= params.debtCeiling * BASE_INTEREST
    /\ IsSolvent(vaultData[v], Acc)

(***************************************************************************)
(* _increaseDebt's conditions on a debt increase of `amount`; the change   *)
(* of the normalized debt is rounded down and only its value is issued.    *)
(***************************************************************************)
CanIncreaseDebt(v, amount) ==
    LET change == Normalized(amount, Acc)
    IN /\ IsApprovedOrOwner(tx.sender, v)
       /\ Debt(v) = 0 => amount > params.dust
       /\ (totalNormalizedDebt + change) * Acc <= params.debtCeiling * BASE_INTEREST
       /\ IsSolvent([vaultData[v] EXCEPT !.normalizedDebt = @ + change], Acc)

Issued(amount) == DebtValue(Normalized(amount, Acc), Acc)

Borrow(v, amount) ==
    LET fee == (params.borrowFee * Issued(amount)) \div BASE_PARAMS
    IN /\ CanIncreaseDebt(v, amount)
       /\ Proceed([acc |-> Acc, stableToGive |-> tx.stableToGive + Issued(amount) - fee])
       /\ vaultData' = [vaultData EXCEPT ![v].normalizedDebt = @ + Normalized(amount, Acc)]
       /\ totalNormalizedDebt' = totalNormalizedDebt + Normalized(amount, Acc)
       /\ AccrueOnce(fee)
       /\ UNCHANGED <<badDebt, govVars, treasury, moneyVars, foreignDebt, worldVars, nftVars>>

RepayDebt(v, amount) ==
    LET repaid == Repayment(Debt(v), amount, Acc)
        withFee == PlusRepayFee(repaid.stable, params)
    IN /\ params.repayFee < BASE_PARAMS
       /\ LeavesNoDust(Debt(v) - repaid.change, Acc, params)
       /\ Proceed([acc |-> Acc, stableToReceive |-> tx.stableToReceive + withFee])
       /\ vaultData' = [vaultData EXCEPT ![v].normalizedDebt = @ - repaid.change]
       /\ totalNormalizedDebt' = totalNormalizedDebt - repaid.change
       /\ AccrueOnce(withFee - repaid.stable)
       /\ UNCHANGED <<badDebt, govVars, treasury, moneyVars, foreignDebt, worldVars, nftVars>>

\* closeVault: the debt is owed, the collateral is given back, the vault burnt.
CloseVault(v) ==
    LET debt == DebtValue(Debt(v), Acc)
        withFee == PlusRepayFee(debt, params)
    IN /\ IsApprovedOrOwner(tx.sender, v)
       /\ IsSolvent(vaultData[v], Acc)
       /\ params.repayFee < BASE_PARAMS
       /\ Proceed([acc |-> Acc,
                   stableToReceive |-> tx.stableToReceive + withFee,
                   collateralToGive |-> tx.collateralToGive + vaultData[v].collateralAmount])
       /\ totalNormalizedDebt' = totalNormalizedDebt - Debt(v)
       /\ Burn(v)
       /\ vaultData' = [vaultData EXCEPT ![v] = NoVault]
       /\ AccrueOnce(withFee - debt)
       /\ UNCHANGED <<badDebt, govVars, treasury, moneyVars, foreignDebt, worldVars>>

\* Mutant: the destination's debt is read before the source's grows.
GetDebtInLocalStale(src, dst, amount) ==
    LET indebted == [vaultData EXCEPT ![src].normalizedDebt = @ + Normalized(amount, Acc)]
        repaid   == Repayment(Debt(dst), Issued(amount), Acc)
    IN /\ CanIncreaseDebt(src, amount)
       /\ LeavesNoDust(Debt(dst) - repaid.change, Acc, params)
       /\ Proceed([acc |-> Acc])
       /\ vaultData' = [indebted EXCEPT ![dst].normalizedDebt = Debt(dst) - repaid.change]
       /\ totalNormalizedDebt' = totalNormalizedDebt + Normalized(amount, Acc) - repaid.change
       /\ AccrueOnce(0)
       /\ UNCHANGED <<badDebt, govVars, treasury, moneyVars, foreignDebt, worldVars, nftVars>>

\* getDebtIn from a vault of this contract: no fee; the destination need not exist.
GetDebtInLocal(src, dst, amount) ==
    LET indebted == [vaultData EXCEPT ![src].normalizedDebt = @ + Normalized(amount, Acc)]
        repaid   == Repayment(indebted[dst].normalizedDebt, Issued(amount), Acc)
    IN /\ CanIncreaseDebt(src, amount)
       /\ LeavesNoDust(indebted[dst].normalizedDebt - repaid.change, Acc, params)
       /\ Proceed([acc |-> Acc])
       /\ vaultData' = [indebted EXCEPT ![dst].normalizedDebt = @ - repaid.change]
       /\ totalNormalizedDebt' = totalNormalizedDebt + Normalized(amount, Acc) - repaid.change
       /\ AccrueOnce(0)
       /\ UNCHANGED <<badDebt, govVars, treasury, moneyVars, foreignDebt, worldVars, nftVars>>

(***************************************************************************)
(* getDebtIn from another VaultManager, which repays at most what is       *)
(* issued here.  The target's address is not checked: the call may go to   *)
(* any contract, that repays nothing and gets the control.                 *)
(***************************************************************************)
GetDebtInRemote(src, amount, fake) ==
    /\ CanIncreaseDebt(src, amount)
    /\ ~fake => Issued(amount) <= foreignDebt
    /\ Proceed([acc |-> Acc, phase |-> IF fake THEN "callback" ELSE "running"])
    /\ vaultData' = [vaultData EXCEPT ![src].normalizedDebt = @ + Normalized(amount, Acc)]
    /\ totalNormalizedDebt' = totalNormalizedDebt + Normalized(amount, Acc)
    /\ foreignDebt' = foreignDebt - (IF fake THEN 0 ELSE Issued(amount))
    /\ AccrueOnce(0)
    /\ UNCHANGED <<badDebt, govVars, treasury, moneyVars, worldVars, nftVars>>

-----------------------------------------------------------------------------
\* liquidate()

(***************************************************************************)
(* The whitelist is checked on the caller and on the receiver of the       *)
(* collateral, and the interest is accrued before any vault is looked at.  *)
(***************************************************************************)
BeginLiquidation(sender, to) ==
    /\ Begin("liquidate", sender, NewAccumulator)
    /\ params.whitelistingActivated => sender \in isWhitelisted \/ to \in isWhitelisted
    /\ AccrueAndEarn(0)
    /\ UNCHANGED <<debtVars, badDebt, govVars, treasury, moneyVars, foreignDebt, worldVars,
                   nftVars>>

\* Mutant: a difference that the code guards, unguarded.
Difference(a, b) == a - b

Excess(a, b) == IF a > b THEN a - b ELSE 0

\* Mutant: the surcharge is forgotten.
ReimbursedInFull(paid) == paid

\* Mutant: liquidationSurcharge, which is 1 - fee, is taken for the fee.
ReimbursedLessSurcharge(paid) ==
    (paid * (BASE_PARAMS - params.liquidationSurcharge)) \div BASE_PARAMS

\* What a payment takes off the debt: the surcharge goes to the protocol.
Reimbursed(paid) == (paid * params.liquidationSurcharge) \div BASE_PARAMS

\* Everything the liquidator gets: the vault is emptied, what is not repaid is bad debt.
SeizeVault(v, paid) ==
    LET debt == DebtValue(Debt(v), tx.acc)
    IN /\ totalNormalizedDebt' = totalNormalizedDebt - Debt(v)
       /\ vaultData' = [vaultData EXCEPT ![v] = NoVault]
       /\ tx' = [tx EXCEPT !.actions = @ + 1,
                           !.collateralToGive = @ + vaultData[v].collateralAmount,
                           !.stableToReceive = @ + paid,
                           !.badDebt = @ + Excess(debt, Reimbursed(paid))]

\* Part of the collateral sold: the debt goes down by the payment less the surcharge.
SellCollateral(v, paid, released) ==
    LET repaid == Repayment(Debt(v), Reimbursed(paid), tx.acc)
    IN /\ LeavesNoDust(Debt(v) - repaid.change, tx.acc, params)
       /\ totalNormalizedDebt' = totalNormalizedDebt - repaid.change
       /\ vaultData' = [vaultData EXCEPT ![v].collateralAmount = @ - released,
                                         ![v].normalizedDebt = @ - repaid.change]
       /\ tx' = [tx EXCEPT !.actions = @ + 1,
                           !.collateralToGive = @ + released,
                           !.stableToReceive = @ + paid]

\* One iteration of liquidate()'s loop.
LiquidateVault(v, amount) ==
    LET offer == LiquidationOffer(vaultData[v], oracleValue, tx.acc, params)
        paid  == LiquidationPayment(amount, offer)
        released == CollateralReleased(paid, vaultData[v], oracleValue, tx.acc, params)
    IN /\ tx.phase = "liquidating"
       /\ tx.actions < MaxActions
       /\ Liquidable(vaultData[v], oracleValue, tx.acc, params)
       /\ OfferDefined(vaultData[v], oracleValue, tx.acc, params)
       /\ IF vaultData[v].collateralAmount <= released
          THEN SeizeVault(v, paid)
          ELSE SellCollateral(v, paid, released)
       /\ UNCHANGED <<accrualVars, surplus, badDebt, govVars, treasury, moneyVars,
                      foreignDebt, worldVars, nftVars, saved>>

-----------------------------------------------------------------------------
\* Settlement of a call

StableOut == Excess(tx.stableToGive, tx.stableToReceive)
StableIn == Excess(tx.stableToReceive, tx.stableToGive)
CollateralOut == Excess(tx.collateralToGive, tx.collateralToReceive)
\* Mutant: the collateral to receive is not netted with the one to give.
CollateralInGross == tx.collateralToReceive

CollateralIn == Excess(tx.collateralToReceive, tx.collateralToGive)

\* Where angle() and _handleRepay call a swapper: cases (1) and (4) of the settlement.
CanSwap == \/ StableIn > 0 /\ CollateralIn = 0
           \/ StableOut > 0 /\ CollateralIn > 0

(***************************************************************************)
(* What the contract owes goes out first, what it is owed is collected     *)
(* last: between the two a swapper may have the control.                   *)
(***************************************************************************)
PayOut(swap) ==
    /\ swap => CanSwap
    /\ CollateralOut <= custody
    /\ circulating + StableOut <= MaxCirculating
    /\ custody' = custody - CollateralOut
    /\ circulating' = circulating + StableOut
    /\ tx' = [tx EXCEPT !.phase = IF swap THEN "swap" ELSE "paying",
                        !.stableToGive = 0, !.stableToReceive = StableIn,
                        !.collateralToGive = 0, !.collateralToReceive = CollateralIn,
                        !.badDebt = 0]

EndAngle(swap) ==
    /\ tx.phase = "running"
    /\ tx.actions > 0
    /\ PayOut(swap)
    /\ UNCHANGED <<debtVars, accrualVars, surplus, badDebt, govVars, treasury, foreignDebt,
                   worldVars, nftVars, saved>>

\* The surcharge of the whole liquidation goes to surplus, its bad debt to badDebt.
EndLiquidation(swap) ==
    /\ tx.phase = "liquidating"
    /\ tx.actions > 0
    /\ badDebt + tx.badDebt + treasury.badDebt <= MaxBadDebt
    /\ surplus' = surplus + (tx.stableToReceive
                                * (BASE_PARAMS - params.liquidationSurcharge)) \div BASE_PARAMS
    /\ badDebt' = badDebt + tx.badDebt
    /\ PayOut(swap)
    /\ UNCHANGED <<debtVars, accrualVars, govVars, treasury, foreignDebt, worldVars,
                   nftVars, saved>>

\* burnFrom and safeTransferFrom, after which the call commits.
Collect ==
    /\ tx.phase \in {"swap", "paying"}
    /\ tx.stableToReceive <= circulating
    /\ custody + tx.collateralToReceive <= MaxCollateral
    /\ circulating' = circulating - tx.stableToReceive
    /\ custody' = custody + tx.collateralToReceive
    /\ tx' = NoTx
    /\ saved' = NoSnapshot
    /\ UNCHANGED <<debtVars, accrualVars, surplus, badDebt, govVars, treasury, foreignDebt,
                   worldVars, nftVars>>

-----------------------------------------------------------------------------
\* What is not nonReentrant: it can run between calls and inside callbacks

\* createVault(). A contract that receives the vault gets the control: what it does then
\* are further steps, a refusal of the vault is no step at all.
CreateVault(to) ==
    /\ Outside
    /\ ~paused
    /\ Mint(to)
    /\ UNCHANGED <<debtVars, accrualVars, surplus, badDebt, govVars, treasury, moneyVars,
                   foreignDebt, worldVars, tx, saved>>

MoveOwnership ==
    /\ Outside
    /\ TransferOrApprove
    /\ UNCHANGED <<debtVars, accrualVars, surplus, badDebt, govVars, treasury, moneyVars,
                   foreignDebt, worldVars, tx, saved>>

\* What is repaid of a debt moved from another VaultManager once the fees that the move
\* saves, of repaying there and of borrowing here, are taken.
LessFees(amount, fees) ==
    LET repayDelta  == Excess(params.repayFee, fees[2])
        borrowDelta == Excess(fees[1], params.borrowFee)
    IN (amount * (BASE_PARAMS - repayDelta) * (BASE_PARAMS - borrowDelta))
          \div (BASE_PARAMS * BASE_PARAMS)

(***************************************************************************)
(* getDebtOut, called by another VaultManager that has increased the debt  *)
(* of one of its vaults by amount: the fees saved by moving the debt go to *)
(* surplus, the rest repays, what exceeds the debt is lost.                *)
(***************************************************************************)
GetDebtOut(v, amount, fees) ==
    LET lessFee == LessFees(amount, fees)
        repaid  == Repayment(Debt(v), lessFee, NewAccumulator)
    IN /\ Outside
       /\ ~paused
       /\ foreignDebt + amount <= MaxForeignDebt
       /\ LeavesNoDust(Debt(v) - repaid.change, NewAccumulator, params)
       /\ foreignDebt' = foreignDebt + amount
       /\ vaultData' = [vaultData EXCEPT ![v].normalizedDebt = @ - repaid.change]
       /\ totalNormalizedDebt' = totalNormalizedDebt - repaid.change
       /\ AccrueAndEarn(amount - lessFee)
       /\ UNCHANGED <<badDebt, govVars, treasury, moneyVars, worldVars, tx, saved, nftVars>>

\* accrueInterestToTreasury, which anybody triggers through the treasury.
AccrueInterestToTreasury ==
    LET earned == surplus + InterestAccrued
    IN /\ Outside
       /\ interestAccumulator' = NewAccumulator
       /\ lastInterestAccumulatorUpdated' = now
       /\ surplus' = 0
       /\ badDebt' = 0
       /\ treasury' = [minted |-> treasury.minted + Excess(earned, badDebt),
                       badDebt |-> treasury.badDebt + Excess(badDebt, earned)]
       /\ UNCHANGED <<debtVars, govVars, moneyVars, foreignDebt, worldVars, tx, saved, nftVars>>

-----------------------------------------------------------------------------
\* Governance, between calls

\* Mutant: the surcharge is not compared with the repay fee.
ParamAcceptedWithoutFee(what, value) ==
    CASE what \in {"CF", "RF"} -> value + (IF what = "RF" THEN params.liquidationSurcharge
                                           ELSE BASE_PARAMS - params.liquidationSurcharge)
                                     <= BASE_PARAMS
      [] what \in {"BF", "MLD"} -> value <= BASE_PARAMS
      [] what = "THF" -> value >= BASE_PARAMS
      [] what = "LS"  -> params.collateralFactor <= value /\ value <= BASE_PARAMS
      [] what = "IR"  -> TRUE

\* setUint64's checks
ParamAccepted(what, value) ==
    CASE what = "CF"  -> value <= params.liquidationSurcharge
      [] what = "THF" -> value >= BASE_PARAMS
      [] what = "BF"  -> value <= BASE_PARAMS
      [] what = "RF"  -> value + params.liquidationSurcharge <= BASE_PARAMS
      [] what = "IR"  -> TRUE
      [] what = "LS"  -> /\ params.collateralFactor <= value
                         /\ value + params.repayFee <= BASE_PARAMS
      [] what = "MLD" -> value <= BASE_PARAMS

Field(what) ==
    CASE what = "CF"  -> "collateralFactor"
      [] what = "THF" -> "targetHealthFactor"
      [] what = "BF"  -> "borrowFee"
      [] what = "RF"  -> "repayFee"
      [] what = "IR"  -> "interestRate"
      [] what = "LS"  -> "liquidationSurcharge"
      [] what = "MLD" -> "maxLiquidationDiscount"

SetUint64(what, value) ==
    /\ Idle
    /\ ParamAccepted(what, value)
    /\ params' = [params EXCEPT ![Field(what)] = value]
    /\ IF what = "IR" THEN AccrueAndEarn(0) ELSE UNCHANGED <<accrualVars, surplus>>
    /\ UNCHANGED <<debtVars, badDebt, paused, isWhitelisted, treasury, moneyVars,
                   foreignDebt, worldVars, tx, saved, nftVars>>

SetDebtCeiling(value) == params' = [params EXCEPT !.debtCeiling = value]

SetLiquidationBoostParameters(value) ==
    /\ value # 0
    /\ params' = [params EXCEPT !.boost = value]

SetDusts(dust, dustLiquidation, dustCollateral) ==
    /\ dust <= dustLiquidation
    /\ params' = [params EXCEPT !.dust = dust, !.dustLiquidation = dustLiquidation,
                                !.dustCollateral = dustCollateral]

ToggleWhitelist(target) ==
    IF target = NoOne
    THEN /\ params' = [params EXCEPT !.whitelistingActivated = ~@]
         /\ UNCHANGED isWhitelisted
    ELSE /\ isWhitelisted' = IF target \in isWhitelisted THEN isWhitelisted \ {target}
                             ELSE isWhitelisted \cup {target}
         /\ UNCHANGED params

TogglePause == paused' = ~paused

\* The setters that only touch the parameters.
Administer ==
    /\ Idle
    /\ \/ /\ \/ \E value \in ParamChoices["ceiling"] : SetDebtCeiling(value)
             \/ \E value \in ParamChoices["boost"] : SetLiquidationBoostParameters(value)
             \/ \E dust, dustLiquidation, dustCollateral \in ParamChoices["dusts"] :
                   SetDusts(dust, dustLiquidation, dustCollateral)
          /\ UNCHANGED <<paused, isWhitelisted>>
       \/ /\ \E target \in WhitelistTargets : ToggleWhitelist(target)
          /\ UNCHANGED paused
       \/ /\ TogglePause
          /\ UNCHANGED <<params, isWhitelisted>>
    /\ UNCHANGED <<debtVars, accrualVars, surplus, badDebt, treasury, moneyVars,
                   foreignDebt, worldVars, tx, saved, nftVars>>

-----------------------------------------------------------------------------
\* Time and the market, between calls

Tick ==
    /\ Idle
    /\ now < MaxTime
    /\ now' = now + 1
    /\ UNCHANGED <<debtVars, accrualVars, surplus, badDebt, govVars, treasury, moneyVars,
                   foreignDebt, oracleValue, tx, saved, nftVars>>

PriceMoves(price) ==
    /\ Idle
    /\ oracleValue' = price
    /\ UNCHANGED <<debtVars, accrualVars, surplus, badDebt, govVars, treasury, moneyVars,
                   foreignDebt, now, tx, saved, nftVars>>

-----------------------------------------------------------------------------

\* The checks of _initialize.
AcceptedByInitialize(p) ==
    /\ p.collateralFactor <= p.liquidationSurcharge
    /\ p.liquidationSurcharge <= BASE_PARAMS
    /\ BASE_PARAMS <= p.targetHealthFactor
    /\ p.maxLiquidationDiscount < BASE_PARAMS
    /\ p.boost # 0

\* initialize() leaves the fees and the dusts at zero, whatever p says of them.
Initialized(p) ==
    [p EXCEPT !.borrowFee = 0, !.repayFee = 0,
              !.dust = 0, !.dustLiquidation = 0, !.dustCollateral = 0]

\* A contract that nobody has used yet, with the parameters p.
Unused(p) ==
    /\ NFTInit
    /\ vaultData = [v \in VaultIDs |-> NoVault]
    /\ totalNormalizedDebt = 0
    /\ interestAccumulator = BASE_INTEREST
    /\ lastInterestAccumulatorUpdated = 0
    /\ surplus = 0
    /\ badDebt = 0
    /\ params = p
    /\ paused = TRUE
    /\ isWhitelisted = {}
    /\ treasury = [minted |-> 0, badDebt |-> 0]
    /\ custody = 0
    /\ circulating = ForeignDebt
    /\ foreignDebt = ForeignDebt
    /\ now = 0
    /\ oracleValue \in Prices
    /\ tx = NoTx
    /\ saved = NoSnapshot

Init == \E p \in InitialParams : AcceptedByInitialize(p) /\ Unused(Initialized(p))

AngleStep ==
    \/ \E to \in Users : CreateVaultInCall(to)
    \/ \E id \in CallIDs, amount \in CollateralAmounts :
          \/ AddCollateral(VaultOf(id), amount)
          \/ RemoveCollateral(VaultOf(id), amount)
    \/ \E id \in CallIDs, amount \in StableAmounts :
          VaultOf(id) \in VaultIDs /\ RepayDebt(VaultOf(id), amount)
    \/ \E id \in CallIDs, amount \in StableAmounts : Borrow(VaultOf(id), amount)
    \/ \E id \in CallIDs : CloseVault(VaultOf(id))
    \/ \E id \in CallIDs, dst \in VaultIDs, amount \in StableAmounts :
          GetDebtInLocal(VaultOf(id), dst, amount)
    \/ \E id \in CallIDs, amount \in StableAmounts, fake \in BOOLEAN :
          GetDebtInRemote(VaultOf(id), amount, fake)

Next ==
    \/ \E sender \in Users : BeginAngle(sender)
    \/ AngleStep
    \/ CallbackReturns
    \/ \E swap \in BOOLEAN : EndAngle(swap)
    \/ \E sender, to \in Users : BeginLiquidation(sender, to)
    \/ \E v \in VaultIDs, amount \in StableAmounts : LiquidateVault(v, amount)
    \/ \E swap \in BOOLEAN : EndLiquidation(swap)
    \/ Collect
    \/ Revert
    \/ \E to \in Users : CreateVault(to)
    \/ MoveOwnership
    \/ \E v \in VaultIDs, amount \in StableAmounts, fees \in RemoteFees :
          GetDebtOut(v, amount, fees)
    \/ AccrueInterestToTreasury
    \/ \E what \in ParamNames : \E value \in ParamChoices[what] :
          what \notin {"ceiling", "boost", "dusts"} /\ SetUint64(what, value)
    \/ Administer
    \/ Tick
    \/ \E price \in Prices : PriceMoves(price)

Spec == Init /\ [][Next]_vars

-----------------------------------------------------------------------------
\* Types

ParamsType ==
    [debtCeiling : Nat, collateralFactor : Nat, targetHealthFactor : Nat, borrowFee : Nat,
     repayFee : Nat, interestRate : Nat, liquidationSurcharge : Nat,
     maxLiquidationDiscount : Nat, boost : Nat, dust : Nat, dustLiquidation : Nat,
     dustCollateral : Nat, whitelistingActivated : BOOLEAN]

ASSUME ParamsAssumption == InitialParams \subseteq ParamsType

TreasuryType == [minted : Nat, badDebt : Nat]

SnapshotType ==
    [vaultData : [VaultIDs -> VaultType], totalNormalizedDebt : Nat,
     interestAccumulator : Nat, lastInterestAccumulatorUpdated : Nat,
     surplus : Nat, badDebt : Nat, treasury : TreasuryType,
     custody : Nat, circulating : Nat, foreignDebt : Nat,
     vaultIDCount : 0..MaxVaults, owners : [VaultIDs -> Addresses],
     balances : [Users -> 0..MaxBalance], vaultApprovals : [VaultIDs -> Addresses],
     operatorApprovals : SUBSET (Users \X Users)]

TxType ==
    [phase : {"idle", "running", "callback", "liquidating", "swap", "paying"},
     call : {"none", "angle", "liquidate"}, sender : Addresses, acc : Nat, actions : Nat,
     stableToGive : Nat, stableToReceive : Nat,
     collateralToGive : Nat, collateralToReceive : Nat, badDebt : Nat]

TypeOK ==
    /\ NFTTypeOK
    /\ vaultData \in [VaultIDs -> VaultType]
    /\ totalNormalizedDebt \in Nat
    /\ interestAccumulator \in Nat
    /\ lastInterestAccumulatorUpdated \in Nat
    /\ surplus \in Nat
    /\ badDebt \in Nat
    /\ params \in ParamsType
    /\ paused \in BOOLEAN
    /\ isWhitelisted \subseteq Addresses
    /\ treasury \in TreasuryType
    /\ custody \in Nat
    /\ circulating \in Nat
    /\ foreignDebt \in Nat
    /\ now \in Nat
    /\ oracleValue \in Prices
    /\ tx \in TxType
    /\ Idle => saved = NoSnapshot
    /\ ~Idle => saved \in SnapshotType

-----------------------------------------------------------------------------
\* Accounting

DebtOf(data) == [v \in DOMAIN data |-> data[v].normalizedDebt]
CollateralOf(data) == [v \in DOMAIN data |-> data[v].collateralAmount]

(***************************************************************************)
(* totalNormalizedDebt is the sum of the vaults' normalized debts at every *)
(* step of every call: the interest accrued on the total, the debt ceiling *)
(* and getTotalDebt() are about the debt that borrowers owe.               *)
(***************************************************************************)
DebtConservation == totalNormalizedDebt = TotalOf(DebtOf(vaultData))

(***************************************************************************)
(* The contract holds the collateral of its vaults, to what the call in    *)
(* progress still has to pay or collect: a call nets what its actions give *)
(* and receive, settles it in two parts around a swap, and can be entered  *)
(* again meanwhile.                                                        *)
(***************************************************************************)
CollateralCustody ==
    custody + tx.collateralToReceive - tx.collateralToGive
        = TotalOf(CollateralOf(vaultData))

(***************************************************************************)
(* A vaultID that nobody owns holds no collateral and owes nothing: what   *)
(* burnt and future vaults hold could not be claimed by anybody.           *)
(* addCollateral is open to all, getDebtIn repays vaults it does not look  *)
(* up, and liquidate empties a vault without burning it.                   *)
(***************************************************************************)
FreeVaultsAreEmpty ==
    \A v \in VaultIDs : owners[v] = NoOne => vaultData[v] = NoVault

(***************************************************************************)
(* What stablecoins, surplus and amounts to mint exceed the debts (of this *)
(* contract, its bad debt included, and of the others) that back them, in  *)
(* units of 1 / BASE_INTEREST of a stablecoin.                             *)
(***************************************************************************)
Unbacked ==
    BASE_INTEREST * (circulating + treasury.minted + surplus
                       + tx.stableToGive - tx.stableToReceive)
      + (IF tx.phase = "liquidating"
         THEN BASE_INTEREST * ((tx.stableToReceive
                 * (BASE_PARAMS - params.liquidationSurcharge)) \div BASE_PARAMS)
         ELSE 0)
      - totalNormalizedDebt * interestAccumulator
      - BASE_INTEREST * (badDebt + tx.badDebt + treasury.badDebt + foreignDebt)

(***************************************************************************)
(* Every truncation is against the user: no step, in any order of actions, *)
(* fees, accruals, liquidations and debt transfers, issues more than the   *)
(* debt it records, or forgets more debt than it is paid, except for the   *)
(* fraction of a stablecoin truncated from the debt of a vault whose debt  *)
(* is wiped out (repaid in full, closed or seized).                        *)
(***************************************************************************)
EveryStepIsBacked ==
    [][\/ ~Idle /\ Snapshot' = saved
       \/ Unbacked' - Unbacked <=
             (BASE_INTEREST - 1)
                * Cardinality({v \in VaultIDs : Debt(v) > 0 /\ Debt(v)' = 0})]_vars

-----------------------------------------------------------------------------
\* Interest

(***************************************************************************)
(* Time alone makes debts grow: no operation, accrual or change of the     *)
(* rate changes what the accumulator is worth in the same block, so that   *)
(* interest is never charged twice, skipped, or charged at a later rate.   *)
(***************************************************************************)
OnlyTimeAccrues == [][now' = now => NewAccumulator' = NewAccumulator]_vars

(***************************************************************************)
(* The accumulator that a call of angle() or liquidate() has computed once *)
(* and carries through its actions is still the contract's, whatever the   *)
(* contracts called back accrued meanwhile.                                *)
(***************************************************************************)
CachedAccumulatorIsFresh ==
    tx.acc # 0 => /\ tx.acc = interestAccumulator
                  /\ lastInterestAccumulatorUpdated = now

\* A vault in debt, that owes less than what exceeds the dust by the unit of normalized debt
\* that rounding takes off when it is opened.
Dusty(v) ==
    Debt(v) > 0 /\ (Debt(v) + 1) * NewAccumulator <= (params.dust + 1) * BASE_INTEREST

(***************************************************************************)
(* No vault becomes dusty (too small a debt for a liquidator to care about)*)
(* unless governance raises the dust: the first debt of a vault is tested  *)
(* on the stablecoins asked for and recorded rounded down, a repayment on  *)
(* the debt that it leaves at the accumulator of its call, and between the *)
(* two the interest, other calls or a move from the vault to itself come.  *)
(* A rollback only returns to what was there (VaultManager.sol:547, 586).  *)
(***************************************************************************)
OnlyGovernanceLeavesDust ==
    [][\/ ~Idle /\ Snapshot' = saved
       \/ params'.dust > params.dust
       \/ \A v \in VaultIDs : Dusty(v)' => Dusty(v)]_vars

-----------------------------------------------------------------------------
\* Solvency and liquidations

(***************************************************************************)
(* A call of angle() never commits with a vault that it made riskier and   *)
(* that is not solvent, however it combines its actions, on whatever       *)
(* vaults, and whatever runs in its callbacks.                             *)
(***************************************************************************)
RiskierVaultsAreSolvent ==
    [][tx.call = "angle" /\ Idle' =>
          \A v \in VaultIDs :
             \/ /\ vaultData'[v].normalizedDebt <= saved.vaultData[v].normalizedDebt
                /\ vaultData'[v].collateralAmount >= saved.vaultData[v].collateralAmount
             \/ Solvent(vaultData'[v], oracleValue, interestAccumulator', params)]_vars

(***************************************************************************)
(* Liquidations cannot be blocked: unless the discount can reach 100% or   *)
(* the surcharge takes everything, the largest offer on an unhealthy vault *)
(* is defined and leaves no dusty debt, so that _repayDebt accepts it.     *)
(***************************************************************************)
CanAlwaysBeLiquidated ==
    params.maxLiquidationDiscount < BASE_PARAMS /\ params.liquidationSurcharge > 0 =>
       \A v \in VaultIDs :
          LET vault == vaultData[v]
              offer == LiquidationOffer(vault, oracleValue, NewAccumulator, params)
              repaid == Repayment(Debt(v), Reimbursed(offer.maxRepay), NewAccumulator)
          IN Liquidable(vault, oracleValue, NewAccumulator, params) =>
                /\ OfferDefined(vault, oracleValue, NewAccumulator, params)
                /\ \/ vault.collateralAmount <=
                          CollateralReleased(offer.maxRepay, vault, oracleValue,
                                             NewAccumulator, params)
                   \/ LeavesNoDust(Debt(v) - repaid.change, NewAccumulator, params)

\* The vaults that a step of liquidate()'s loop changes.
LiquidatedBy(v) == tx.phase = "liquidating" /\ vaultData'[v] # vaultData[v]

(***************************************************************************)
(* A partial liquidation does not take the vault beyond the target health  *)
(* factor ("Maximum Health factor at which a vault can end up after a      *)
(* liquidation (unless it's fully liquidated)", VaultManagerStorage.sol:63)*)
(* but for the unit of collateral that rounding leaves in the vault.       *)
(***************************************************************************)
TargetNotOvershot ==
    [][\A v \in VaultIDs :
          tx'.phase = "liquidating" /\ LiquidatedBy(v) /\ Debt(v)' > 0 =>
             HealthFactor([vaultData'[v] EXCEPT !.collateralAmount = Excess(@, 1)],
                          oracleValue, tx.acc, params) <= params.targetHealthFactor]_vars

\* The collateral, sold at the discounted price, pays the debt and the surcharge on it.
Covered(vault) ==
    vault.collateralAmount * oracleValue * BASE_INTEREST * params.liquidationSurcharge
        * LiquidationDiscount(vault, oracleValue, tx.acc, params)
      >= vault.normalizedDebt * tx.acc * CollatBase * BASE_PARAMS * BASE_PARAMS

(***************************************************************************)
(* Bad debt appears only when the collateral of the vault could not pay    *)
(* its debt and the surcharge at the discounted price: whatever amount the *)
(* liquidator brings, truncations do not turn a covered vault into a loss  *)
(* (VaultManager.sol:743).                                                 *)
(***************************************************************************)
NoBadDebtFromCoveredVaults ==
    [][\A v \in VaultIDs :
          LiquidatedBy(v) /\ tx'.badDebt > tx.badDebt => ~Covered(vaultData[v])]_vars

(***************************************************************************)
(* Whatever the order in which governance uses its setters, the parameters *)
(* stay such that fees are fractions, that a liquidation pays the protocol *)
(* at least the repay fee and that liquidations can leave the minimum debt.*)
(***************************************************************************)
ParamsConsistent ==
    /\ params.collateralFactor <= params.liquidationSurcharge
    /\ params.liquidationSurcharge + params.repayFee <= BASE_PARAMS
    /\ params.targetHealthFactor >= BASE_PARAMS
    /\ params.borrowFee <= BASE_PARAMS
    /\ params.maxLiquidationDiscount <= BASE_PARAMS
    /\ params.dust <= params.dustLiquidation
=============================================================================
