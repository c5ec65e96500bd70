----------------------------- MODULE VaultMath -----------------------------
(***************************************************************************)
(* The fixed-point arithmetic of VaultManager.sol: every division of the   *)
(* contract truncates, and who gains from each truncation is what several  *)
(* of the properties of VaultManager.tla are about.                        *)
(*                                                                         *)
(* `p` is the record of a VaultManager's parameters (see VaultManager) and *)
(* `vault` a record [collateralAmount, normalizedDebt].  The bases are     *)
(* 10^9 and 10^27 in the contract; here they are parameters.               *)
(***************************************************************************)
EXTENDS Integers

CONSTANTS
    BASE_PARAMS,    \* base of the parameters (1 in fixed point)
    BASE_INTEREST,  \* base of the interest accumulator
    CollatBase,     \* _collatBase: 10^decimals of the collateral
    MaxUint         \* type(uint256).max

ASSUME BasesAssumption ==
    /\ BASE_PARAMS \in Nat \ {0}
    /\ BASE_INTEREST \in Nat \ {0}
    /\ CollatBase \in Nat \ {0}
    /\ MaxUint \in Nat
    /\ MaxUint > BASE_PARAMS

HALF_BASE_INTEREST == BASE_INTEREST \div 2

VaultType == [collateralAmount : Nat, normalizedDebt : Nat]
NoVault == [collateralAmount |-> 0, normalizedDebt |-> 0]

(***************************************************************************)
(* _calculateCurrentInterestAccumulator: third-order binomial expansion of *)
(* acc * (1 + rate)^exp, `exp` being the seconds since the last accrual.   *)
(***************************************************************************)
CurrentAccumulator(acc, rate, exp) ==
    IF exp = 0 \/ rate = 0 THEN acc
    ELSE LET expMinusTwo == IF exp > 2 THEN exp - 2 ELSE 0
             powerTwo    == (rate * rate + HALF_BASE_INTEREST) \div BASE_INTEREST
             powerThree  == (powerTwo * rate + HALF_BASE_INTEREST) \div BASE_INTEREST
             secondTerm  == (exp * (exp - 1) * powerTwo) \div 2
             thirdTerm   == (exp * (exp - 1) * expMinusTwo * powerThree) \div 6
         IN (acc * (BASE_INTEREST + rate * exp + secondTerm + thirdTerm))
               \div BASE_INTEREST

\* A normalized debt in stablecoins, rounded down, as everywhere in the contract.
DebtValue(normalizedDebt, acc) == (normalizedDebt * acc) \div BASE_INTEREST

\* Mutant: rounded up.
NormalizedUp(amount, acc) == (amount * BASE_INTEREST + acc - 1) \div acc

\* The normalized debt that an amount of stablecoins stands for, rounded down.
Normalized(amount, acc) == (amount * BASE_INTEREST) \div acc

CollateralInStable(vault, price) == (vault.collateralAmount * price) \div CollatBase

\* _isSolvent: the health factor; below BASE_PARAMS the vault can be liquidated.
HealthFactor(vault, price, acc, p) ==
    LET debt == DebtValue(vault.normalizedDebt, acc)
    IN IF debt = 0 THEN MaxUint
       ELSE (CollateralInStable(vault, price) * p.collateralFactor) \div debt

Solvent(vault, price, acc, p) == HealthFactor(vault, price, acc, p) > BASE_PARAMS

Liquidable(vault, price, acc, p) == HealthFactor(vault, price, acc, p) < BASE_PARAMS

(***************************************************************************)
(* The arithmetic of _repayDebt: `stable` is what is repaid, `change` what *)
(* leaves the normalized debt.  An offer of the whole debt or more repays  *)
(* exactly the debt; a smaller one is rounded down, against the borrower.  *)
(***************************************************************************)
Repayment(normalizedDebt, amount, acc) ==
    LET debt == DebtValue(normalizedDebt, acc)
    IN IF amount >= debt THEN [stable |-> debt, change |-> normalizedDebt]
       ELSE [stable |-> amount, change |-> Normalized(amount, acc)]

\* Mutant: the dust is not scaled.
LeavesNoDustUnscaled(leftover, acc, p) == leftover = 0 \/ leftover * acc > p.dust

\* The test of _repayDebt on what a repayment leaves: nothing, or more than dust.
LeavesNoDust(leftover, acc, p) ==
    leftover = 0 \/ leftover * acc > p.dust * BASE_INTEREST

\* What is paid so that `amount` remains once the repay fee is taken.
PlusRepayFee(amount, p) == (amount * BASE_PARAMS) \div (BASE_PARAMS - p.repayFee)

\* Mutant: the discount is not capped.
LiquidationDiscountUncapped(vault, price, acc, p) ==
    BASE_PARAMS - (p.boost * (BASE_PARAMS - HealthFactor(vault, price, acc, p)))
                     \div BASE_PARAMS

\* _checkLiquidation's discount, kept as 1 - discount.
LiquidationDiscount(vault, price, acc, p) ==
    LET wanted == (p.boost * (BASE_PARAMS - HealthFactor(vault, price, acc, p)))
                     \div BASE_PARAMS
    IN IF wanted >= p.maxLiquidationDiscount
       THEN BASE_PARAMS - p.maxLiquidationDiscount
       ELSE BASE_PARAMS - wanted

(***************************************************************************)
(* Whether repaying raises the health factor of the vault, so that a       *)
(* liquidation can stop at the target health factor.                       *)
(***************************************************************************)
HealthImproves(vault, price, acc, p) ==
    HealthFactor(vault, price, acc, p) * LiquidationDiscount(vault, price, acc, p)
        * p.liquidationSurcharge >= p.collateralFactor * BASE_PARAMS * BASE_PARAMS

\* The denominator of the repayment that brings the vault to its target.
TargetDenominator(vault, price, acc, p) ==
    p.liquidationSurcharge * p.targetHealthFactor
        * LiquidationDiscount(vault, price, acc, p)
      - BASE_PARAMS * BASE_PARAMS * p.collateralFactor

\* Mutant: the collateral in the vault is forgotten.
RepayToTargetFromNothing(vault, price, acc, p) ==
    (p.targetHealthFactor * DebtValue(vault.normalizedDebt, acc)
       * BASE_PARAMS * LiquidationDiscount(vault, price, acc, p))
      \div TargetDenominator(vault, price, acc, p)

\* The repayment that brings a vault to the target health factor.
RepayToTarget(vault, price, acc, p) ==
    ((p.targetHealthFactor * DebtValue(vault.normalizedDebt, acc)
        - CollateralInStable(vault, price) * p.collateralFactor)
       * BASE_PARAMS * LiquidationDiscount(vault, price, acc, p))
      \div TargetDenominator(vault, price, acc, p)

\* The offer when repaying helps: up to the target, or everything when the rest is dusty.
OfferToTarget(vault, price, acc, p) ==
    LET debt  == DebtValue(vault.normalizedDebt, acc)
        maxRepay == RepayToTarget(vault, price, acc, p)
        dusty == debt * BASE_PARAMS <=
                    maxRepay * p.liquidationSurcharge + p.dustLiquidation * BASE_PARAMS
    IN [maxRepay  |-> IF dusty
                      THEN (vault.normalizedDebt * acc * BASE_PARAMS)
                              \div (p.liquidationSurcharge * BASE_INTEREST) + 1
                      ELSE maxRepay,
        threshold |-> IF ~dusty THEN 0
                      ELSE IF debt > p.dustLiquidation
                      THEN ((debt - p.dustLiquidation) * BASE_PARAMS)
                              \div p.liquidationSurcharge
                      ELSE 1]

\* The offer when repaying worsens the vault: exactly what buys all its collateral.
OfferForCollateral(vault, price, acc, p) ==
    LET inStable == CollateralInStable(vault, price)
        discount == LiquidationDiscount(vault, price, acc, p)
    IN [maxRepay  |-> (vault.collateralAmount * discount * price)
                         \div (BASE_PARAMS * CollatBase) + 1,
        threshold |-> IF inStable > p.dustCollateral
                      THEN ((inStable - p.dustCollateral) * discount) \div BASE_PARAMS
                      ELSE 1]

\* _checkLiquidation, for a vault that is Liquidable.
LiquidationOffer(vault, price, acc, p) ==
    IF HealthImproves(vault, price, acc, p)
    THEN OfferToTarget(vault, price, acc, p)
    ELSE OfferForCollateral(vault, price, acc, p)

\* Where the divisions of _checkLiquidation and liquidate are by something else than 0.
OfferDefined(vault, price, acc, p) ==
    /\ LiquidationDiscount(vault, price, acc, p) * price # 0
    /\ HealthImproves(vault, price, acc, p) =>
          /\ TargetDenominator(vault, price, acc, p) > 0
          /\ p.liquidationSurcharge > 0

\* What a liquidator that brings `amount` pays: all or nothing next to a dusty leftover.
LiquidationPayment(amount, offer) ==
    IF (offer.threshold # 0 /\ amount >= offer.threshold) \/ amount > offer.maxRepay
    THEN offer.maxRepay
    ELSE amount

\* The collateral that `paid` stablecoins buy at the discounted price.
CollateralReleased(paid, vault, price, acc, p) ==
    (paid * BASE_PARAMS * CollatBase)
       \div (LiquidationDiscount(vault, price, acc, p) * price)
=============================================================================
