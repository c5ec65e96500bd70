------------------------- MODULE VaultManagerProofs -------------------------
(***************************************************************************)
(* The accounting of VaultManager.tla, for every number of users and       *)
(* vaults, all parameters, amounts, prices and bases.                      *)
(*                                                                         *)
(* The invariant speaks of three ledgers at once: the storage, the copy of *)
(* it that a rollback restores, and what the call in progress still has to *)
(* settle.  It is proved in layers, each inductive relative to the ones    *)
(* before: the configuration; the types and the debts, which need each     *)
(* other (no subtraction underflows because the total counts the debts);   *)
(* then the custody of the collateral, the cached accumulator and the      *)
(* free vaults.                                                            *)
(***************************************************************************)
EXTENDS VaultManager, CountingProofs, OwnershipProofs

-----------------------------------------------------------------------------
\* What the fixed-point operators of VaultMath.tla return, for all bases, amounts and
\* parameters: conversions

LEMMA DebtValueIsNat ==
    ASSUME NEW n \in Nat, NEW acc \in Nat
    PROVE  DebtValue(n, acc) \in Nat
  BY BasesAssumption, ProductIsNat, DivisionIsNat DEF DebtValue

LEMMA NormalizedIsNat ==
    ASSUME NEW amount \in Nat, NEW acc \in Nat \ {0}
    PROVE  Normalized(amount, acc) \in Nat
  BY BasesAssumption, ProductIsNat, DivisionIsNat DEF Normalized

(***************************************************************************)
(* _repayDebt takes at most what is offered and at most what is owed, in   *)
(* stablecoins; and never more off a debt than there is, so that neither   *)
(* the vault's nor the total normalized debt can underflow: a repayment    *)
(* below the debt is worth at most the normalized debt.                    *)
(***************************************************************************)
THEOREM RepaymentWithinDebt ==
    ASSUME NEW n \in Nat, NEW amount \in Nat, NEW acc \in Nat \ {0}
    PROVE  LET repaid == Repayment(n, amount, acc)
           IN  /\ repaid.stable \in Nat
               /\ repaid.stable <= amount
               /\ repaid.stable <= DebtValue(n, acc)
               /\ repaid.change \in 0..n
<1> DEFINE debt == DebtValue(n, acc)
<1>1. debt \in Nat
  BY DebtValueIsNat
<1>2. CASE amount >= debt
  <2>1. Repayment(n, amount, acc) = [stable |-> debt, change |-> n]
    BY <1>2 DEF Repayment
  <2> QED
    BY <1>1, <1>2, <2>1
<1>3. CASE ~(amount >= debt)
  <2>1. Repayment(n, amount, acc) = [stable |-> amount, change |-> Normalized(amount, acc)]
    BY <1>3 DEF Repayment
  <2>2. amount * BASE_INTEREST <= n * acc
    <3>1. debt * BASE_INTEREST <= n * acc
      BY BasesAssumption, ProductIsNat, DivisionTruncates DEF DebtValue
    <3>2. amount * BASE_INTEREST <= debt * BASE_INTEREST
      BY <1>1, <1>3, BasesAssumption
    <3>3. amount * BASE_INTEREST \in Nat /\ debt * BASE_INTEREST \in Nat /\ n * acc \in Nat
      BY <1>1, BasesAssumption, ProductIsNat
    <3> QED
      BY <3>1, <3>2, <3>3
  <2>3. Normalized(amount, acc) <= n
    BY <2>2, BasesAssumption, ProductIsNat, DivisionAtMost DEF Normalized
  <2> QED
    BY <1>1, <1>3, <2>1, <2>3, NormalizedIsNat
<1> QED
  BY <1>2, <1>3

(***************************************************************************)
(* A repayment is never worth less than what it takes off the debt, but    *)
(* for a truncated fraction of a stablecoin when it wipes the debt out.    *)
(***************************************************************************)
THEOREM RepaymentPaysForItself ==
    ASSUME NEW n \in Nat, NEW amount \in Nat, NEW acc \in Nat \ {0}
    PROVE  LET repaid == Repayment(n, amount, acc)
           IN \/ repaid.change * acc <= repaid.stable * BASE_INTEREST
              \/ /\ repaid.change = n
                 /\ repaid.change * acc < repaid.stable * BASE_INTEREST + BASE_INTEREST
<1> DEFINE debt == DebtValue(n, acc)
<1>1. CASE amount >= debt
  <2>1. Repayment(n, amount, acc) = [stable |-> debt, change |-> n]
    BY <1>1 DEF Repayment
  <2>2. n * acc < debt * BASE_INTEREST + BASE_INTEREST
    BY BasesAssumption, ProductIsNat, DivisionTruncates DEF DebtValue
  <2> QED
    BY <2>1, <2>2
<1>2. CASE ~(amount >= debt)
  <2>1. Repayment(n, amount, acc) = [stable |-> amount, change |-> Normalized(amount, acc)]
    BY <1>2 DEF Repayment
  <2>2. Normalized(amount, acc) * acc <= amount * BASE_INTEREST
    BY BasesAssumption, ProductIsNat, DivisionTruncates DEF Normalized
  <2> QED
    BY <2>1, <2>2
<1> QED
  BY <1>1, <1>2

\* The repay fee is never negative: surplus only grows when a debt is repaid.
LEMMA RepayFeeIsNat ==
    ASSUME NEW amount \in Nat, NEW p, p.repayFee \in Nat, p.repayFee < BASE_PARAMS
    PROVE  PlusRepayFee(amount, p) \in Nat /\ PlusRepayFee(amount, p) >= amount
<1> DEFINE divisor == BASE_PARAMS - p.repayFee
<1>1. divisor \in Nat \ {0} /\ divisor <= BASE_PARAMS
  BY BasesAssumption
<1>2. amount * BASE_PARAMS \in Nat
  BY BasesAssumption, ProductIsNat
<1>3. amount * divisor <= amount * BASE_PARAMS
  BY <1>1, BasesAssumption, ProductMonotone
<1> HIDE DEF divisor
<1>4. (amount * BASE_PARAMS) \div divisor \in Nat
  BY <1>1, <1>2, DivisionIsNat
<1>5. amount <= (amount * BASE_PARAMS) \div divisor
  BY <1>1, <1>2, <1>3, DivisionAtLeast
<1> QED
  BY <1>4, <1>5 DEF PlusRepayFee, divisor

\* A fraction of an amount, as a fee or a surcharge, is part of it.
LEMMA FractionOf ==
    ASSUME NEW amount \in Nat, NEW rate \in Nat, rate <= BASE_PARAMS
    PROVE  (amount * rate) \div BASE_PARAMS \in 0..amount
<1>1. amount * rate \in Nat /\ amount * rate <= amount * BASE_PARAMS
  BY BasesAssumption, ProductIsNat, ProductMonotone
<1>2. (amount * rate) \div BASE_PARAMS \in Nat
  BY <1>1, BasesAssumption, DivisionIsNat
<1>3. (amount * rate) \div BASE_PARAMS <= amount
  BY <1>1, BasesAssumption, DivisionAtMost
<1> QED
  BY <1>2, <1>3

(***************************************************************************)
(* The accumulator never decreases, whatever the rate and the time since   *)
(* the last accrual: neither does a debt that nobody repays, and           *)
(* newInterestAccumulator - interestAccumulator cannot underflow.          *)
(***************************************************************************)
THEOREM AccumulatorNeverDecreases ==
    ASSUME NEW acc \in Nat, NEW rate \in Nat, NEW exp \in Nat
    PROVE  /\ CurrentAccumulator(acc, rate, exp) \in Nat
           /\ CurrentAccumulator(acc, rate, exp) >= acc
<1>1. CASE exp = 0 \/ rate = 0
  BY <1>1 DEF CurrentAccumulator
<1>2. CASE ~(exp = 0 \/ rate = 0)
  <2> DEFINE expMinusTwo == IF exp > 2 THEN exp - 2 ELSE 0
             powerTwo    == (rate * rate + HALF_BASE_INTEREST) \div BASE_INTEREST
             powerThree  == (powerTwo * rate + HALF_BASE_INTEREST) \div BASE_INTEREST
             secondTerm  == (exp * (exp - 1) * powerTwo) \div 2
             thirdTerm   == (exp * (exp - 1) * expMinusTwo * powerThree) \div 6
             growth      == rate * exp + secondTerm + thirdTerm
  <2>1. CurrentAccumulator(acc, rate, exp)
          = (acc * (BASE_INTEREST + rate * exp + secondTerm + thirdTerm)) \div BASE_INTEREST
    BY <1>2 DEF CurrentAccumulator
  <2>2. HALF_BASE_INTEREST \in Nat
    BY BasesAssumption, DivisionIsNat DEF HALF_BASE_INTEREST
  <2>3. powerTwo \in Nat
    BY <2>2, BasesAssumption, ProductIsNat, DivisionIsNat
  <2>4. powerThree \in Nat
    <3> HIDE DEF powerTwo
    <3> QED
      BY <2>2, <2>3, BasesAssumption, ProductIsNat, DivisionIsNat
  <2>5. exp - 1 \in Nat /\ expMinusTwo \in Nat /\ exp * (exp - 1) \in Nat
    BY <1>2, ProductIsNat
  <2> HIDE DEF expMinusTwo, powerTwo, powerThree
  <2>6. exp * (exp - 1) * powerTwo \in Nat
    BY <2>3, <2>5, ProductIsNat
  <2>7. exp * (exp - 1) * expMinusTwo * powerThree \in Nat
    <3>1. exp * (exp - 1) * expMinusTwo \in Nat
      BY <2>5, ProductIsNat
    <3> QED
      BY <2>4, <3>1, ProductIsNat
  <2>8. secondTerm \in Nat /\ thirdTerm \in Nat
    BY <2>6, <2>7, DivisionIsNat
  <2>9. rate * exp \in Nat
    BY ProductIsNat
  <2> HIDE DEF secondTerm, thirdTerm
  <2>10. growth \in Nat
    BY <2>8, <2>9
  <2>11. BASE_INTEREST + rate * exp + secondTerm + thirdTerm = BASE_INTEREST + growth
    BY <2>8, <2>9, BasesAssumption
  <2> HIDE DEF growth
  <2>12. /\ acc * (BASE_INTEREST + growth) \in Nat
         /\ acc * BASE_INTEREST <= acc * (BASE_INTEREST + growth)
    BY <2>10, BasesAssumption, ProductIsNat, ProductMonotone
  <2>13. /\ (acc * (BASE_INTEREST + growth)) \div BASE_INTEREST \in Nat
         /\ acc <= (acc * (BASE_INTEREST + growth)) \div BASE_INTEREST
    BY <2>12, BasesAssumption, DivisionIsNat, DivisionAtLeast
  <2> QED
    BY <2>1, <2>11, <2>13
<1> QED
  BY <1>1, <1>2

-----------------------------------------------------------------------------
\* Liquidations

\* The parameters that a liquidation reads.
LiquidationParams(p) ==
    /\ p.collateralFactor \in Nat
    /\ p.liquidationSurcharge \in Nat
    /\ p.targetHealthFactor \in Nat
    /\ p.targetHealthFactor >= BASE_PARAMS
    /\ p.maxLiquidationDiscount \in 0..BASE_PARAMS
    /\ p.boost \in Nat
    /\ p.dustLiquidation \in Nat
    /\ p.dustCollateral \in Nat

LEMMA CollateralInStableIsNat ==
    ASSUME NEW vault \in VaultType, NEW price \in Nat
    PROVE  CollateralInStable(vault, price) \in Nat
  BY BasesAssumption, ProductIsNat, DivisionIsNat DEF VaultType, CollateralInStable

LEMMA HealthFactorIsNat ==
    ASSUME NEW vault \in VaultType, NEW price \in Nat, NEW acc \in Nat,
           NEW p, p.collateralFactor \in Nat
    PROVE  HealthFactor(vault, price, acc, p) \in Nat
<1> DEFINE debt == DebtValue(vault.normalizedDebt, acc)
           inStable == CollateralInStable(vault, price)
<1>1. debt \in Nat /\ inStable \in Nat
  BY DebtValueIsNat, CollateralInStableIsNat DEF VaultType
<1>2. HealthFactor(vault, price, acc, p) =
         IF debt = 0 THEN MaxUint ELSE (inStable * p.collateralFactor) \div debt
  BY DEF HealthFactor
<1> HIDE DEF debt, inStable
<1>3. inStable * p.collateralFactor \in Nat
  BY <1>1, ProductIsNat
<1> QED
  BY <1>1, <1>2, <1>3, BasesAssumption, DivisionIsNat

\* A vault that holds at least as much and owes at most as much as another.
Safer(vault, before) ==
    /\ vault.normalizedDebt <= before.normalizedDebt
    /\ vault.collateralAmount >= before.collateralAmount

(***************************************************************************)
(* What _isSolvent accepts it accepts again with more collateral or less   *)
(* debt: truncations never turn the comparison around.                     *)
(***************************************************************************)
THEOREM SaferVaultsAreSolvent ==
    ASSUME NEW vault \in VaultType, NEW before \in VaultType, NEW price \in Nat, NEW acc \in Nat,
           NEW p, p.collateralFactor \in Nat,
           Safer(vault, before), Solvent(before, price, acc, p)
    PROVE  Solvent(vault, price, acc, p)
<1> DEFINE debt     == DebtValue(vault.normalizedDebt, acc)
           owed     == DebtValue(before.normalizedDebt, acc)
           inStable == CollateralInStable(vault, price)
           held     == CollateralInStable(before, price)
           CF       == p.collateralFactor
<1>1. /\ vault.normalizedDebt \in Nat /\ before.normalizedDebt \in Nat
      /\ vault.collateralAmount \in Nat /\ before.collateralAmount \in Nat
      /\ vault.normalizedDebt <= before.normalizedDebt
      /\ before.collateralAmount <= vault.collateralAmount
  BY DEF VaultType, Safer
<1>2. debt \in Nat /\ owed \in Nat /\ inStable \in Nat /\ held \in Nat
  BY <1>1, DebtValueIsNat, CollateralInStableIsNat
<1>3. debt <= owed
  <2>1. /\ vault.normalizedDebt * acc \in Nat /\ before.normalizedDebt * acc \in Nat
        /\ vault.normalizedDebt * acc <= before.normalizedDebt * acc
    BY <1>1
  <2> QED
    BY <2>1, BasesAssumption, DivisionMonotone DEF DebtValue
<1>4. held <= inStable
  <2>1. /\ before.collateralAmount * price \in Nat /\ vault.collateralAmount * price \in Nat
        /\ before.collateralAmount * price <= vault.collateralAmount * price
    BY <1>1
  <2> QED
    BY <2>1, BasesAssumption, DivisionMonotone DEF CollateralInStable
<1>5. CASE debt = 0
  BY <1>5, BasesAssumption DEF Solvent, HealthFactor
<1>6. CASE debt # 0
  <2>1. /\ HealthFactor(vault, price, acc, p) = (inStable * CF) \div debt
        /\ HealthFactor(before, price, acc, p) = (held * CF) \div owed
    BY <1>2, <1>3, <1>6 DEF HealthFactor
  <2> HIDE DEF debt, owed, inStable, held
  <2>2. held * CF \in Nat /\ inStable * CF \in Nat /\ held * CF <= inStable * CF
    BY <1>2, <1>4
  <2>3. debt \in Nat \ {0} /\ owed \in Nat \ {0}
    BY <1>2, <1>3, <1>6
  <2>4. /\ (held * CF) \div owed <= (inStable * CF) \div debt
        /\ (held * CF) \div owed \in Nat /\ (inStable * CF) \div debt \in Nat
    <3> DEFINE a == held * CF
               c == inStable * CF
    <3>1. a \in Nat /\ c \in Nat /\ a <= c
      BY <2>2
    <3> HIDE DEF a, c
    <3>2. a \div owed <= c \div debt /\ a \div owed \in Nat /\ c \div debt \in Nat
      BY <1>3, <2>3, <3>1, DivisionMonotone, DivisionIsNat
    <3> QED
      BY <3>2 DEF a, c
  <2> QED
    BY <2>1, <2>4, BasesAssumption DEF Solvent
<1> QED
  BY <1>5, <1>6

\* 1 - discount is a fraction, and it is positive when the maximum discount is below 1.
LEMMA DiscountIsFraction ==
    ASSUME NEW vault \in VaultType, NEW price \in Nat, NEW acc \in Nat,
           NEW p, LiquidationParams(p), Liquidable(vault, price, acc, p)
    PROVE  /\ LiquidationDiscount(vault, price, acc, p) \in 0..BASE_PARAMS
           /\ p.maxLiquidationDiscount < BASE_PARAMS
                 => LiquidationDiscount(vault, price, acc, p) > 0
<1> DEFINE missing == BASE_PARAMS - HealthFactor(vault, price, acc, p)
           wanted == (p.boost * missing) \div BASE_PARAMS
<1>1. missing \in Nat
  <2>1. HealthFactor(vault, price, acc, p) \in Nat
    BY HealthFactorIsNat DEF LiquidationParams
  <2>2. HealthFactor(vault, price, acc, p) < BASE_PARAMS
    BY DEF Liquidable
  <2> QED
    BY <2>1, <2>2, BasesAssumption
<1>2. LiquidationDiscount(vault, price, acc, p) =
         IF wanted >= p.maxLiquidationDiscount
         THEN BASE_PARAMS - p.maxLiquidationDiscount ELSE BASE_PARAMS - wanted
  BY DEF LiquidationDiscount
<1> HIDE DEF missing
<1>3. wanted \in Nat
  BY <1>1, BasesAssumption, ProductIsNat, DivisionIsNat DEF LiquidationParams
<1> HIDE DEF wanted
<1> QED
  BY <1>2, <1>3, BasesAssumption DEF LiquidationParams

(***************************************************************************)
(* "Denom is always positive when a vault gets liquidated in this case and *)
(* when the health factor is an increasing function of the amount of       *)
(* stablecoins repaid" (VaultManager.sol:803), for all prices, vaults and  *)
(* parameters whose maximum discount is below 1 and whose surcharge does   *)
(* not take everything; neither is any other divisor of the offer 0.       *)
(***************************************************************************)
THEOREM OfferIsAlwaysDefined ==
    ASSUME NEW vault \in VaultType, NEW price \in Nat \ {0}, NEW acc \in Nat,
           NEW p, LiquidationParams(p), Liquidable(vault, price, acc, p),
           p.maxLiquidationDiscount < BASE_PARAMS, p.liquidationSurcharge > 0
    PROVE  OfferDefined(vault, price, acc, p)
<1> DEFINE discount == LiquidationDiscount(vault, price, acc, p)
           health == HealthFactor(vault, price, acc, p)
           surcharge == p.liquidationSurcharge
           target == p.targetHealthFactor
           limit == p.collateralFactor * BASE_PARAMS * BASE_PARAMS
<1>1. discount \in Nat \ {0}
  BY DiscountIsFraction, BasesAssumption
<1>2. health \in Nat /\ health < target
  BY HealthFactorIsNat, BasesAssumption DEF Liquidable, LiquidationParams
<1>3. surcharge \in Nat \ {0} /\ target \in Nat /\ limit \in Nat
  BY BasesAssumption, ProductIsNat DEF LiquidationParams
<1>4. ASSUME HealthImproves(vault, price, acc, p)
      PROVE  TargetDenominator(vault, price, acc, p) > 0
  <2>1. health * discount * surcharge >= limit
    BY <1>4 DEF HealthImproves
  <2>2. TargetDenominator(vault, price, acc, p) = surcharge * target * discount - limit
    BY <1>1, <1>3, BasesAssumption DEF TargetDenominator, LiquidationParams
  <2> HIDE DEF discount, health, surcharge, target, limit
  <2>3. health * (discount * surcharge) < target * (discount * surcharge)
    <3>1. discount * surcharge \in Nat \ {0}
      BY <1>1, <1>3
    <3> QED
      BY <1>2, <1>3, <3>1
  <2>4. /\ health * discount * surcharge = health * (discount * surcharge)
        /\ surcharge * target * discount = target * (discount * surcharge)
    BY <1>1, <1>2, <1>3
  <2> QED
    BY <1>1, <1>2, <1>3, <2>1, <2>2, <2>3, <2>4
<1>5. discount * price # 0
  BY <1>1
<1> QED
  BY <1>4, <1>5 DEF OfferDefined

\* The repayment to the target is an amount, and at most the exact quotient.
LEMMA RepayToTargetIsNat ==
    ASSUME NEW vault \in VaultType, NEW price \in Nat \ {0}, NEW acc \in Nat,
           NEW p, LiquidationParams(p), Liquidable(vault, price, acc, p),
           OfferDefined(vault, price, acc, p), HealthImproves(vault, price, acc, p)
    PROVE  LET discount == LiquidationDiscount(vault, price, acc, p)
               debt     == DebtValue(vault.normalizedDebt, acc)
               inStable == CollateralInStable(vault, price)
               short    == p.targetHealthFactor * debt - inStable * p.collateralFactor
           IN  /\ RepayToTarget(vault, price, acc, p) \in Nat
               /\ RepayToTarget(vault, price, acc, p) * TargetDenominator(vault, price, acc, p)
                     <= short * BASE_PARAMS * discount
               /\ TargetDenominator(vault, price, acc, p) \in Nat \ {0}
<1> DEFINE discount == LiquidationDiscount(vault, price, acc, p)
           debt == DebtValue(vault.normalizedDebt, acc)
           inStable == CollateralInStable(vault, price)
           surcharge == p.liquidationSurcharge
           short == p.targetHealthFactor * debt - inStable * p.collateralFactor
           denominator == TargetDenominator(vault, price, acc, p)
<1>1. discount \in Nat
  BY DiscountIsFraction, BasesAssumption
<1>2. debt \in Nat /\ inStable \in Nat
  BY DebtValueIsNat, CollateralInStableIsNat DEF VaultType
<1>3. surcharge \in Nat \ {0}
  BY DEF OfferDefined, LiquidationParams
<1>4. denominator \in Nat \ {0}
  <2>1. surcharge * p.targetHealthFactor * discount \in Nat
    BY <1>1, <1>3, ProductIsNat DEF LiquidationParams
  <2>2. BASE_PARAMS * BASE_PARAMS * p.collateralFactor \in Nat
    BY BasesAssumption, ProductIsNat DEF LiquidationParams
  <2>3. denominator > 0
    BY DEF OfferDefined
  <2> HIDE DEF discount
  <2>4. denominator = surcharge * p.targetHealthFactor * discount
                        - BASE_PARAMS * BASE_PARAMS * p.collateralFactor
    BY DEF TargetDenominator, discount
  <2> QED
    BY <2>1, <2>2, <2>3, <2>4
<1>5. short \in Nat
  <2>1. debt # 0 /\ (inStable * p.collateralFactor) \div debt < BASE_PARAMS
    BY <1>2, BasesAssumption DEF Liquidable, HealthFactor
  <2> HIDE DEF debt, inStable
  <2>2. inStable * p.collateralFactor \in Nat
    BY <1>2, ProductIsNat DEF LiquidationParams
  <2>3. inStable * p.collateralFactor < BASE_PARAMS * debt
    <3> DEFINE quotient == (inStable * p.collateralFactor) \div debt
    <3>1. quotient \in Nat /\ quotient + 1 <= BASE_PARAMS
      BY <1>2, <2>1, <2>2, BasesAssumption, DivisionIsNat
    <3>2. inStable * p.collateralFactor < quotient * debt + debt
      BY <1>2, <2>1, <2>2, DivisionTruncates
    <3> HIDE DEF quotient
    <3>3. (quotient + 1) * debt <= BASE_PARAMS * debt
      BY <1>2, <3>1, BasesAssumption
    <3>4. (quotient + 1) * debt = quotient * debt + debt
      BY <1>2, <3>1
    <3>5. quotient * debt \in Nat /\ BASE_PARAMS * debt \in Nat
      BY <1>2, <3>1, BasesAssumption, ProductIsNat
    <3> QED
      BY <1>2, <2>2, <3>2, <3>3, <3>4, <3>5
  <2>4. BASE_PARAMS * debt <= p.targetHealthFactor * debt
    BY <1>2, BasesAssumption DEF LiquidationParams
  <2>5. BASE_PARAMS * debt \in Nat /\ p.targetHealthFactor * debt \in Nat
    BY <1>2, BasesAssumption, ProductIsNat DEF LiquidationParams
  <2> QED
    BY <2>2, <2>3, <2>4, <2>5
<1>6. RepayToTarget(vault, price, acc, p) = (short * BASE_PARAMS * discount) \div denominator
  BY DEF RepayToTarget
<1>7. short * BASE_PARAMS * discount \in Nat
  <2> HIDE DEF short, discount
  <2>1. short * BASE_PARAMS \in Nat
    BY <1>5, BasesAssumption, ProductIsNat
  <2> QED
    BY <1>1, <2>1, ProductIsNat
<1> DEFINE whole == short * BASE_PARAMS * discount
<1>8. whole \in Nat
  BY <1>7
<1> HIDE DEF whole, denominator
<1>9. whole \div denominator \in Nat /\ (whole \div denominator) * denominator <= whole
  BY <1>4, <1>8, DivisionIsNat, DivisionTruncates
<1> QED
  BY <1>4, <1>6, <1>9 DEF whole, denominator

\* The repayment offered and its threshold are amounts.
LEMMA OfferIsNat ==
    ASSUME NEW vault \in VaultType, NEW price \in Nat \ {0}, NEW acc \in Nat,
           NEW p, LiquidationParams(p), Liquidable(vault, price, acc, p),
           OfferDefined(vault, price, acc, p)
    PROVE  /\ LiquidationOffer(vault, price, acc, p).maxRepay \in Nat
           /\ LiquidationOffer(vault, price, acc, p).threshold \in Nat
<1> DEFINE discount == LiquidationDiscount(vault, price, acc, p)
           debt == DebtValue(vault.normalizedDebt, acc)
           inStable == CollateralInStable(vault, price)
           surcharge == p.liquidationSurcharge
<1>1. discount \in Nat
  BY DiscountIsFraction, BasesAssumption
<1>2. debt \in Nat /\ inStable \in Nat
  BY DebtValueIsNat, CollateralInStableIsNat DEF VaultType
<1>3. CASE HealthImproves(vault, price, acc, p)
  <2> DEFINE whole == vault.normalizedDebt * acc * BASE_PARAMS
  <2>1. surcharge \in Nat \ {0}
    BY <1>3 DEF OfferDefined, LiquidationParams
  <2>2. RepayToTarget(vault, price, acc, p) \in Nat
    BY <1>3, RepayToTargetIsNat
  <2>3. whole \div (surcharge * BASE_INTEREST) \in Nat
    <3>1. vault.normalizedDebt * acc \in Nat
      BY ProductIsNat DEF VaultType
    <3>2. whole \in Nat
      BY <3>1, BasesAssumption, ProductIsNat
    <3>3. surcharge * BASE_INTEREST \in Nat \ {0}
      BY <2>1, BasesAssumption
    <3> QED
      BY <3>2, <3>3, DivisionIsNat
  <2>4. debt > p.dustLiquidation =>
           ((debt - p.dustLiquidation) * BASE_PARAMS) \div surcharge \in Nat
    <3> HIDE DEF debt
    <3>1. ASSUME debt > p.dustLiquidation
          PROVE  (debt - p.dustLiquidation) * BASE_PARAMS \in Nat
      BY <1>2, <3>1, BasesAssumption, ProductIsNat DEF LiquidationParams
    <3> QED
      BY <2>1, <3>1, DivisionIsNat
  <2> HIDE DEF debt, surcharge
  <2>5. LiquidationOffer(vault, price, acc, p) = OfferToTarget(vault, price, acc, p)
    BY <1>3 DEF LiquidationOffer
  <2> QED
    BY <2>2, <2>3, <2>4, <2>5 DEF OfferToTarget, debt, surcharge
<1>4. CASE ~HealthImproves(vault, price, acc, p)
  <2>1. LiquidationOffer(vault, price, acc, p) = OfferForCollateral(vault, price, acc, p)
    BY <1>4 DEF LiquidationOffer
  <2>2. (vault.collateralAmount * discount * price) \div (BASE_PARAMS * CollatBase) \in Nat
    <3> HIDE DEF discount
    <3>1. vault.collateralAmount * discount \in Nat
      BY <1>1, ProductIsNat DEF VaultType
    <3>2. vault.collateralAmount * discount * price \in Nat
      BY <3>1, ProductIsNat
    <3>3. BASE_PARAMS * CollatBase \in Nat \ {0}
      BY BasesAssumption
    <3> QED
      BY <3>2, <3>3, DivisionIsNat
  <2>3. inStable > p.dustCollateral =>
           ((inStable - p.dustCollateral) * discount) \div BASE_PARAMS \in Nat
    <3> HIDE DEF discount, inStable
    <3>1. ASSUME inStable > p.dustCollateral
          PROVE  (inStable - p.dustCollateral) * discount \in Nat
      BY <1>1, <1>2, <3>1, ProductIsNat DEF LiquidationParams
    <3> QED
      BY <3>1, BasesAssumption, DivisionIsNat
  <2> QED
    BY <2>1, <2>2, <2>3 DEF OfferForCollateral
<1> QED
  BY <1>3, <1>4

-----------------------------------------------------------------------------
\* Sums over the vaults

\* total is the sum of f, and f has finitely many units.
Counted(f, total) == IsFiniteSet(UnitsOf(f)) /\ total = TotalOf(f)

LEMMA CountedUpdate ==
    ASSUME NEW V, NEW f \in [V -> Nat], NEW total, Counted(f, total),
           NEW x \in V, NEW n \in Nat
    PROVE  /\ total \in Nat
           /\ f[x] <= total
           /\ Counted([f EXCEPT ![x] = n], total - f[x] + n)
  BY TotalOfUpdate DEF Counted

LEMMA DebtUpdate ==
    ASSUME NEW data \in [VaultIDs -> VaultType], NEW total,
           Counted(DebtOf(data), total),
           NEW v \in VaultIDs, NEW vault \in VaultType
    PROVE  /\ total \in Nat
           /\ data[v].normalizedDebt <= total
           /\ Counted(DebtOf([data EXCEPT ![v] = vault]),
                      total - data[v].normalizedDebt + vault.normalizedDebt)
<1>1. DebtOf(data) \in [VaultIDs -> Nat]
  BY DEF DebtOf, VaultType
<1>2. DebtOf(data)[v] = data[v].normalizedDebt /\ vault.normalizedDebt \in Nat
  BY DEF DebtOf, VaultType
<1>3. DebtOf([data EXCEPT ![v] = vault]) = [DebtOf(data) EXCEPT ![v] = vault.normalizedDebt]
  BY DEF DebtOf
<1>4. /\ total \in Nat
      /\ DebtOf(data)[v] <= total
      /\ Counted([DebtOf(data) EXCEPT ![v] = vault.normalizedDebt],
                 total - DebtOf(data)[v] + vault.normalizedDebt)
  <2> HIDE DEF DebtOf
  <2> QED
    BY <1>1, <1>2, CountedUpdate
<1> QED
  BY <1>2, <1>3, <1>4

LEMMA CollateralUpdate ==
    ASSUME NEW data \in [VaultIDs -> VaultType], NEW total,
           Counted(CollateralOf(data), total),
           NEW v \in VaultIDs, NEW vault \in VaultType
    PROVE  /\ total \in Nat
           /\ data[v].collateralAmount <= total
           /\ Counted(CollateralOf([data EXCEPT ![v] = vault]),
                      total - data[v].collateralAmount + vault.collateralAmount)
<1>1. CollateralOf(data) \in [VaultIDs -> Nat]
  BY DEF CollateralOf, VaultType
<1>2. CollateralOf(data)[v] = data[v].collateralAmount /\ vault.collateralAmount \in Nat
  BY DEF CollateralOf, VaultType
<1>3. CollateralOf([data EXCEPT ![v] = vault])
         = [CollateralOf(data) EXCEPT ![v] = vault.collateralAmount]
  BY DEF CollateralOf
<1>4. /\ total \in Nat
      /\ CollateralOf(data)[v] <= total
      /\ Counted([CollateralOf(data) EXCEPT ![v] = vault.collateralAmount],
                 total - CollateralOf(data)[v] + vault.collateralAmount)
  <2> HIDE DEF CollateralOf
  <2> QED
    BY <1>1, <1>2, CountedUpdate
<1> QED
  BY <1>2, <1>3, <1>4

-----------------------------------------------------------------------------
\* The configuration

ConfigInv ==
    /\ params \in ParamsType
    /\ ParamsConsistent
    /\ paused \in BOOLEAN
    /\ isWhitelisted \subseteq Addresses
    /\ now \in Nat
    /\ oracleValue \in Prices

LEMMA ConfigInit == Init => ConfigInv
<1> SUFFICES ASSUME Init PROVE ConfigInv
  OBVIOUS
<1>1. PICK p \in InitialParams : AcceptedByInitialize(p) /\ Unused(Initialized(p))
  BY DEF Init
<1>2. p \in ParamsType /\ params = Initialized(p)
  BY <1>1, ParamsAssumption DEF Unused
<1>3. params \in ParamsType
  BY <1>2 DEF ParamsType, Initialized
<1>4. ParamsConsistent
  BY <1>1, <1>2, BasesAssumption DEF ParamsType, Initialized, AcceptedByInitialize, ParamsConsistent
<1> QED
  BY <1>1, <1>3, <1>4 DEF ConfigInv, Unused

LEMMA SetUint64KeepsConfig ==
    ASSUME ConfigInv, NEW what \in ParamNames, what \notin {"ceiling", "boost", "dusts"},
           NEW value \in Nat, SetUint64(what, value)
    PROVE  ConfigInv'
<1> USE DEF ConfigInv, SetUint64
<1>1. UNCHANGED <<paused, isWhitelisted, now, oracleValue>>
  BY DEF worldVars
<1>2. /\ params' \in ParamsType
      /\ ParamsConsistent'
  <2>1. CASE what = "CF"
    BY <2>1 DEF Field, ParamAccepted, ParamsType, ParamsConsistent
  <2>2. CASE what = "THF"
    BY <2>2 DEF Field, ParamAccepted, ParamsType, ParamsConsistent
  <2>3. CASE what = "BF"
    BY <2>3 DEF Field, ParamAccepted, ParamsType, ParamsConsistent
  <2>4. CASE what = "RF"
    BY <2>4 DEF Field, ParamAccepted, ParamsType, ParamsConsistent
  <2>5. CASE what = "IR"
    BY <2>5 DEF Field, ParamAccepted, ParamsType, ParamsConsistent
  <2>6. CASE what = "LS"
    BY <2>6 DEF Field, ParamAccepted, ParamsType, ParamsConsistent
  <2>7. CASE what = "MLD"
    BY <2>7 DEF Field, ParamAccepted, ParamsType, ParamsConsistent
  <2> QED
    BY <2>1, <2>2, <2>3, <2>4, <2>5, <2>6, <2>7 DEF ParamNames
<1> QED
  BY <1>1, <1>2

LEMMA AdministerKeepsConfig ==
    ASSUME ConfigInv, Administer
    PROVE  ConfigInv'
<1> USE DEF ConfigInv
<1>1. UNCHANGED <<now, oracleValue>>
  BY DEF Administer, worldVars
<1>2. CASE \E value \in ParamChoices["ceiling"] : SetDebtCeiling(value)
           /\ UNCHANGED <<paused, isWhitelisted>>
  BY <1>1, <1>2, ConfigAssumption DEF SetDebtCeiling, ParamNames, ParamsType, ParamsConsistent
<1>3. CASE \E value \in ParamChoices["boost"] : SetLiquidationBoostParameters(value)
           /\ UNCHANGED <<paused, isWhitelisted>>
  BY <1>1, <1>3, ConfigAssumption
     DEF SetLiquidationBoostParameters, ParamNames, ParamsType, ParamsConsistent
<1>4. ASSUME NEW d \in ParamChoices["dusts"], NEW l \in ParamChoices["dusts"],
             NEW c \in ParamChoices["dusts"],
             SetDusts(d, l, c), UNCHANGED <<paused, isWhitelisted>>
      PROVE  ConfigInv'
  <2>1. d \in Nat /\ l \in Nat /\ c \in Nat
    BY ConfigAssumption DEF ParamNames
  <2>2. params' \in ParamsType
    BY <1>4, <2>1 DEF SetDusts, ParamsType
  <2>3. ParamsConsistent'
    BY <1>4, <2>1 DEF SetDusts, ParamsType, ParamsConsistent
  <2> QED
    BY <1>1, <1>4, <2>2, <2>3
<1>5. ASSUME NEW target \in WhitelistTargets, ToggleWhitelist(target), UNCHANGED paused
      PROVE  ConfigInv'
  <2>1. params' \in ParamsType /\ ParamsConsistent'
    BY <1>5 DEF ToggleWhitelist, ParamsType, ParamsConsistent
  <2>2. isWhitelisted' \subseteq Addresses
    BY <1>5, ConfigAssumption DEF ToggleWhitelist
  <2> QED
    BY <1>1, <1>5, <2>1, <2>2
<1>6. CASE TogglePause /\ UNCHANGED <<params, isWhitelisted>>
  BY <1>1, <1>6 DEF TogglePause, ParamsConsistent
<1> QED
  BY <1>2, <1>3, <1>4, <1>5, <1>6 DEF Administer

\* What is not a setter, nor the clock or the market.
LEMMA ConfigUnchanged ==
    ASSUME ConfigInv, UNCHANGED <<govVars, worldVars>>
    PROVE  ConfigInv'
  BY DEF ConfigInv, ParamsConsistent, govVars, worldVars

LEMMA ConfigStep == ConfigInv /\ [Next]_vars => ConfigInv'
<1> SUFFICES ASSUME ConfigInv, [Next]_vars PROVE ConfigInv'
  OBVIOUS
<1>1. ASSUME NEW what \in ParamNames, NEW value \in ParamChoices[what],
             what \notin {"ceiling", "boost", "dusts"}, SetUint64(what, value)
      PROVE  ConfigInv'
  <2>1. value \in Nat
    BY ConfigAssumption
  <2> QED
    BY <1>1, <2>1, SetUint64KeepsConfig
<1>2. CASE Administer
  BY <1>2, AdministerKeepsConfig
<1>3. CASE Tick
  BY <1>3 DEF Tick, ConfigInv, ParamsConsistent, govVars
<1>4. ASSUME NEW price \in Prices, PriceMoves(price)
      PROVE  ConfigInv'
  BY <1>4 DEF PriceMoves, ConfigInv, ParamsConsistent, govVars
<1>5. CASE UNCHANGED vars
  BY <1>5, ConfigUnchanged DEF vars
<1>6. CASE AngleStep
  BY <1>6, ConfigUnchanged
     DEF AngleStep, CreateVaultInCall, AddCollateral, RemoveCollateral, RepayDebt, Borrow,
         CloseVault, GetDebtInLocal, GetDebtInRemote
<1>7. CASE \/ \E sender \in Users : BeginAngle(sender)
           \/ CallbackReturns
           \/ \E swap \in BOOLEAN : EndAngle(swap)
           \/ \E sender, to \in Users : BeginLiquidation(sender, to)
           \/ \E v \in VaultIDs, amount \in StableAmounts : LiquidateVault(v, amount)
           \/ \E swap \in BOOLEAN : EndLiquidation(swap)
           \/ Collect
           \/ Revert
  BY <1>7, ConfigUnchanged
     DEF BeginAngle, CallbackReturns, EndAngle, BeginLiquidation, LiquidateVault,
         EndLiquidation, Collect, Revert
<1>8. CASE \/ \E to \in Users : CreateVault(to)
           \/ MoveOwnership
           \/ \E v \in VaultIDs, amount \in StableAmounts, fees \in RemoteFees :
                 GetDebtOut(v, amount, fees)
           \/ AccrueInterestToTreasury
  BY <1>8, ConfigUnchanged
     DEF CreateVault, MoveOwnership, GetDebtOut, AccrueInterestToTreasury
<1> QED
  BY <1>1, <1>2, <1>3, <1>4, <1>5, <1>6, <1>7, <1>8 DEF Next

(***************************************************************************)
(* Whatever setUint64, setDusts and the other setters are called with, and *)
(* in whatever order, the parameters stay consistent: each setter compares *)
(* its value with what the others left (VaultManager.sol:864, 948).        *)
(***************************************************************************)
THEOREM ParamsAlwaysConsistent == Spec => []ParamsConsistent
<1>1. ConfigInv => ParamsConsistent
  BY DEF ConfigInv
<1> QED
  BY <1>1, ConfigInit, ConfigStep, PTL DEF Spec

-----------------------------------------------------------------------------
\* The ledger: types, debts, interest

DebtsInv ==
    /\ vaultData \in [VaultIDs -> VaultType]
    /\ Counted(DebtOf(vaultData), totalNormalizedDebt)

InterestInv ==
    /\ interestAccumulator \in Nat \ {0}
    /\ lastInterestAccumulatorUpdated \in 0..now
    /\ surplus \in Nat

MoneyInv ==
    /\ badDebt \in Nat
    /\ treasury \in TreasuryType
    /\ custody \in Nat
    /\ circulating \in Nat
    /\ foreignDebt \in Nat

TxInv ==
    /\ tx \in TxType
    /\ tx.phase = "liquidating" => tx.acc # 0

SavedInv ==
    /\ Idle => saved = NoSnapshot /\ tx = NoTx
    /\ ~Idle => /\ saved \in SnapshotType
                /\ Counted(DebtOf(saved.vaultData), saved.totalNormalizedDebt)
                /\ saved.interestAccumulator # 0
                /\ saved.lastInterestAccumulatorUpdated <= now

LedgerInv == NFTTypeOK /\ DebtsInv /\ InterestInv /\ MoneyInv /\ TxInv /\ SavedInv

\* One vault changes, and the total with it.
LEMMA VaultUpdateKeepsDebts ==
    ASSUME DebtsInv, NEW v \in VaultIDs, NEW vault \in VaultType,
           vaultData' = [vaultData EXCEPT ![v] = vault],
           totalNormalizedDebt' =
              totalNormalizedDebt - vaultData[v].normalizedDebt + vault.normalizedDebt
    PROVE  DebtsInv'
  BY DebtUpdate DEF DebtsInv

LEMMA TotalIsNat ==
    ASSUME DebtsInv
    PROVE  /\ totalNormalizedDebt \in Nat
           /\ \A v \in VaultIDs : Debt(v) \in 0..totalNormalizedDebt
<1>1. totalNormalizedDebt \in Nat
  BY FS_CardinalityType DEF DebtsInv, Counted, TotalOf
<1>2. ASSUME NEW v \in VaultIDs
      PROVE  Debt(v) \in 0..totalNormalizedDebt
  <2>1. vaultData[v] \in VaultType
    BY DEF DebtsInv
  <2>2. vaultData[v].normalizedDebt <= totalNormalizedDebt
    BY <2>1, DebtUpdate DEF DebtsInv
  <2> QED
    BY <1>1, <2>1, <2>2 DEF Debt, VaultType
<1> QED
  BY <1>1, <1>2

LEMMA NewAccumulatorGrows ==
    ASSUME ConfigInv, InterestInv
    PROVE  /\ NewAccumulator \in Nat \ {0}
           /\ NewAccumulator >= interestAccumulator
<1>1. /\ interestAccumulator \in Nat /\ params.interestRate \in Nat
      /\ now - lastInterestAccumulatorUpdated \in Nat
  BY DEF ConfigInv, InterestInv, ParamsType
<1>2. NewAccumulator \in Nat /\ NewAccumulator >= interestAccumulator
  BY <1>1, AccumulatorNeverDecreases DEF NewAccumulator
<1> QED
  BY <1>1, <1>2 DEF InterestInv

LEMMA InterestAccruedIsNat ==
    ASSUME ConfigInv, InterestInv, DebtsInv
    PROVE  InterestAccrued \in Nat
<1>1. NewAccumulator - interestAccumulator \in Nat
  BY NewAccumulatorGrows DEF InterestInv
<1>2. totalNormalizedDebt * (NewAccumulator - interestAccumulator) \in Nat
  BY <1>1, TotalIsNat, ProductIsNat
<1> QED
  BY <1>2, DivisionIsNat, BasesAssumption DEF InterestAccrued

LEMMA AccrualKeepsInterest ==
    ASSUME ConfigInv, InterestInv, DebtsInv, now' = now,
           NEW income \in Nat, AccrueAndEarn(income)
    PROVE  InterestInv'
<1>1. surplus' \in Nat
  BY InterestAccruedIsNat DEF AccrueAndEarn, InterestInv
<1>2. lastInterestAccumulatorUpdated' \in 0..now'
  BY DEF AccrueAndEarn, ConfigInv
<1>3. interestAccumulator' \in Nat \ {0}
  BY NewAccumulatorGrows DEF AccrueAndEarn
<1> QED
  BY <1>1, <1>2, <1>3 DEF InterestInv

LEMMA AccrualOnceKeepsInterest ==
    ASSUME ConfigInv, InterestInv, DebtsInv, now' = now,
           NEW income \in Nat, AccrueOnce(income)
    PROVE  InterestInv'
<1>1. CASE tx.acc = 0
  <2>1. AccrueAndEarn(income)
    BY <1>1 DEF AccrueOnce
  <2> QED
    BY <2>1, AccrualKeepsInterest
<1>2. CASE tx.acc # 0
  BY <1>2 DEF AccrueOnce, InterestInv, accrualVars
<1> QED
  BY <1>1, <1>2

LEMMA AccIsPositive ==
    ASSUME ConfigInv, InterestInv, TxInv
    PROVE  Acc \in Nat \ {0}
  BY NewAccumulatorGrows DEF Acc, TxInv, TxType

\* What an action may change in the memory of its call.
CallChanges(c) ==
    /\ DOMAIN c \subseteq {"phase", "acc", "stableToGive", "stableToReceive",
                           "collateralToGive", "collateralToReceive"}
    /\ "phase" \in DOMAIN c => c.phase \in {"running", "callback"}
    /\ "acc" \in DOMAIN c => c.acc \in Nat
    /\ "stableToGive" \in DOMAIN c => c.stableToGive \in Nat
    /\ "stableToReceive" \in DOMAIN c => c.stableToReceive \in Nat
    /\ "collateralToGive" \in DOMAIN c => c.collateralToGive \in Nat
    /\ "collateralToReceive" \in DOMAIN c => c.collateralToReceive \in Nat

LEMMA ProceedKeepsCall ==
    ASSUME TxInv, SavedInv, now' = now, NEW c, CallChanges(c), Proceed(c)
    PROVE  TxInv' /\ SavedInv'
<1>1. DOMAIN tx = {"phase", "call", "sender", "acc", "actions", "stableToGive",
                   "stableToReceive", "collateralToGive", "collateralToReceive", "badDebt"}
  BY DEF TxInv, TxType
<1>2. tx' = [f \in DOMAIN tx |->
                 IF f = "actions" THEN tx.actions + 1
                 ELSE IF f \in DOMAIN c THEN c[f] ELSE tx[f]]
  BY DEF Proceed
<1>3. tx.phase = "running" /\ UNCHANGED saved
  BY DEF Proceed
<1>4. tx'.phase \in {"running", "callback"}
  BY <1>1, <1>2, <1>3 DEF CallChanges
<1>5. tx' \in TxType
  <2>1. /\ tx'.call \in {"none", "angle", "liquidate"} /\ tx'.sender \in Addresses
        /\ tx'.acc \in Nat /\ tx'.actions \in Nat /\ tx'.badDebt \in Nat
    BY <1>1, <1>2 DEF TxInv, TxType, CallChanges
  <2>2. /\ tx'.stableToGive \in Nat /\ tx'.stableToReceive \in Nat
        /\ tx'.collateralToGive \in Nat /\ tx'.collateralToReceive \in Nat
    BY <1>1, <1>2 DEF TxInv, TxType, CallChanges
  <2> QED
    BY <1>1, <1>2, <1>4, <2>1, <2>2 DEF TxType
<1>6. ~Idle /\ ~Idle'
  BY <1>3, <1>4 DEF Idle
<1> QED
  BY <1>3, <1>4, <1>5, <1>6 DEF TxInv, SavedInv

-----------------------------------------------------------------------------
\* The actions of angle()

LEMMA MintKeepsTypes ==
    ASSUME NFTTypeOK, NEW to \in Users, Mint(to)
    PROVE  NFTTypeOK'
<1>1. Incremented(balances[to]) \in 0..MaxBalance
  BY OwnershipAssumption DEF Incremented, NFTTypeOK
<1> QED
  BY <1>1, OwnershipAssumption DEF Mint, NFTTypeOK, Addresses, VaultIDs

LEMMA BurnKeepsTypes ==
    ASSUME NFTTypeOK, NEW v, Burn(v)
    PROVE  NFTTypeOK'
<1>1. v \in VaultIDs /\ owners[v] \in Users
  BY DEF Burn, Exists, NFTTypeOK, Addresses
<1>2. Decremented(balances[owners[v]]) \in 0..MaxBalance
  BY <1>1, OwnershipAssumption DEF Decremented, NFTTypeOK
<1> QED
  BY <1>1, <1>2 DEF Burn, NFTTypeOK, Addresses

LEMMA CreateVaultInCallKeepsLedger ==
    ASSUME ConfigInv, LedgerInv, NEW to \in Users, CreateVaultInCall(to)
    PROVE  LedgerInv'
<1> USE DEF LedgerInv, CreateVaultInCall
<1>1. NFTTypeOK'
  BY MintKeepsTypes
<1>2. DebtsInv' /\ InterestInv' /\ MoneyInv'
  BY DEF DebtsInv, InterestInv, MoneyInv, debtVars, accrualVars, moneyVars, worldVars
<1>3. TxInv' /\ SavedInv'
  <2> DEFINE c == [phase |-> IF to \in Contracts THEN "callback" ELSE "running"]
  <2>1. CallChanges(c)
    BY DEF CallChanges
  <2> QED
    BY <2>1, ProceedKeepsCall DEF worldVars
<1> QED
  BY <1>1, <1>2, <1>3

LEMMA AddCollateralKeepsLedger ==
    ASSUME ConfigInv, LedgerInv, NEW v, NEW amount \in Nat, AddCollateral(v, amount)
    PROVE  LedgerInv'
<1> USE DEF LedgerInv, AddCollateral
<1>1. v \in VaultIDs /\ vaultData[v] \in VaultType
  BY DEF Exists, DebtsInv
<1>2. DebtsInv'
  <2> DEFINE vault == [vaultData[v] EXCEPT !.collateralAmount = @ + amount]
  <2>1. /\ vault \in VaultType /\ vault.normalizedDebt = vaultData[v].normalizedDebt
        /\ vaultData[v].normalizedDebt \in Nat
    BY <1>1 DEF VaultType
  <2>2. vaultData' = [vaultData EXCEPT ![v] = vault]
    OBVIOUS
  <2>3. totalNormalizedDebt' =
           totalNormalizedDebt - vaultData[v].normalizedDebt + vault.normalizedDebt
    BY <2>1, TotalIsNat
  <2> HIDE DEF vault
  <2> QED
    BY <1>1, <2>1, <2>2, <2>3, VaultUpdateKeepsDebts
<1>3. InterestInv' /\ MoneyInv' /\ NFTTypeOK'
  BY DEF InterestInv, MoneyInv, NFTTypeOK, nftVars, accrualVars, moneyVars, worldVars
<1>4. TxInv' /\ SavedInv'
  <2> DEFINE c == [collateralToReceive |-> tx.collateralToReceive + amount]
  <2>1. CallChanges(c)
    BY DEF CallChanges, TxInv, TxType
  <2> QED
    BY <2>1, ProceedKeepsCall DEF worldVars
<1> QED
  BY <1>2, <1>3, <1>4

LEMMA RemoveCollateralKeepsLedger ==
    ASSUME ConfigInv, LedgerInv, NEW v, NEW amount \in Nat, RemoveCollateral(v, amount)
    PROVE  LedgerInv'
<1> USE DEF LedgerInv, RemoveCollateral
<1>1. v \in VaultIDs /\ vaultData[v] \in VaultType
  BY DEF IsApprovedOrOwner, Exists, DebtsInv
<1>2. DebtsInv'
  <2> DEFINE vault == [vaultData[v] EXCEPT !.collateralAmount = @ - amount]
  <2>1. /\ vault \in VaultType /\ vault.normalizedDebt = vaultData[v].normalizedDebt
        /\ vaultData[v].normalizedDebt \in Nat
    BY <1>1 DEF VaultType
  <2>2. vaultData' = [vaultData EXCEPT ![v] = vault]
    OBVIOUS
  <2>3. totalNormalizedDebt' =
           totalNormalizedDebt - vaultData[v].normalizedDebt + vault.normalizedDebt
    BY <2>1, TotalIsNat
  <2> HIDE DEF vault
  <2> QED
    BY <1>1, <2>1, <2>2, <2>3, VaultUpdateKeepsDebts
<1>3. InterestInv'
  BY AccrualOnceKeepsInterest DEF worldVars
<1>4. MoneyInv' /\ NFTTypeOK'
  BY DEF MoneyInv, NFTTypeOK, nftVars, moneyVars
<1>5. TxInv' /\ SavedInv'
  <2> DEFINE c == [acc |-> Acc, collateralToGive |-> tx.collateralToGive + amount]
  <2>1. CallChanges(c)
    BY AccIsPositive DEF CallChanges, TxInv, TxType
  <2> QED
    BY <2>1, ProceedKeepsCall DEF worldVars
<1> QED
  BY <1>2, <1>3, <1>4, <1>5

LEMMA IncreaseKeepsDebts ==
    ASSUME DebtsInv, NEW v \in VaultIDs, NEW change \in Nat,
           vaultData' = [vaultData EXCEPT ![v].normalizedDebt = @ + change],
           totalNormalizedDebt' = totalNormalizedDebt + change
    PROVE  DebtsInv'
<1> DEFINE vault == [vaultData[v] EXCEPT !.normalizedDebt = @ + change]
<1>1. /\ vault \in VaultType /\ vault.normalizedDebt = vaultData[v].normalizedDebt + change
      /\ vaultData[v].normalizedDebt \in Nat
  BY DEF VaultType, DebtsInv
<1>2. vaultData' = [vaultData EXCEPT ![v] = vault]
  BY DEF DebtsInv
<1>3. totalNormalizedDebt' =
         totalNormalizedDebt - vaultData[v].normalizedDebt + vault.normalizedDebt
  BY <1>1, TotalIsNat
<1> HIDE DEF vault
<1> QED
  BY <1>1, <1>2, <1>3, VaultUpdateKeepsDebts

LEMMA DecreaseKeepsDebts ==
    ASSUME DebtsInv, NEW v \in VaultIDs, NEW change \in 0..Debt(v),
           vaultData' = [vaultData EXCEPT ![v].normalizedDebt = @ - change],
           totalNormalizedDebt' = totalNormalizedDebt - change
    PROVE  DebtsInv'
<1> DEFINE vault == [vaultData[v] EXCEPT !.normalizedDebt = @ - change]
<1>1. /\ vault \in VaultType /\ vault.normalizedDebt = vaultData[v].normalizedDebt - change
      /\ vaultData[v].normalizedDebt \in Nat
  BY DEF VaultType, DebtsInv, Debt
<1>2. vaultData' = [vaultData EXCEPT ![v] = vault]
  BY DEF DebtsInv
<1>3. totalNormalizedDebt' =
         totalNormalizedDebt - vaultData[v].normalizedDebt + vault.normalizedDebt
  BY <1>1, TotalIsNat
<1> HIDE DEF vault
<1> QED
  BY <1>1, <1>2, <1>3, VaultUpdateKeepsDebts

LEMMA IssuedIsNat ==
    ASSUME ConfigInv, InterestInv, TxInv, NEW amount \in Nat
    PROVE  Normalized(amount, Acc) \in Nat /\ Issued(amount) \in Nat
<1>1. Acc \in Nat \ {0}
  BY AccIsPositive
<1>2. Normalized(amount, Acc) \in Nat
  BY <1>1, NormalizedIsNat
<1> QED
  BY <1>1, <1>2, DebtValueIsNat DEF Issued

LEMMA BorrowKeepsLedger ==
    ASSUME ConfigInv, LedgerInv, NEW v, NEW amount \in Nat, Borrow(v, amount)
    PROVE  LedgerInv'
<1> DEFINE fee == (params.borrowFee * Issued(amount)) \div BASE_PARAMS
<1> USE DEF LedgerInv, Borrow
<1>1. v \in VaultIDs
  BY DEF CanIncreaseDebt, IsApprovedOrOwner, Exists
<1>2. Normalized(amount, Acc) \in Nat /\ Issued(amount) \in Nat
  BY IssuedIsNat
<1>3. fee \in 0..Issued(amount)
  <2>1. params.borrowFee \in Nat /\ params.borrowFee <= BASE_PARAMS
    BY DEF ConfigInv, ParamsType, ParamsConsistent
  <2>2. (Issued(amount) * params.borrowFee) \div BASE_PARAMS \in 0..Issued(amount)
    BY <1>2, <2>1, FractionOf
  <2>3. params.borrowFee * Issued(amount) = Issued(amount) * params.borrowFee
    BY <1>2, <2>1
  <2> QED
    BY <2>2, <2>3
<1>4. DebtsInv'
  BY <1>1, <1>2, IncreaseKeepsDebts
<1>5. InterestInv'
  BY <1>2, <1>3, AccrualOnceKeepsInterest DEF worldVars
<1>6. MoneyInv' /\ NFTTypeOK'
  BY DEF MoneyInv, NFTTypeOK, nftVars, moneyVars
<1>7. TxInv' /\ SavedInv'
  <2> DEFINE c == [acc |-> Acc, stableToGive |-> tx.stableToGive + Issued(amount) - fee]
  <2>1. CallChanges(c)
    <3> HIDE DEF fee
    <3>1. c.stableToGive \in Nat /\ c.acc \in Nat
      BY <1>2, <1>3, AccIsPositive DEF TxInv, TxType
    <3> QED
      BY <3>1 DEF CallChanges
  <2> QED
    BY <2>1, ProceedKeepsCall DEF worldVars
<1> QED
  BY <1>4, <1>5, <1>6, <1>7

LEMMA RepayDebtKeepsLedger ==
    ASSUME ConfigInv, LedgerInv, NEW v \in VaultIDs, NEW amount \in Nat, RepayDebt(v, amount)
    PROVE  LedgerInv'
<1> DEFINE repaid == Repayment(Debt(v), amount, Acc)
           withFee == PlusRepayFee(repaid.stable, params)
<1> USE DEF LedgerInv, RepayDebt
<1>1. repaid.stable \in Nat /\ repaid.change \in 0..Debt(v)
  BY TotalIsNat, AccIsPositive, RepaymentWithinDebt
<1>2. withFee \in Nat /\ withFee >= repaid.stable
  BY <1>1, RepayFeeIsNat DEF ConfigInv, ParamsType
<1>3. DebtsInv'
  BY <1>1, DecreaseKeepsDebts
<1>4. InterestInv'
  <2>1. withFee - repaid.stable \in Nat
    BY <1>1, <1>2
  <2> QED
    BY <2>1, AccrualOnceKeepsInterest DEF worldVars
<1>5. MoneyInv' /\ NFTTypeOK'
  BY DEF MoneyInv, NFTTypeOK, nftVars, moneyVars
<1>6. TxInv' /\ SavedInv'
  <2> DEFINE c == [acc |-> Acc, stableToReceive |-> tx.stableToReceive + withFee]
  <2>1. CallChanges(c)
    <3> HIDE DEF withFee
    <3> QED
      BY <1>2, AccIsPositive DEF CallChanges, TxInv, TxType
  <2> QED
    BY <2>1, ProceedKeepsCall DEF worldVars
<1> QED
  BY <1>3, <1>4, <1>5, <1>6

LEMMA CloseVaultKeepsLedger ==
    ASSUME ConfigInv, LedgerInv, NEW v, CloseVault(v)
    PROVE  LedgerInv'
<1> DEFINE debt == DebtValue(Debt(v), Acc)
           withFee == PlusRepayFee(debt, params)
<1> USE DEF LedgerInv, CloseVault
<1>1. v \in VaultIDs
  BY DEF IsApprovedOrOwner, Exists
<1>2. debt \in Nat
  BY <1>1, TotalIsNat, AccIsPositive, DebtValueIsNat
<1>3. withFee \in Nat /\ withFee >= debt
  BY <1>2, RepayFeeIsNat DEF ConfigInv, ParamsType
<1>4. DebtsInv'
  <2>1. NoVault \in VaultType /\ NoVault.normalizedDebt = 0
    BY DEF NoVault, VaultType
  <2>2. totalNormalizedDebt' =
           totalNormalizedDebt - vaultData[v].normalizedDebt + NoVault.normalizedDebt
    BY <1>1, <2>1, TotalIsNat DEF Debt
  <2> QED
    BY <1>1, <2>1, <2>2, VaultUpdateKeepsDebts
<1>5. InterestInv'
  <2>1. withFee - debt \in Nat
    BY <1>2, <1>3
  <2> QED
    BY <2>1, AccrualOnceKeepsInterest DEF worldVars
<1>6. MoneyInv'
  BY DEF MoneyInv, moneyVars
<1>7. NFTTypeOK'
  BY BurnKeepsTypes
<1>8. TxInv' /\ SavedInv'
  <2> DEFINE c == [acc |-> Acc,
                   stableToReceive |-> tx.stableToReceive + withFee,
                   collateralToGive |-> tx.collateralToGive + vaultData[v].collateralAmount]
  <2>1. CallChanges(c)
    <3>1. vaultData[v].collateralAmount \in Nat
      BY <1>1 DEF DebtsInv, VaultType
    <3> HIDE DEF withFee
    <3> QED
      BY <1>3, <3>1, AccIsPositive DEF CallChanges, TxInv, TxType
  <2> QED
    BY <2>1, ProceedKeepsCall DEF worldVars
<1> QED
  BY <1>4, <1>5, <1>6, <1>7, <1>8

LEMMA GetDebtInLocalKeepsLedger ==
    ASSUME ConfigInv, LedgerInv, NEW src, NEW dst \in VaultIDs, NEW amount \in Nat,
           GetDebtInLocal(src, dst, amount)
    PROVE  LedgerInv'
<1> DEFINE n == Normalized(amount, Acc)
           indebted == [vaultData EXCEPT ![src].normalizedDebt = @ + n]
           repaid == Repayment(indebted[dst].normalizedDebt, Issued(amount), Acc)
<1> USE DEF LedgerInv, GetDebtInLocal
<1>1. src \in VaultIDs
  BY DEF CanIncreaseDebt, IsApprovedOrOwner, Exists
<1>2. n \in Nat /\ Issued(amount) \in Nat /\ Acc \in Nat \ {0}
  BY IssuedIsNat, AccIsPositive
<1>3. /\ indebted \in [VaultIDs -> VaultType]
      /\ Counted(DebtOf(indebted), totalNormalizedDebt + n)
  <2> DEFINE vault == [vaultData[src] EXCEPT !.normalizedDebt = @ + n]
  <2>1. /\ vault \in VaultType /\ vault.normalizedDebt = vaultData[src].normalizedDebt + n
        /\ vaultData[src].normalizedDebt \in Nat
    BY <1>1, <1>2 DEF VaultType, DebtsInv
  <2>2. indebted = [vaultData EXCEPT ![src] = vault]
    BY <1>1 DEF DebtsInv
  <2>3. totalNormalizedDebt + n =
           totalNormalizedDebt - vaultData[src].normalizedDebt + vault.normalizedDebt
    BY <1>2, <2>1, TotalIsNat
  <2> HIDE DEF vault, n, indebted
  <2>4. Counted(DebtOf([vaultData EXCEPT ![src] = vault]),
                totalNormalizedDebt - vaultData[src].normalizedDebt + vault.normalizedDebt)
    BY <1>1, <2>1, DebtUpdate DEF DebtsInv
  <2> QED
    BY <1>1, <2>1, <2>2, <2>3, <2>4 DEF DebtsInv
<1>4. /\ indebted[dst] \in VaultType
      /\ repaid.change \in 0..indebted[dst].normalizedDebt
  <2>1. indebted[dst] \in VaultType
    BY <1>3
  <2>2. indebted[dst].normalizedDebt \in Nat
    BY <2>1 DEF VaultType
  <2> HIDE DEF indebted
  <2> QED
    BY <1>2, <2>1, <2>2, RepaymentWithinDebt
<1>5. DebtsInv'
  <2> DEFINE vault == [indebted[dst] EXCEPT !.normalizedDebt = @ - repaid.change]
  <2>1. /\ vaultData' = [indebted EXCEPT ![dst].normalizedDebt = @ - repaid.change]
        /\ totalNormalizedDebt' = totalNormalizedDebt + n - repaid.change
    OBVIOUS
  <2> HIDE DEF indebted, repaid, n
  <2>2. /\ vault \in VaultType
        /\ vault.normalizedDebt = indebted[dst].normalizedDebt - repaid.change
        /\ indebted[dst].normalizedDebt \in Nat
    BY <1>4 DEF VaultType
  <2>3. vaultData' = [indebted EXCEPT ![dst] = vault]
    BY <1>3, <2>1
  <2>4. totalNormalizedDebt' =
           (totalNormalizedDebt + n) - indebted[dst].normalizedDebt + vault.normalizedDebt
    BY <1>2, <1>4, <2>1, <2>2, TotalIsNat
  <2> HIDE DEF vault
  <2>5. Counted(DebtOf([indebted EXCEPT ![dst] = vault]),
                (totalNormalizedDebt + n) - indebted[dst].normalizedDebt
                   + vault.normalizedDebt)
    BY <1>3, <2>2, DebtUpdate
  <2> QED
    BY <1>3, <2>2, <2>3, <2>4, <2>5 DEF DebtsInv
<1>6. InterestInv'
  BY AccrualOnceKeepsInterest DEF worldVars
<1>7. MoneyInv' /\ NFTTypeOK'
  BY DEF MoneyInv, NFTTypeOK, nftVars, moneyVars
<1>8. TxInv' /\ SavedInv'
  <2>1. CallChanges([acc |-> Acc])
    BY <1>2 DEF CallChanges
  <2> QED
    BY <2>1, ProceedKeepsCall DEF worldVars
<1> QED
  BY <1>5, <1>6, <1>7, <1>8

LEMMA GetDebtInRemoteKeepsLedger ==
    ASSUME ConfigInv, LedgerInv, NEW src, NEW amount \in Nat, NEW fake \in BOOLEAN,
           GetDebtInRemote(src, amount, fake)
    PROVE  LedgerInv'
<1> USE DEF LedgerInv, GetDebtInRemote
<1>1. src \in VaultIDs
  BY DEF CanIncreaseDebt, IsApprovedOrOwner, Exists
<1>2. Normalized(amount, Acc) \in Nat /\ Issued(amount) \in Nat /\ Acc \in Nat
  BY IssuedIsNat, AccIsPositive
<1>3. DebtsInv'
  BY <1>1, <1>2, IncreaseKeepsDebts
<1>4. InterestInv'
  BY AccrualOnceKeepsInterest DEF worldVars
<1>5. MoneyInv' /\ NFTTypeOK'
  BY <1>2 DEF MoneyInv, NFTTypeOK, nftVars, moneyVars
<1>6. TxInv' /\ SavedInv'
  <2>1. CallChanges([acc |-> Acc, phase |-> IF fake THEN "callback" ELSE "running"])
    BY <1>2 DEF CallChanges
  <2> QED
    BY <2>1, ProceedKeepsCall DEF worldVars
<1> QED
  BY <1>3, <1>4, <1>5, <1>6

LEMMA AngleStepKeepsLedger ==
    ASSUME ConfigInv, LedgerInv, AngleStep
    PROVE  LedgerInv'
<1>1. StableAmounts \subseteq Nat /\ CollateralAmounts \subseteq Nat
  BY ConfigAssumption
<1>2. CASE \E to \in Users : CreateVaultInCall(to)
  BY <1>2, CreateVaultInCallKeepsLedger
<1>3. CASE \E id \in CallIDs, amount \in CollateralAmounts :
              AddCollateral(VaultOf(id), amount) \/ RemoveCollateral(VaultOf(id), amount)
  BY <1>1, <1>3, AddCollateralKeepsLedger, RemoveCollateralKeepsLedger
<1>4. CASE \E id \in CallIDs, amount \in StableAmounts :
              VaultOf(id) \in VaultIDs /\ RepayDebt(VaultOf(id), amount)
  BY <1>1, <1>4, RepayDebtKeepsLedger
<1>5. CASE \E id \in CallIDs, amount \in StableAmounts : Borrow(VaultOf(id), amount)
  BY <1>1, <1>5, BorrowKeepsLedger
<1>6. CASE \E id \in CallIDs : CloseVault(VaultOf(id))
  BY <1>6, CloseVaultKeepsLedger
<1>7. CASE \E id \in CallIDs, dst \in VaultIDs, amount \in StableAmounts :
              GetDebtInLocal(VaultOf(id), dst, amount)
  BY <1>1, <1>7, GetDebtInLocalKeepsLedger
<1>8. CASE \E id \in CallIDs, amount \in StableAmounts, fake \in BOOLEAN :
              GetDebtInRemote(VaultOf(id), amount, fake)
  BY <1>1, <1>8, GetDebtInRemoteKeepsLedger
<1> QED
  BY <1>2, <1>3, <1>4, <1>5, <1>6, <1>7, <1>8 DEF AngleStep

-----------------------------------------------------------------------------
\* Calls: their beginning, their settlement, their rollback

LEMMA BeginKeepsCall ==
    ASSUME ConfigInv, LedgerInv, now' = now,
           NEW call \in {"angle", "liquidate"}, NEW sender \in Users, NEW acc \in Nat,
           call = "liquidate" => acc # 0, Begin(call, sender, acc)
    PROVE  TxInv' /\ SavedInv'
<1> USE DEF LedgerInv, Begin
<1>1. tx' = [NoTx EXCEPT !.phase = IF call = "angle" THEN "running" ELSE "liquidating",
                         !.call = call, !.sender = sender, !.acc = acc]
  OBVIOUS
<1>2. TxInv'
  <2> DEFINE phase == IF call = "angle" THEN "running" ELSE "liquidating"
  <2>1. phase \in {"running", "liquidating"} /\ (phase = "liquidating" => acc # 0)
    OBVIOUS
  <2>2. sender \in Addresses
    BY DEF Addresses
  <2> HIDE DEF phase
  <2>3. tx' = [phase |-> phase, call |-> call, sender |-> sender, acc |-> acc, actions |-> 0,
               stableToGive |-> 0, stableToReceive |-> 0,
               collateralToGive |-> 0, collateralToReceive |-> 0, badDebt |-> 0]
    BY <1>1 DEF NoTx, phase
  <2> QED
    BY <2>1, <2>2, <2>3 DEF TxInv, TxType
<1>3. ~Idle'
  BY <1>1 DEF Idle, NoTx
<1>4. saved' = Snapshot
  OBVIOUS
<1>5. Snapshot \in SnapshotType
  <2>1. totalNormalizedDebt \in Nat
    BY TotalIsNat
  <2> QED
    BY <2>1 DEF Snapshot, SnapshotType, NFTTypeOK, DebtsInv, InterestInv, MoneyInv, ConfigInv
<1>6. /\ Counted(DebtOf(Snapshot.vaultData), Snapshot.totalNormalizedDebt)
      /\ Snapshot.interestAccumulator # 0
      /\ Snapshot.lastInterestAccumulatorUpdated <= now
  BY DEF Snapshot, DebtsInv, InterestInv, ConfigInv
<1> QED
  BY <1>2, <1>3, <1>4, <1>5, <1>6 DEF SavedInv

LEMMA BeginAngleKeepsLedger ==
    ASSUME ConfigInv, LedgerInv, NEW sender \in Users, BeginAngle(sender)
    PROVE  LedgerInv'
<1> USE DEF LedgerInv, BeginAngle
<1>1. DebtsInv' /\ InterestInv' /\ MoneyInv' /\ NFTTypeOK'
  BY DEF DebtsInv, InterestInv, MoneyInv, NFTTypeOK,
         debtVars, accrualVars, moneyVars, worldVars, nftVars
<1>2. TxInv' /\ SavedInv'
  BY BeginKeepsCall DEF worldVars
<1> QED
  BY <1>1, <1>2

LEMMA BeginLiquidationKeepsLedger ==
    ASSUME ConfigInv, LedgerInv, NEW sender \in Users, NEW to \in Users,
           BeginLiquidation(sender, to)
    PROVE  LedgerInv'
<1> USE DEF LedgerInv, BeginLiquidation
<1>1. DebtsInv' /\ MoneyInv' /\ NFTTypeOK'
  BY DEF DebtsInv, MoneyInv, NFTTypeOK, debtVars, moneyVars, nftVars
<1>2. InterestInv'
  BY AccrualKeepsInterest DEF worldVars
<1>3. TxInv' /\ SavedInv'
  BY BeginKeepsCall, NewAccumulatorGrows DEF worldVars
<1> QED
  BY <1>1, <1>2, <1>3

LEMMA CallbackReturnsKeepsLedger ==
    ASSUME ConfigInv, LedgerInv, CallbackReturns
    PROVE  LedgerInv'
<1> USE DEF LedgerInv, CallbackReturns
<1>1. DebtsInv' /\ InterestInv' /\ MoneyInv' /\ NFTTypeOK'
  BY DEF DebtsInv, InterestInv, MoneyInv, NFTTypeOK,
         debtVars, accrualVars, moneyVars, worldVars, nftVars
<1>2. TxInv' /\ SavedInv'
  BY DEF TxInv, TxType, SavedInv, Idle, worldVars
<1> QED
  BY <1>1, <1>2

LEMMA ExcessIsNat ==
    ASSUME NEW a \in Nat, NEW b \in Nat
    PROVE  Excess(a, b) \in Nat /\ Excess(a, b) - Excess(b, a) = a - b
  BY DEF Excess

LEMMA PayOutKeepsCall ==
    ASSUME LedgerInv, now' = now, tx.phase \in {"running", "liquidating"},
           UNCHANGED <<saved, treasury, foreignDebt>>, badDebt' \in Nat,
           NEW swap \in BOOLEAN, PayOut(swap)
    PROVE  MoneyInv' /\ TxInv' /\ SavedInv'
<1> USE DEF LedgerInv
<1>1. /\ StableOut \in Nat /\ StableIn \in Nat
      /\ CollateralOut \in Nat /\ CollateralIn \in Nat
  BY ExcessIsNat DEF StableOut, StableIn, CollateralOut, CollateralIn, TxInv, TxType
<1>2. MoneyInv'
  BY <1>1 DEF PayOut, MoneyInv
<1>3. TxInv' /\ tx'.phase \in {"swap", "paying"}
  BY <1>1 DEF PayOut, TxInv, TxType
<1>4. SavedInv'
  BY <1>3 DEF SavedInv, Idle
<1> QED
  BY <1>2, <1>3, <1>4

LEMMA EndAngleKeepsLedger ==
    ASSUME ConfigInv, LedgerInv, NEW swap \in BOOLEAN, EndAngle(swap)
    PROVE  LedgerInv'
<1> USE DEF EndAngle
<1>1. DebtsInv' /\ InterestInv' /\ NFTTypeOK'
  BY DEF LedgerInv, DebtsInv, InterestInv, NFTTypeOK, debtVars, accrualVars, worldVars, nftVars
<1>2. badDebt' \in Nat
  BY DEF LedgerInv, MoneyInv
<1>3. MoneyInv' /\ TxInv' /\ SavedInv'
  BY <1>2, PayOutKeepsCall DEF worldVars
<1> QED
  BY <1>1, <1>3 DEF LedgerInv

LEMMA EndLiquidationKeepsLedger ==
    ASSUME ConfigInv, LedgerInv, NEW swap \in BOOLEAN, EndLiquidation(swap)
    PROVE  LedgerInv'
<1> DEFINE fee == (tx.stableToReceive
                     * (BASE_PARAMS - params.liquidationSurcharge)) \div BASE_PARAMS
<1> USE DEF EndLiquidation
<1>1. DebtsInv' /\ NFTTypeOK'
  BY DEF LedgerInv, DebtsInv, NFTTypeOK, debtVars, nftVars
<1>2. fee \in Nat
  <2>1. BASE_PARAMS - params.liquidationSurcharge \in 0..BASE_PARAMS
    BY BasesAssumption DEF ConfigInv, ParamsType, ParamsConsistent
  <2>2. tx.stableToReceive \in Nat
    BY DEF LedgerInv, TxInv, TxType
  <2> QED
    BY <2>1, <2>2, FractionOf, BasesAssumption
<1>3. InterestInv'
  BY <1>2 DEF LedgerInv, InterestInv, accrualVars, worldVars
<1>4. badDebt' \in Nat
  BY DEF LedgerInv, MoneyInv, TxInv, TxType
<1>5. MoneyInv' /\ TxInv' /\ SavedInv'
  BY <1>4, PayOutKeepsCall DEF worldVars
<1> QED
  BY <1>1, <1>3, <1>5 DEF LedgerInv

LEMMA CollectKeepsLedger ==
    ASSUME ConfigInv, LedgerInv, Collect
    PROVE  LedgerInv'
<1> USE DEF LedgerInv, Collect
<1>1. DebtsInv' /\ InterestInv' /\ NFTTypeOK'
  BY DEF DebtsInv, InterestInv, NFTTypeOK, debtVars, accrualVars, worldVars, nftVars
<1>2. MoneyInv'
  BY DEF MoneyInv, TxInv, TxType
<1>3. TxInv' /\ SavedInv'
  BY DEF TxInv, TxType, SavedInv, Idle, NoTx, Addresses
<1> QED
  BY <1>1, <1>2, <1>3

LEMMA RevertKeepsLedger ==
    ASSUME ConfigInv, LedgerInv, Revert
    PROVE  LedgerInv'
<1> USE DEF LedgerInv, Revert
<1>1. /\ saved \in SnapshotType
      /\ Counted(DebtOf(saved.vaultData), saved.totalNormalizedDebt)
      /\ saved.interestAccumulator # 0
      /\ saved.lastInterestAccumulatorUpdated <= now
  BY DEF SavedInv
<1>2. DebtsInv'
  BY <1>1 DEF DebtsInv, SnapshotType
<1>3. InterestInv'
  BY <1>1 DEF InterestInv, SnapshotType, worldVars, ConfigInv
<1>4. MoneyInv' /\ NFTTypeOK'
  BY <1>1 DEF MoneyInv, NFTTypeOK, SnapshotType
<1>5. TxInv' /\ SavedInv'
  BY DEF TxInv, TxType, SavedInv, Idle, NoTx, Addresses
<1> QED
  BY <1>2, <1>3, <1>4, <1>5

-----------------------------------------------------------------------------
\* liquidate()

LEMMA ReimbursedIsNat ==
    ASSUME ConfigInv, NEW paid \in Nat
    PROVE  Reimbursed(paid) \in Nat
<1>1. params.liquidationSurcharge \in Nat /\ params.liquidationSurcharge <= BASE_PARAMS
  BY BasesAssumption DEF ConfigInv, ParamsType, ParamsConsistent
<1>2. (paid * params.liquidationSurcharge) \div BASE_PARAMS \in 0..paid
  BY <1>1, FractionOf
<1> QED
  BY <1>2 DEF Reimbursed

\* The amounts of a liquidation once a vault has been liquidated.
LiquidatorData(collateral, stable, loss) ==
    [tx EXCEPT !.actions = @ + 1,
               !.collateralToGive = @ + collateral,
               !.stableToReceive = @ + stable,
               !.badDebt = @ + loss]

LEMMA LiquidatorDataGrows ==
    ASSUME TxInv, NEW collateral \in Nat, NEW stable \in Nat, NEW loss \in Nat,
           tx' = LiquidatorData(collateral, stable, loss)
    PROVE  TxInv' /\ tx'.phase = tx.phase
<1> USE DEF LiquidatorData
<1>1. /\ tx.actions + 1 \in Nat /\ tx.collateralToGive + collateral \in Nat
      /\ tx.stableToReceive + stable \in Nat /\ tx.badDebt + loss \in Nat
  BY DEF TxInv, TxType
<1>2. tx' \in TxType
  BY <1>1 DEF TxInv, TxType
<1>3. tx'.phase = tx.phase /\ tx'.acc = tx.acc
  BY DEF TxInv, TxType
<1> QED
  BY <1>2, <1>3 DEF TxInv

\* What a liquidator pays and what it is given are amounts.
LEMMA LiquidationAmounts ==
    ASSUME ConfigInv, DebtsInv, TxInv, NEW v \in VaultIDs, NEW amount \in Nat,
           Liquidable(vaultData[v], oracleValue, tx.acc, params),
           OfferDefined(vaultData[v], oracleValue, tx.acc, params)
    PROVE  LET offer == LiquidationOffer(vaultData[v], oracleValue, tx.acc, params)
               paid == LiquidationPayment(amount, offer)
           IN /\ paid \in Nat
              /\ CollateralReleased(paid, vaultData[v], oracleValue, tx.acc, params) \in Nat
<1> DEFINE offer == LiquidationOffer(vaultData[v], oracleValue, tx.acc, params)
           paid == LiquidationPayment(amount, offer)
           discount == LiquidationDiscount(vaultData[v], oracleValue, tx.acc, params)
<1>1. vaultData[v] \in VaultType /\ tx.acc \in Nat /\ oracleValue \in Nat \ {0}
  BY ConfigAssumption DEF DebtsInv, TxInv, TxType, ConfigInv
<1>2. LiquidationParams(params)
  BY BasesAssumption DEF LiquidationParams, ConfigInv, ParamsType, ParamsConsistent
<1>3. offer.maxRepay \in Nat /\ offer.threshold \in Nat
  BY <1>1, <1>2, OfferIsNat
<1>4. paid \in Nat
  <2> HIDE DEF offer
  <2> QED
    BY <1>3 DEF LiquidationPayment
<1>5. discount * oracleValue \in Nat \ {0}
  <2>1. discount \in Nat
    BY <1>1, <1>2, DiscountIsFraction, BasesAssumption
  <2>2. discount * oracleValue # 0
    BY DEF OfferDefined
  <2> HIDE DEF discount
  <2> QED
    BY <1>1, <2>1, <2>2, ProductIsNat
<1>6. CollateralReleased(paid, vaultData[v], oracleValue, tx.acc, params) \in Nat
  <2> HIDE DEF paid
  <2>1. paid * BASE_PARAMS * CollatBase \in Nat
    BY <1>4, BasesAssumption, ProductIsNat
  <2> QED
    BY <1>5, <2>1, DivisionIsNat DEF CollateralReleased, discount
<1> QED
  BY <1>4, <1>6

LEMMA SeizeVaultKeepsLedger ==
    ASSUME ConfigInv, LedgerInv, tx.phase = "liquidating",
           NEW v \in VaultIDs, NEW paid \in Nat, SeizeVault(v, paid)
    PROVE  /\ DebtsInv' /\ TxInv'
           /\ tx'.phase = "liquidating"
<1> DEFINE debt == DebtValue(Debt(v), tx.acc)
           loss == Excess(debt, Reimbursed(paid))
<1> USE DEF LedgerInv, SeizeVault
<1>1. vaultData[v] \in VaultType /\ Debt(v) = vaultData[v].normalizedDebt
  BY DEF DebtsInv, Debt
<1>2. DebtsInv'
  <2>1. NoVault \in VaultType /\ NoVault.normalizedDebt = 0
    BY DEF NoVault, VaultType
  <2>2. totalNormalizedDebt' =
           totalNormalizedDebt - vaultData[v].normalizedDebt + NoVault.normalizedDebt
    BY <1>1, <2>1, TotalIsNat
  <2> QED
    BY <2>1, <2>2, VaultUpdateKeepsDebts
<1>3. loss \in Nat
  <2>1. debt \in Nat
    BY TotalIsNat, DebtValueIsNat DEF TxInv, TxType
  <2> QED
    BY <2>1, ReimbursedIsNat, ExcessIsNat
<1>4. TxInv' /\ tx'.phase = "liquidating"
  <2>1. vaultData[v].collateralAmount \in Nat
    BY <1>1 DEF VaultType
  <2>2. tx' = LiquidatorData(vaultData[v].collateralAmount, paid, loss)
    BY DEF LiquidatorData
  <2> HIDE DEF loss
  <2> QED
    BY <1>3, <2>1, <2>2, LiquidatorDataGrows
<1> QED
  BY <1>2, <1>4

LEMMA SellCollateralKeepsLedger ==
    ASSUME ConfigInv, LedgerInv, tx.phase = "liquidating",
           NEW v \in VaultIDs, NEW paid \in Nat,
           NEW released \in 0..vaultData[v].collateralAmount,
           SellCollateral(v, paid, released)
    PROVE  /\ DebtsInv' /\ TxInv'
           /\ tx'.phase = "liquidating"
<1> DEFINE repaid == Repayment(Debt(v), Reimbursed(paid), tx.acc)
           vault == [vaultData[v] EXCEPT !.collateralAmount = @ - released,
                                         !.normalizedDebt = @ - repaid.change]
<1> USE DEF LedgerInv, SellCollateral
<1>1. vaultData[v] \in VaultType /\ Debt(v) = vaultData[v].normalizedDebt
  BY DEF DebtsInv, Debt
<1>2. repaid.change \in 0..Debt(v)
  <2>1. tx.acc \in Nat \ {0}
    BY DEF TxInv, TxType
  <2> QED
    BY <2>1, TotalIsNat, ReimbursedIsNat, RepaymentWithinDebt
<1>3. DebtsInv'
  <2>1. /\ totalNormalizedDebt' = totalNormalizedDebt - repaid.change
        /\ vaultData' = [vaultData EXCEPT ![v] = vault]
    BY DEF DebtsInv
  <2> HIDE DEF repaid
  <2>2. vault \in VaultType /\ vault.normalizedDebt = vaultData[v].normalizedDebt - repaid.change
    <3>1. /\ vaultData[v].collateralAmount - released \in Nat
          /\ vaultData[v].normalizedDebt - repaid.change \in Nat
      BY <1>1, <1>2 DEF VaultType
    <3>2. /\ vault.collateralAmount = vaultData[v].collateralAmount - released
          /\ vault.normalizedDebt = vaultData[v].normalizedDebt - repaid.change
      BY <1>1 DEF VaultType
    <3> QED
      BY <1>1, <3>1, <3>2 DEF VaultType
  <2>3. totalNormalizedDebt' =
           totalNormalizedDebt - vaultData[v].normalizedDebt + vault.normalizedDebt
    BY <1>1, <1>2, <2>1, <2>2, TotalIsNat
  <2> HIDE DEF vault
  <2> QED
    BY <2>1, <2>2, <2>3, VaultUpdateKeepsDebts
<1>4. TxInv' /\ tx'.phase = "liquidating"
  <2>1. tx' = LiquidatorData(released, paid, 0)
    <3>1. tx' = [tx EXCEPT !.actions = @ + 1, !.collateralToGive = @ + released,
                           !.stableToReceive = @ + paid]
      OBVIOUS
    <3>2. tx.badDebt + 0 = tx.badDebt
      BY DEF TxInv, TxType
    <3> QED
      BY <3>1, <3>2 DEF LiquidatorData, TxInv, TxType
  <2>2. released \in Nat
    OBVIOUS
  <2> QED
    BY <2>1, <2>2, LiquidatorDataGrows
<1> QED
  BY <1>3, <1>4

LEMMA LiquidateVaultKeepsLedger ==
    ASSUME ConfigInv, LedgerInv, NEW v \in VaultIDs, NEW amount \in Nat,
           LiquidateVault(v, amount)
    PROVE  LedgerInv'
<1> DEFINE offer == LiquidationOffer(vaultData[v], oracleValue, tx.acc, params)
           paid  == LiquidationPayment(amount, offer)
           released == CollateralReleased(paid, vaultData[v], oracleValue, tx.acc, params)
<1>1. /\ tx.phase = "liquidating"
      /\ UNCHANGED <<accrualVars, surplus, badDebt, treasury, moneyVars, foreignDebt,
                     worldVars, nftVars, saved>>
      /\ IF vaultData[v].collateralAmount <= released
         THEN SeizeVault(v, paid) ELSE SellCollateral(v, paid, released)
  BY DEF LiquidateVault
<1>2. paid \in Nat /\ released \in Nat
  BY LiquidationAmounts DEF LiquidateVault, LedgerInv
<1>3. DebtsInv' /\ TxInv' /\ tx'.phase = "liquidating"
  <2> HIDE DEF paid, released
  <2>1. CASE vaultData[v].collateralAmount <= released
    BY <1>1, <1>2, <2>1, SeizeVaultKeepsLedger
  <2>2. CASE ~(vaultData[v].collateralAmount <= released)
    <3>1. released \in 0..vaultData[v].collateralAmount
      BY <1>2, <2>2 DEF LedgerInv, DebtsInv, VaultType
    <3> QED
      BY <1>1, <1>2, <2>2, <3>1, SellCollateralKeepsLedger
  <2> QED
    BY <2>1, <2>2
<1>4. InterestInv' /\ MoneyInv' /\ NFTTypeOK'
  BY <1>1 DEF LedgerInv, InterestInv, MoneyInv, NFTTypeOK, accrualVars, moneyVars, worldVars,
              nftVars
<1>5. SavedInv'
  BY <1>1, <1>3 DEF LedgerInv, SavedInv, Idle, worldVars
<1> QED
  BY <1>3, <1>4, <1>5 DEF LedgerInv

-----------------------------------------------------------------------------
\* What runs outside of a call, or inside its callbacks

LEMMA SameCall ==
    ASSUME TxInv, SavedInv, UNCHANGED <<tx, saved, now>>
    PROVE  TxInv' /\ SavedInv'
  BY DEF TxInv, SavedInv, Idle

LEMMA TransferOrApproveKeepsTypes ==
    ASSUME NFTTypeOK, TransferOrApprove
    PROVE  NFTTypeOK'
<1> USE DEF NFTTypeOK
<1>1. ASSUME NEW sender \in Users, NEW from \in Users, NEW to \in Users, NEW v \in VaultIDs,
             TransferFrom(sender, from, to, v)
      PROVE  NFTTypeOK'
  <2> DEFINE debited == [balances EXCEPT ![from] = Decremented(@)]
  <2>1. Decremented(balances[from]) \in 0..MaxBalance
    BY OwnershipAssumption DEF Decremented
  <2>2. debited \in [Users -> 0..MaxBalance]
    BY <2>1
  <2>3. balances' = [debited EXCEPT ![to] = Incremented(@)]
    BY <1>1 DEF TransferFrom
  <2> HIDE DEF debited
  <2>4. Incremented(debited[to]) \in 0..MaxBalance
    BY <2>2, OwnershipAssumption DEF Incremented
  <2>5. balances' \in [Users -> 0..MaxBalance]
    BY <2>2, <2>3, <2>4
  <2> QED
    BY <1>1, <2>5 DEF TransferFrom, Addresses
<1>2. ASSUME NEW sender \in Users, NEW to \in Addresses, NEW v \in VaultIDs,
             Approve(sender, to, v)
      PROVE  NFTTypeOK'
  BY <1>2 DEF Approve
<1>3. ASSUME NEW approver \in Users, NEW operator \in Users, NEW approved \in BOOLEAN,
             SetApprovalForAll(approver, operator, approved)
      PROVE  NFTTypeOK'
  BY <1>3 DEF SetApprovalForAll
<1> QED
  BY <1>1, <1>2, <1>3 DEF TransferOrApprove

LEMMA OwnershipStepsKeepLedger ==
    ASSUME ConfigInv, LedgerInv, (\E to \in Users : CreateVault(to)) \/ MoveOwnership
    PROVE  LedgerInv'
<1> USE DEF LedgerInv
<1>1. NFTTypeOK'
  BY MintKeepsTypes, TransferOrApproveKeepsTypes DEF CreateVault, MoveOwnership
<1>2. UNCHANGED <<debtVars, accrualVars, surplus, badDebt, treasury, moneyVars,
                  foreignDebt, worldVars, tx, saved>>
  BY DEF CreateVault, MoveOwnership
<1>3. DebtsInv' /\ InterestInv' /\ MoneyInv'
  BY <1>2 DEF DebtsInv, InterestInv, MoneyInv, debtVars, accrualVars, moneyVars, worldVars
<1>4. TxInv' /\ SavedInv'
  BY <1>2, SameCall DEF worldVars
<1> QED
  BY <1>1, <1>3, <1>4

\* What a debt moved in repays is at most what it adds where it comes from.
LEMMA LessFeesIsPart ==
    ASSUME ConfigInv, NEW amount \in Nat,
           NEW fees \in (0..BASE_PARAMS) \X (0..BASE_PARAMS)
    PROVE  LessFees(amount, fees) \in 0..amount
<1> DEFINE a == BASE_PARAMS - Excess(params.repayFee, fees[2])
           b == BASE_PARAMS - Excess(fees[1], params.borrowFee)
           base == BASE_PARAMS * BASE_PARAMS
           ab == a * b
<1>1. a \in 0..BASE_PARAMS /\ b \in 0..BASE_PARAMS /\ base \in Nat \ {0}
  BY BasesAssumption DEF Excess, ConfigInv, ParamsType, ParamsConsistent
<1>2. LessFees(amount, fees) = (amount * a * b) \div base
  BY DEF LessFees
<1> HIDE DEF a, b
<1>3. ab <= base /\ ab \in Nat
  <2>1. a * b <= a * BASE_PARAMS /\ BASE_PARAMS * a <= BASE_PARAMS * BASE_PARAMS
    BY <1>1, BasesAssumption, ProductMonotone
  <2>2. a * BASE_PARAMS = BASE_PARAMS * a /\ a * b \in Nat /\ a * BASE_PARAMS \in Nat
    BY <1>1, BasesAssumption
  <2> QED
    BY <2>1, <2>2, BasesAssumption
<1> HIDE DEF base
<1>4. amount * a * b = amount * ab
  BY <1>1
<1> HIDE DEF ab
<1>5. amount * ab <= amount * base /\ amount * ab \in Nat
  BY <1>1, <1>3, ProductMonotone, ProductIsNat
<1>6. LessFees(amount, fees) = (amount * ab) \div base
  BY <1>2, <1>4
<1> QED
  BY <1>1, <1>5, <1>6, DivisionIsNat, DivisionAtMost

LEMMA GetDebtOutKeepsLedger ==
    ASSUME ConfigInv, LedgerInv, NEW v \in VaultIDs, NEW amount \in Nat,
           NEW fees \in (0..BASE_PARAMS) \X (0..BASE_PARAMS), GetDebtOut(v, amount, fees)
    PROVE  LedgerInv'
<1> DEFINE lessFee == LessFees(amount, fees)
           repaid == Repayment(Debt(v), lessFee, NewAccumulator)
<1> USE DEF LedgerInv, GetDebtOut
<1>1. lessFee \in 0..amount
  BY LessFeesIsPart
<1>2. repaid.change \in 0..Debt(v)
  <2> HIDE DEF lessFee
  <2> QED
    BY <1>1, TotalIsNat, NewAccumulatorGrows, RepaymentWithinDebt
<1>3. DebtsInv'
  BY <1>2, DecreaseKeepsDebts
<1>4. InterestInv'
  <2>1. amount - lessFee \in Nat /\ AccrueAndEarn(amount - lessFee)
    BY <1>1
  <2> HIDE DEF lessFee
  <2> QED
    BY <2>1, AccrualKeepsInterest DEF worldVars
<1>5. MoneyInv' /\ NFTTypeOK'
  BY DEF MoneyInv, NFTTypeOK, moneyVars, nftVars
<1>6. TxInv' /\ SavedInv'
  BY SameCall DEF worldVars
<1> QED
  BY <1>3, <1>4, <1>5, <1>6

LEMMA AccrueInterestToTreasuryKeepsLedger ==
    ASSUME ConfigInv, LedgerInv, AccrueInterestToTreasury
    PROVE  LedgerInv'
<1> USE DEF LedgerInv, AccrueInterestToTreasury
<1>1. DebtsInv' /\ NFTTypeOK'
  BY DEF DebtsInv, NFTTypeOK, debtVars, nftVars
<1>2. InterestInv'
  BY NewAccumulatorGrows DEF InterestInv, ConfigInv, worldVars
<1>3. MoneyInv'
  <2> DEFINE earned == surplus + InterestAccrued
  <2>1. earned \in Nat /\ badDebt \in Nat
    BY InterestAccruedIsNat DEF InterestInv, MoneyInv
  <2>2. /\ badDebt' = 0 /\ UNCHANGED <<custody, circulating, foreignDebt>>
        /\ treasury' = [minted |-> treasury.minted + Excess(earned, badDebt),
                        badDebt |-> treasury.badDebt + Excess(badDebt, earned)]
    BY DEF moneyVars
  <2> HIDE DEF earned
  <2>3. Excess(earned, badDebt) \in Nat /\ Excess(badDebt, earned) \in Nat
    BY <2>1, ExcessIsNat
  <2>4. treasury.minted \in Nat /\ treasury.badDebt \in Nat
    BY DEF MoneyInv, TreasuryType
  <2>5. treasury' \in TreasuryType
    BY <2>2, <2>3, <2>4 DEF TreasuryType
  <2> QED
    BY <2>2, <2>5 DEF MoneyInv
<1>4. TxInv' /\ SavedInv'
  BY SameCall DEF worldVars
<1> QED
  BY <1>1, <1>2, <1>3, <1>4

-----------------------------------------------------------------------------
\* Governance, time and the market

LEMMA SetUint64KeepsLedger ==
    ASSUME ConfigInv, LedgerInv, NEW what, NEW value, SetUint64(what, value)
    PROVE  LedgerInv'
<1> USE DEF LedgerInv, SetUint64
<1>1. DebtsInv' /\ MoneyInv' /\ NFTTypeOK'
  BY DEF DebtsInv, MoneyInv, NFTTypeOK, debtVars, moneyVars, nftVars
<1>2. InterestInv'
  <2>1. CASE what = "IR"
    BY <2>1, AccrualKeepsInterest DEF worldVars
  <2>2. CASE what # "IR"
    BY <2>2 DEF InterestInv, accrualVars, worldVars
  <2> QED
    BY <2>1, <2>2
<1>3. TxInv' /\ SavedInv'
  BY SameCall DEF worldVars
<1> QED
  BY <1>1, <1>2, <1>3

LEMMA OthersKeepLedger ==
    ASSUME ConfigInv, LedgerInv,
           Administer \/ Tick \/ (\E price \in Prices : PriceMoves(price)) \/ UNCHANGED vars
    PROVE  LedgerInv'
<1> USE DEF LedgerInv
<1>1. /\ UNCHANGED <<debtVars, accrualVars, surplus, badDebt, treasury, moneyVars,
                     foreignDebt, tx, saved, nftVars>>
      /\ now' \in {now, now + 1}
  BY DEF Administer, Tick, PriceMoves, vars, worldVars
<1>2. DebtsInv' /\ InterestInv' /\ MoneyInv' /\ NFTTypeOK'
  BY <1>1 DEF ConfigInv, DebtsInv, InterestInv, MoneyInv, NFTTypeOK,
              debtVars, accrualVars, moneyVars, nftVars
<1>3. TxInv' /\ SavedInv'
  BY <1>1 DEF ConfigInv, TxInv, SavedInv, SnapshotType, Idle
<1> QED
  BY <1>2, <1>3

LEMMA LedgerInit == Init => LedgerInv
<1> SUFFICES ASSUME Init PROVE LedgerInv
  OBVIOUS
<1>1. PICK p \in InitialParams : Unused(Initialized(p))
  BY DEF Init
<1> USE <1>1 DEF Unused
<1>2. NFTTypeOK
  BY OwnershipInit DEF OwnershipInv
<1>3. DebtsInv
  <2>1. vaultData \in [VaultIDs -> VaultType]
    BY DEF VaultType, NoVault
  <2>2. /\ DebtOf(vaultData) \in [VaultIDs -> Nat]
        /\ \A v \in VaultIDs : DebtOf(vaultData)[v] = 0
    BY DEF DebtOf, NoVault
  <2>3. IsFiniteSet(UnitsOf(DebtOf(vaultData))) /\ TotalOf(DebtOf(vaultData)) = 0
    BY <2>2, TotalOfZero
  <2> QED
    BY <2>1, <2>3 DEF DebtsInv, Counted
<1>4. InterestInv
  BY BasesAssumption DEF InterestInv
<1>5. MoneyInv
  BY ConfigAssumption DEF MoneyInv, TreasuryType
<1>6. TxInv /\ SavedInv
  BY DEF TxInv, TxType, SavedInv, Idle, NoTx, Addresses
<1> QED
  BY <1>2, <1>3, <1>4, <1>5, <1>6 DEF LedgerInv

LEMMA LedgerStep == ConfigInv /\ LedgerInv /\ [Next]_vars => LedgerInv'
<1> SUFFICES ASSUME ConfigInv, LedgerInv, [Next]_vars PROVE LedgerInv'
  OBVIOUS
<1>1. StableAmounts \subseteq Nat /\ RemoteFees \subseteq (0..BASE_PARAMS) \X (0..BASE_PARAMS)
  BY ConfigAssumption
<1>2. CASE AngleStep
  BY <1>2, AngleStepKeepsLedger
<1>3. CASE \E sender \in Users : BeginAngle(sender)
  BY <1>3, BeginAngleKeepsLedger
<1>4. CASE CallbackReturns
  BY <1>4, CallbackReturnsKeepsLedger
<1>5. CASE \E swap \in BOOLEAN : EndAngle(swap)
  BY <1>5, EndAngleKeepsLedger
<1>6. CASE \E sender, to \in Users : BeginLiquidation(sender, to)
  BY <1>6, BeginLiquidationKeepsLedger
<1>7. CASE \E v \in VaultIDs, amount \in StableAmounts : LiquidateVault(v, amount)
  BY <1>1, <1>7, LiquidateVaultKeepsLedger
<1>8. CASE \E swap \in BOOLEAN : EndLiquidation(swap)
  BY <1>8, EndLiquidationKeepsLedger
<1>9. CASE Collect
  BY <1>9, CollectKeepsLedger
<1>10. CASE Revert
  BY <1>10, RevertKeepsLedger
<1>11. CASE (\E to \in Users : CreateVault(to)) \/ MoveOwnership
  BY <1>11, OwnershipStepsKeepLedger
<1>12. CASE \E v \in VaultIDs, amount \in StableAmounts, fees \in RemoteFees :
               GetDebtOut(v, amount, fees)
  BY <1>1, <1>12, GetDebtOutKeepsLedger
<1>13. CASE AccrueInterestToTreasury
  BY <1>13, AccrueInterestToTreasuryKeepsLedger
<1>14. CASE \E what \in ParamNames : \E value \in ParamChoices[what] :
               what \notin {"ceiling", "boost", "dusts"} /\ SetUint64(what, value)
  BY <1>14, SetUint64KeepsLedger
<1>15. CASE Administer \/ Tick \/ (\E price \in Prices : PriceMoves(price)) \/ UNCHANGED vars
  BY <1>15, OthersKeepLedger
<1> QED
  BY <1>2, <1>3, <1>4, <1>5, <1>6, <1>7, <1>8, <1>9, <1>10, <1>11, <1>12, <1>13, <1>14, <1>15
     DEF Next

(***************************************************************************)
(* Every variable keeps its type through calls, callbacks and rollbacks:   *)
(* in particular no subtraction of the contract goes below zero, neither   *)
(* on the total debt nor on what a call gives and receives.                *)
(***************************************************************************)
THEOREM TypesAreKept == Spec => []TypeOK
<1>1. ConfigInv /\ LedgerInv => TypeOK
  BY TotalIsNat
     DEF ConfigInv, LedgerInv, DebtsInv, InterestInv, MoneyInv, TxInv, SavedInv, TypeOK
<1> QED
  BY <1>1, ConfigInit, ConfigStep, LedgerInit, LedgerStep, PTL DEF Spec

(***************************************************************************)
(* At every step of every call totalNormalizedDebt is exactly the sum of   *)
(* the normalized debts of the vaults (VaultManager.sol:551, 583, 739).    *)
(***************************************************************************)
THEOREM DebtsAlwaysSumUp == Spec => []DebtConservation
<1>1. LedgerInv => DebtConservation
  BY DEF LedgerInv, DebtsInv, Counted, DebtConservation
<1> QED
  BY <1>1, ConfigInit, ConfigStep, LedgerInit, LedgerStep, PTL DEF Spec
-----------------------------------------------------------------------------
\* Liquidations cannot be blocked

\* Whole products compare as their factors do.
LEMMA CancelFactor ==
    ASSUME NEW a \in Nat, NEW b \in Nat, NEW k \in Nat \ {0}
    PROVE  /\ a * k <= b * k => a <= b
           /\ a * k < b * k => a < b
  OBVIOUS

\* The offer of a whole debt, less the surcharge, is worth the debt.
LEMMA WholeOfferRepays ==
    ASSUME NEW n \in Nat, NEW acc \in Nat, NEW surcharge \in Nat \ {0},
           NEW offer, offer = (n * acc * BASE_PARAMS) \div (surcharge * BASE_INTEREST) + 1
    PROVE  (offer * surcharge) \div BASE_PARAMS >= DebtValue(n, acc)
<1> DEFINE owed == n * acc
           q    == (owed * BASE_PARAMS) \div (surcharge * BASE_INTEREST)
           debt == DebtValue(n, acc)
<1>1. owed \in Nat /\ owed * BASE_PARAMS \in Nat /\ surcharge * BASE_INTEREST \in Nat \ {0}
  BY BasesAssumption
<1>2. debt \in Nat /\ debt * BASE_INTEREST <= owed
  BY <1>1, BasesAssumption, DivisionIsNat, DivisionTruncates DEF DebtValue
<1> HIDE DEF owed, debt
<1>3. /\ q \in Nat
      /\ owed * BASE_PARAMS
            < q * (surcharge * BASE_INTEREST) + surcharge * BASE_INTEREST
  <2> DEFINE a == owed * BASE_PARAMS
             b == surcharge * BASE_INTEREST
  <2>1. a \in Nat /\ b \in Nat \ {0}
    BY <1>1
  <2> HIDE DEF a, b
  <2>2. a \div b \in Nat /\ a < (a \div b) * b + b
    BY <2>1, DivisionIsNat, DivisionTruncates
  <2> QED
    BY <2>2 DEF a, b
<1>4. offer = q + 1
  BY DEF owed
<1> HIDE DEF q
<1>5. offer * surcharge \in Nat /\ offer \in Nat
  BY <1>3, <1>4
<1>6. (debt * BASE_PARAMS) * BASE_INTEREST < (offer * surcharge) * BASE_INTEREST
  <2>1. (debt * BASE_PARAMS) * BASE_INTEREST = (debt * BASE_INTEREST) * BASE_PARAMS
    BY <1>2, BasesAssumption
  <2>2. (debt * BASE_INTEREST) * BASE_PARAMS <= owed * BASE_PARAMS
    BY <1>1, <1>2, BasesAssumption
  <2>3. (offer * surcharge) * BASE_INTEREST
           = q * (surcharge * BASE_INTEREST) + surcharge * BASE_INTEREST
    BY <1>3, <1>4, BasesAssumption
  <2>4. /\ (debt * BASE_PARAMS) * BASE_INTEREST \in Nat
        /\ (offer * surcharge) * BASE_INTEREST \in Nat
    BY <1>2, <1>5, BasesAssumption
  <2> QED
    BY <1>1, <1>3, <2>1, <2>2, <2>3, <2>4
<1>7. debt * BASE_PARAMS <= offer * surcharge
  BY <1>2, <1>5, <1>6, BasesAssumption, CancelFactor
<1> QED
  BY <1>2, <1>5, <1>7, BasesAssumption, DivisionAtLeast DEF debt

\* A repayment that stays the dust and more below the debt leaves more than dust.
LEMMA PartialOfferLeavesMore ==
    ASSUME NEW n \in Nat, NEW acc \in Nat \ {0}, NEW amount \in Nat,
           NEW p, p.dust \in Nat, NEW dusts \in Nat, p.dust <= dusts,
           amount + dusts < DebtValue(n, acc)
    PROVE  LeavesNoDust(n - Repayment(n, amount, acc).change, acc, p)
<1> DEFINE debt   == DebtValue(n, acc)
           change == Normalized(amount, acc)
<1>1. debt \in Nat /\ debt * BASE_INTEREST <= n * acc
  BY BasesAssumption, DivisionIsNat, DivisionTruncates, ProductIsNat DEF DebtValue
<1>2. Repayment(n, amount, acc).change = change
  BY <1>1 DEF Repayment
<1>3. change \in Nat /\ change * acc <= amount * BASE_INTEREST
  BY BasesAssumption, NormalizedIsNat, DivisionTruncates, ProductIsNat DEF Normalized
<1> HIDE DEF debt, change
<1>4. (amount + p.dust + 1) * BASE_INTEREST <= debt * BASE_INTEREST
  <2>1. amount + p.dust + 1 \in Nat /\ amount + p.dust + 1 <= debt
    BY <1>1 DEF debt
  <2> QED
    BY <1>1, <2>1, BasesAssumption
<1>5. (amount + p.dust + 1) * BASE_INTEREST
         = amount * BASE_INTEREST + p.dust * BASE_INTEREST + BASE_INTEREST
  BY BasesAssumption
<1>6. (n - change) * acc = n * acc - change * acc
  BY <1>3
<1>7. /\ n * acc \in Nat /\ change * acc \in Nat /\ amount * BASE_INTEREST \in Nat
      /\ p.dust * BASE_INTEREST \in Nat /\ debt * BASE_INTEREST \in Nat
  BY <1>1, <1>3, BasesAssumption
<1>8. (n - change) * acc > p.dust * BASE_INTEREST
  BY <1>1, <1>3, <1>4, <1>5, <1>6, <1>7, BasesAssumption
<1> QED
  BY <1>2, <1>8 DEF LeavesNoDust

(***************************************************************************)
(* The largest offer buys all the collateral, or leaves the vault without  *)
(* a debt or with more than the minimum one.                               *)
(***************************************************************************)
LEMMA LargestOfferIsAccepted ==
    ASSUME NEW vault \in VaultType, NEW price \in Nat \ {0}, NEW acc \in Nat \ {0},
           NEW p, LiquidationParams(p), p.dust \in Nat, p.dust <= p.dustLiquidation,
           Liquidable(vault, price, acc, p), OfferDefined(vault, price, acc, p)
    PROVE  LET offer == LiquidationOffer(vault, price, acc, p)
               n     == vault.normalizedDebt
               paid  == (offer.maxRepay * p.liquidationSurcharge) \div BASE_PARAMS
           IN \/ vault.collateralAmount <=
                    CollateralReleased(offer.maxRepay, vault, price, acc, p)
              \/ LeavesNoDust(n - Repayment(n, paid, acc).change, acc, p)
<1> DEFINE offer     == LiquidationOffer(vault, price, acc, p)
           n         == vault.normalizedDebt
           c         == vault.collateralAmount
           surcharge == p.liquidationSurcharge
           discount  == LiquidationDiscount(vault, price, acc, p)
           debt      == DebtValue(n, acc)
           paid      == (offer.maxRepay * surcharge) \div BASE_PARAMS
<1>1. n \in Nat /\ c \in Nat /\ surcharge \in Nat /\ debt \in Nat
  BY DebtValueIsNat DEF VaultType, LiquidationParams
<1>2. offer.maxRepay \in Nat
  BY OfferIsNat
<1>3. paid \in Nat
  BY <1>1, <1>2, BasesAssumption, ProductIsNat, DivisionIsNat
<1>4. CASE HealthImproves(vault, price, acc, p)
  <2> DEFINE toTarget == RepayToTarget(vault, price, acc, p)
             dusty    == debt * BASE_PARAMS <=
                            toTarget * surcharge + p.dustLiquidation * BASE_PARAMS
  <2>1. offer = OfferToTarget(vault, price, acc, p)
    BY <1>4 DEF LiquidationOffer
  <2>2. surcharge \in Nat \ {0}
    BY <1>1, <1>4 DEF OfferDefined
  <2>3. CASE dusty
    <3>1. offer.maxRepay = (n * acc * BASE_PARAMS) \div (surcharge * BASE_INTEREST) + 1
      BY <2>1, <2>3 DEF OfferToTarget
    <3>2. paid >= debt
      BY <1>1, <2>2, <3>1, WholeOfferRepays
    <3>3. Repayment(n, paid, acc).change = n
      BY <3>2 DEF Repayment
    <3> QED
      BY <1>1, <3>3 DEF LeavesNoDust
  <2>4. CASE ~dusty
    <3>1. offer.maxRepay = toTarget
      BY <2>1, <2>4 DEF OfferToTarget
    <3> HIDE DEF toTarget, debt, surcharge, offer
    <3>2. paid * BASE_PARAMS <= toTarget * surcharge
      BY <1>1, <1>2, <3>1, BasesAssumption, ProductIsNat, DivisionTruncates
    <3> HIDE DEF paid
    <3>3. paid * BASE_PARAMS + p.dustLiquidation * BASE_PARAMS < debt * BASE_PARAMS
      <4>1. /\ debt * BASE_PARAMS \in Nat /\ toTarget * surcharge \in Nat
            /\ p.dustLiquidation * BASE_PARAMS \in Nat /\ paid * BASE_PARAMS \in Nat
        BY <1>1, <1>2, <1>3, <3>1, BasesAssumption, ProductIsNat DEF LiquidationParams
      <4> QED
        BY <2>4, <3>2, <4>1
    <3>4. (paid + p.dustLiquidation) * BASE_PARAMS < debt * BASE_PARAMS
      BY <1>3, <3>3, BasesAssumption DEF LiquidationParams
    <3>5. paid + p.dustLiquidation < debt
      BY <1>1, <1>3, <3>4, BasesAssumption, CancelFactor DEF LiquidationParams
    <3>6. LeavesNoDust(n - Repayment(n, paid, acc).change, acc, p)
      BY <1>1, <1>3, <3>5, PartialOfferLeavesMore DEF LiquidationParams, debt
    <3> QED
      BY <3>6 DEF paid, offer, surcharge
  <2> QED
    BY <2>3, <2>4
<1>5. CASE ~HealthImproves(vault, price, acc, p)
  <2> DEFINE worth == c * discount * price
             unit  == BASE_PARAMS * CollatBase
             q     == worth \div unit
  <2>1. offer.maxRepay = q + 1
    BY <1>5 DEF LiquidationOffer, OfferForCollateral
  <2>2. discount \in Nat \ {0}
    BY DiscountIsFraction, BasesAssumption DEF OfferDefined
  <2>3. CollateralReleased(offer.maxRepay, vault, price, acc, p)
           = (offer.maxRepay * BASE_PARAMS * CollatBase) \div (discount * price)
    BY DEF CollateralReleased
  <2> HIDE DEF discount, offer, c
  <2>4. worth \in Nat /\ unit \in Nat \ {0} /\ discount * price \in Nat \ {0}
    BY <1>1, <2>2, BasesAssumption
  <2> HIDE DEF worth, unit
  <2>5. q \in Nat /\ worth < q * unit + unit
    BY <2>4, DivisionIsNat, DivisionTruncates
  <2> HIDE DEF q
  <2>6. offer.maxRepay * BASE_PARAMS * CollatBase = q * unit + unit
    BY <2>1, <2>5, BasesAssumption DEF unit
  <2>7. worth = c * (discount * price)
    BY <1>1, <2>2 DEF worth
  <2>8. c <= (q * unit + unit) \div (discount * price)
    <3>1. q * unit + unit \in Nat /\ worth <= q * unit + unit
      BY <2>4, <2>5
    <3> DEFINE total == q * unit + unit
               per   == discount * price
    <3> HIDE DEF total, per
    <3>2. c * per <= total /\ total \in Nat /\ per \in Nat \ {0}
      BY <2>4, <2>7, <3>1 DEF total, per
    <3> QED
      BY <1>1, <3>2, DivisionAtLeast DEF total, per
  <2>9. vault.collateralAmount <= CollateralReleased(offer.maxRepay, vault, price, acc, p)
    BY <2>3, <2>6, <2>8 DEF c
  <2> QED
    BY <2>9 DEF offer
<1> QED
  BY <1>4, <1>5

(***************************************************************************)
(* In every reachable state, whatever the bases, parameters, prices and    *)
(* debts, liquidate() has an amount that it accepts for each vault below   *)
(* the threshold: the repayment that _checkLiquidation offers divides by   *)
(* nothing, and never leaves a debt that _repayDebt refuses                *)
(* (VaultManager.sol:754, 772).                                            *)
(***************************************************************************)
THEOREM LiquidationsAreNeverBlocked == Spec => []CanAlwaysBeLiquidated
<1>1. ASSUME ConfigInv, LedgerInv PROVE CanAlwaysBeLiquidated
  <2> SUFFICES ASSUME params.maxLiquidationDiscount < BASE_PARAMS,
                      params.liquidationSurcharge > 0, NEW v \in VaultIDs,
                      Liquidable(vaultData[v], oracleValue, NewAccumulator, params)
               PROVE  LET vault == vaultData[v]
                          offer == LiquidationOffer(vault, oracleValue, NewAccumulator, params)
                          repaid == Repayment(Debt(v), Reimbursed(offer.maxRepay),
                                              NewAccumulator)
                      IN /\ OfferDefined(vault, oracleValue, NewAccumulator, params)
                         /\ \/ vault.collateralAmount <=
                                   CollateralReleased(offer.maxRepay, vault, oracleValue,
                                                      NewAccumulator, params)
                            \/ LeavesNoDust(Debt(v) - repaid.change, NewAccumulator, params)
    BY DEF CanAlwaysBeLiquidated
  <2>1. vaultData[v] \in VaultType /\ oracleValue \in Nat \ {0}
    BY <1>1, ConfigAssumption DEF LedgerInv, DebtsInv, ConfigInv
  <2>2. NewAccumulator \in Nat \ {0}
    BY <1>1, NewAccumulatorGrows DEF LedgerInv
  <2>3. LiquidationParams(params) /\ params.dust \in Nat /\ params.dust <= params.dustLiquidation
    BY <1>1, BasesAssumption DEF LiquidationParams, ConfigInv, ParamsType, ParamsConsistent
  <2>4. OfferDefined(vaultData[v], oracleValue, NewAccumulator, params)
    BY <2>1, <2>2, <2>3, OfferIsAlwaysDefined
  <2> QED
    BY <2>1, <2>2, <2>3, <2>4, LargestOfferIsAccepted DEF Debt, Reimbursed
<1> QED
  BY <1>1, ConfigInit, ConfigStep, LedgerInit, LedgerStep, PTL DEF Spec

(***************************************************************************)
(* All the collateral at the discounted price, if it is worth the debt and *)
(* the surcharge, costs a payment that repays the debt: the truncations of *)
(* the collateral released, of the surcharge and of the debt go one way.   *)
(***************************************************************************)
LEMMA CoveredIsRepaid ==
    ASSUME NEW c \in Nat, NEW n \in Nat, NEW acc \in Nat, NEW paid \in Nat,
           NEW surcharge \in Nat, NEW discount \in Nat \ {0}, NEW price \in Nat \ {0},
           c <= (paid * BASE_PARAMS * CollatBase) \div (discount * price),
           c * price * BASE_INTEREST * surcharge * discount
              >= n * acc * CollatBase * BASE_PARAMS * BASE_PARAMS
    PROVE  DebtValue(n, acc) <= (paid * surcharge) \div BASE_PARAMS
<1> DEFINE owed  == n * acc
           debt  == DebtValue(n, acc)
           per   == discount * price
           unit  == BASE_PARAMS * CollatBase
           scale == unit * BASE_INTEREST
<1>1. owed \in Nat /\ per \in Nat \ {0} /\ unit \in Nat \ {0} /\ scale \in Nat \ {0}
  BY BasesAssumption
<1>2. debt \in Nat /\ debt * BASE_INTEREST <= owed
  BY <1>1, BasesAssumption, DivisionIsNat, DivisionTruncates DEF DebtValue
<1>3. c * per <= paid * unit
  <2>1. paid * BASE_PARAMS * CollatBase = paid * unit
    BY BasesAssumption
  <2>2. paid * unit \in Nat /\ c <= (paid * unit) \div per
    BY <1>1, <2>1
  <2> HIDE DEF per, unit
  <2> DEFINE bought == paid * unit
             q      == bought \div per
  <2>3. bought \in Nat /\ c <= q
    BY <2>2
  <2> HIDE DEF bought
  <2>4. q \in Nat /\ q * per <= bought
    BY <1>1, <2>3, DivisionIsNat, DivisionTruncates
  <2> HIDE DEF q
  <2>5. c * per <= q * per /\ c * per \in Nat /\ q * per \in Nat
    BY <1>1, <2>3, <2>4
  <2> QED
    BY <2>3, <2>4, <2>5 DEF bought
<1>4. /\ c * price * BASE_INTEREST * surcharge * discount
            = (c * per) * (BASE_INTEREST * surcharge)
      /\ n * acc * CollatBase * BASE_PARAMS * BASE_PARAMS = owed * (unit * BASE_PARAMS)
  BY BasesAssumption
<1> HIDE DEF owed, debt, per
<1>5. owed * (unit * BASE_PARAMS) <= (c * per) * (BASE_INTEREST * surcharge)
  BY <1>4 DEF owed
<1>6. (c * per) * (BASE_INTEREST * surcharge) <= (paid * unit) * (BASE_INTEREST * surcharge)
  <2>1. c * per \in Nat /\ paid * unit \in Nat /\ BASE_INTEREST * surcharge \in Nat
    BY <1>1, BasesAssumption
  <2> HIDE DEF unit
  <2> QED
    BY <1>3, <2>1
<1>7. (debt * BASE_INTEREST) * (unit * BASE_PARAMS) <= owed * (unit * BASE_PARAMS)
  <2>1. debt * BASE_INTEREST \in Nat /\ unit * BASE_PARAMS \in Nat
    BY <1>1, <1>2, BasesAssumption
  <2> HIDE DEF unit
  <2> QED
    BY <1>1, <1>2, <2>1
<1>8. /\ (debt * BASE_INTEREST) * (unit * BASE_PARAMS) = (debt * BASE_PARAMS) * scale
      /\ (paid * unit) * (BASE_INTEREST * surcharge) = (paid * surcharge) * scale
  BY <1>1, <1>2, BasesAssumption
<1>9. (debt * BASE_PARAMS) * scale <= (paid * surcharge) * scale
  <2>1. /\ (debt * BASE_INTEREST) * (unit * BASE_PARAMS) \in Nat
        /\ owed * (unit * BASE_PARAMS) \in Nat
        /\ (c * per) * (BASE_INTEREST * surcharge) \in Nat
        /\ (paid * unit) * (BASE_INTEREST * surcharge) \in Nat
    BY <1>1, <1>2, BasesAssumption
  <2> QED
    BY <1>5, <1>6, <1>7, <1>8, <2>1
<1> HIDE DEF unit, scale
<1>10. debt * BASE_PARAMS \in Nat /\ paid * surcharge \in Nat
  BY <1>2, BasesAssumption
<1>11. debt * BASE_PARAMS <= paid * surcharge
  BY <1>1, <1>9, <1>10, CancelFactor
<1> QED
  BY <1>2, <1>10, <1>11, BasesAssumption, DivisionAtLeast DEF debt

(***************************************************************************)
(* A vault that is seized for a payment leaves bad debt only when its      *)
(* collateral did not cover it; a vault that keeps collateral leaves none. *)
(***************************************************************************)
LEMMA LiquidateVaultLosesNothingCovered ==
    ASSUME ConfigInv, LedgerInv, NEW w \in VaultIDs, NEW amount \in Nat,
           LiquidateVault(w, amount), NEW v \in VaultIDs, vaultData'[v] # vaultData[v],
           tx'.badDebt > tx.badDebt, Covered(vaultData[v])
    PROVE  FALSE
<1> DEFINE offer == LiquidationOffer(vaultData[w], oracleValue, tx.acc, params)
           paid  == LiquidationPayment(amount, offer)
           released == CollateralReleased(paid, vaultData[w], oracleValue, tx.acc, params)
           discount == LiquidationDiscount(vaultData[w], oracleValue, tx.acc, params)
           debt  == DebtValue(Debt(w), tx.acc)
<1>1. /\ Liquidable(vaultData[w], oracleValue, tx.acc, params)
      /\ OfferDefined(vaultData[w], oracleValue, tx.acc, params)
      /\ IF vaultData[w].collateralAmount <= released
         THEN SeizeVault(w, paid) ELSE SellCollateral(w, paid, released)
  BY DEF LiquidateVault
<1>2. paid \in Nat /\ released \in Nat
  BY <1>1, LiquidationAmounts DEF LedgerInv
<1>3. /\ vaultData \in [VaultIDs -> VaultType] /\ tx.acc \in Nat /\ tx.badDebt \in Nat
      /\ oracleValue \in Nat \ {0} /\ params.liquidationSurcharge \in Nat
  BY ConfigAssumption DEF LedgerInv, DebtsInv, TxInv, TxType, ConfigInv, ParamsType
<1>4. LiquidationParams(params)
  BY BasesAssumption DEF LiquidationParams, ConfigInv, ParamsType, ParamsConsistent
<1>5. discount \in Nat \ {0}
  <2>1. discount \in Nat
    BY <1>1, <1>3, <1>4, DiscountIsFraction, BasesAssumption
  <2>2. discount # 0
    BY <1>1, <1>3, <2>1 DEF OfferDefined
  <2> QED
    BY <2>1, <2>2
<1>6. debt \in Nat
  BY <1>3, DebtValueIsNat DEF Debt, VaultType
<1>7. Reimbursed(paid) \in Nat
  BY <1>2, ReimbursedIsNat
<1>8. released = (paid * BASE_PARAMS * CollatBase) \div (discount * oracleValue)
  BY DEF CollateralReleased
<1> HIDE DEF paid, released, discount, debt
<1>9. CASE vaultData[w].collateralAmount <= released
  <2>1. SeizeVault(w, paid)
    BY <1>1, <1>9
  <2>2. v = w
    BY <1>3, <2>1 DEF SeizeVault
  <2>3. tx'.badDebt = tx.badDebt + Excess(debt, Reimbursed(paid))
    BY <2>1 DEF SeizeVault, debt, LedgerInv, TxInv, TxType
  <2>4. debt > Reimbursed(paid)
    BY <1>3, <1>6, <1>7, <2>3 DEF Excess
  <2>5. debt <= Reimbursed(paid)
    <3> DEFINE vault == vaultData[w]
    <3>1. /\ vault.collateralAmount \in Nat /\ vault.normalizedDebt \in Nat
          /\ Debt(w) = vault.normalizedDebt
      BY <1>3 DEF VaultType, Debt
    <3>2. vault.collateralAmount * oracleValue * BASE_INTEREST * params.liquidationSurcharge
             * discount >= vault.normalizedDebt * tx.acc * CollatBase * BASE_PARAMS * BASE_PARAMS
      BY <2>2 DEF Covered, discount
    <3> QED
      BY <1>2, <1>3, <1>5, <1>8, <1>9, <3>1, <3>2, CoveredIsRepaid DEF Reimbursed, debt
  <2> QED
    BY <1>6, <1>7, <2>4, <2>5
<1>10. CASE ~(vaultData[w].collateralAmount <= released)
  <2>1. SellCollateral(w, paid, released)
    BY <1>1, <1>10
  <2>2. tx'.badDebt = tx.badDebt
    BY <2>1 DEF SellCollateral, LedgerInv, TxInv, TxType
  <2> QED
    BY <1>3, <2>2
<1> QED
  BY <1>9, <1>10

\* In the loop of liquidate() only an iteration changes a vault, or a revert.
LEMMA VaultsChangeByLiquidation ==
    ASSUME LedgerInv, [Next]_vars, NEW v \in VaultIDs, LiquidatedBy(v)
    PROVE  \/ \E w \in VaultIDs, amount \in StableAmounts : LiquidateVault(w, amount)
           \/ Revert
<1>1. tx.phase = "liquidating" /\ vaultData' # vaultData
  BY DEF LiquidatedBy
<1>2. ~AngleStep
  BY <1>1 DEF AngleStep, CreateVaultInCall, AddCollateral, RemoveCollateral, Borrow,
              RepayDebt, CloseVault, GetDebtInLocal, GetDebtInRemote, Proceed
<1>3. /\ \A sender \in Users : ~BeginAngle(sender)
      /\ \A sender, to \in Users : ~BeginLiquidation(sender, to)
      /\ \A swap \in BOOLEAN : ~EndAngle(swap) /\ ~EndLiquidation(swap)
      /\ ~CallbackReturns /\ ~Collect
  BY <1>1 DEF BeginAngle, BeginLiquidation, Begin, Idle, EndAngle, EndLiquidation,
              CallbackReturns, Collect, debtVars
<1>4. /\ \A to \in Users : ~CreateVault(to)
      /\ ~MoveOwnership /\ ~AccrueInterestToTreasury
      /\ \A w \in VaultIDs, amount \in StableAmounts, fees \in RemoteFees :
            ~GetDebtOut(w, amount, fees)
  BY <1>1 DEF CreateVault, MoveOwnership, AccrueInterestToTreasury, GetDebtOut, Outside
<1>5. /\ \A what \in ParamNames : \A value \in ParamChoices[what] : ~SetUint64(what, value)
      /\ ~Administer /\ ~Tick /\ \A price \in Prices : ~PriceMoves(price)
  BY <1>1 DEF SetUint64, Administer, Tick, PriceMoves, Idle
<1>6. ~UNCHANGED vars
  BY <1>1 DEF vars, debtVars
<1> QED
  BY <1>2, <1>3, <1>4, <1>5, <1>6 DEF Next

(***************************************************************************)
(* Whatever amounts liquidators bring, and whatever the bases, prices and  *)
(* parameters, no bad debt comes from a vault whose collateral, sold at    *)
(* the discounted price, pays its debt and the surcharge                   *)
(* (VaultManager.sol:743).                                                 *)
(***************************************************************************)
THEOREM CoveredVaultsLoseNothing == Spec => NoBadDebtFromCoveredVaults
<1> DEFINE Safe == \A v \in VaultIDs :
                      LiquidatedBy(v) /\ tx'.badDebt > tx.badDebt => ~Covered(vaultData[v])
<1>1. ASSUME ConfigInv, LedgerInv, [Next]_vars PROVE Safe
  <2> SUFFICES ASSUME NEW v \in VaultIDs, LiquidatedBy(v), tx'.badDebt > tx.badDebt,
                      Covered(vaultData[v])
               PROVE  FALSE
    OBVIOUS
  <2>1. vaultData'[v] # vaultData[v] /\ tx.badDebt \in Nat
    BY <1>1 DEF LiquidatedBy, LedgerInv, TxInv, TxType
  <2>2. ASSUME NEW w \in VaultIDs, NEW amount \in StableAmounts, LiquidateVault(w, amount)
        PROVE  FALSE
    BY <1>1, <2>1, <2>2, ConfigAssumption, LiquidateVaultLosesNothingCovered
  <2>3. CASE Revert
    BY <2>1, <2>3 DEF Revert, NoTx
  <2> QED
    BY <1>1, <2>2, <2>3, VaultsChangeByLiquidation
<1> QED
  BY <1>1, ConfigInit, ConfigStep, LedgerInit, LedgerStep, PTL DEF Spec, NoBadDebtFromCoveredVaults

-----------------------------------------------------------------------------
\* Liquidations stop at the target health factor

\* Collateral sold at a discount, and one unit of it: what is left is worth no more than
\* the collateral was, less the payment, but for the truncated stablecoin.
LEMMA SaleKeepsWorth ==
    ASSUME NEW c \in Nat, NEW paid \in Nat, NEW discount \in Nat \ {0}, NEW price \in Nat \ {0},
           NEW released, released = (paid * BASE_PARAMS * CollatBase) \div (discount * price),
           c > released
    PROVE  (((c - released - 1) * price) \div CollatBase) * discount + paid * BASE_PARAMS
              < ((c * price) \div CollatBase + 1) * discount
<1> DEFINE cost == paid * BASE_PARAMS
           per  == discount * price
           kept == (c - released - 1) * price
           worth == c * price
           x == kept \div CollatBase
           S == worth \div CollatBase
<1>1. cost \in Nat /\ per \in Nat \ {0} /\ worth \in Nat /\ CollatBase \in Nat \ {0}
  BY BasesAssumption
<1>2. released \in Nat /\ cost * CollatBase < released * per + per
  <2>1. cost * CollatBase \in Nat /\ released = (cost * CollatBase) \div per
    BY <1>1
  <2> HIDE DEF cost, per
  <2> DEFINE total == cost * CollatBase
  <2>2. total \in Nat /\ released = total \div per
    BY <2>1
  <2> HIDE DEF total
  <2>3. released \in Nat /\ total < released * per + per
    BY <1>1, <2>2, DivisionIsNat, DivisionTruncates
  <2> QED
    BY <2>3 DEF total
<1>3. c - released - 1 \in Nat
  BY <1>2
<1>4. kept \in Nat
  BY <1>3
<1>5. x \in Nat /\ x * CollatBase <= kept
  <2> HIDE DEF kept
  <2> QED
    BY <1>1, <1>4, DivisionIsNat, DivisionTruncates
<1>6. S \in Nat /\ worth < S * CollatBase + CollatBase
  <2> HIDE DEF worth
  <2> QED
    BY <1>1, DivisionIsNat, DivisionTruncates
<1>7. kept * discount + (released * per + per) = worth * discount
  BY <1>2, <1>3
<1> HIDE DEF cost, per, kept, worth, x, S
<1>8. (x * CollatBase) * discount <= kept * discount
  <2> DEFINE a == x * CollatBase
  <2>1. a \in Nat /\ a <= kept
    BY <1>1, <1>5
  <2> HIDE DEF a
  <2>2. a * discount <= kept * discount
    BY <1>4, <2>1
  <2> QED
    BY <2>2 DEF a
<1>9. worth * discount < (S * CollatBase + CollatBase) * discount
  <2> DEFINE a == S * CollatBase + CollatBase
  <2>1. a \in Nat /\ worth < a
    BY <1>1, <1>6
  <2> HIDE DEF a
  <2>2. worth * discount < a * discount
    BY <1>1, <2>1
  <2> QED
    BY <2>2 DEF a
<1>10. /\ (x * CollatBase) * discount = (x * discount) * CollatBase
       /\ (S * CollatBase + CollatBase) * discount = ((S + 1) * discount) * CollatBase
       /\ (x * discount + cost) * CollatBase = (x * discount) * CollatBase + cost * CollatBase
  BY <1>1, <1>5, <1>6
<1>11. /\ kept * discount \in Nat /\ worth * discount \in Nat /\ released * per \in Nat
       /\ cost * CollatBase \in Nat /\ (x * discount) * CollatBase \in Nat
       /\ ((S + 1) * discount) * CollatBase \in Nat
       /\ x * discount + cost \in Nat /\ (S + 1) * discount \in Nat
  BY <1>1, <1>2, <1>4, <1>5, <1>6
<1>12. (x * discount + cost) * CollatBase < ((S + 1) * discount) * CollatBase
  <2> DEFINE k1 == kept * discount
             w1 == worth * discount
             r1 == released * per
             c1 == cost * CollatBase
             x1 == (x * discount) * CollatBase
             S1 == ((S + 1) * discount) * CollatBase
  <2>1. /\ x1 <= k1 /\ w1 < S1 /\ k1 + (r1 + per) = w1 /\ c1 < r1 + per
        /\ (x * discount + cost) * CollatBase = x1 + c1
    BY <1>2, <1>7, <1>8, <1>9, <1>10
  <2>2. k1 \in Nat /\ w1 \in Nat /\ r1 \in Nat /\ c1 \in Nat /\ x1 \in Nat /\ S1 \in Nat
    BY <1>11
  <2> HIDE DEF k1, w1, r1, c1, x1, S1
  <2>3. x1 + c1 < S1
    BY <1>1, <2>1, <2>2
  <2> QED
    BY <2>1, <2>3 DEF S1
<1>13. x * discount + cost < (S + 1) * discount
  <2> DEFINE a == x * discount + cost
             b == (S + 1) * discount
  <2>1. a \in Nat /\ b \in Nat /\ a * CollatBase < b * CollatBase
    BY <1>11, <1>12
  <2> HIDE DEF a, b
  <2>2. a < b
    BY <1>1, <2>1, CancelFactor
  <2> QED
    BY <2>2 DEF a, b
<1> QED
  BY <1>13 DEF x, S, kept, worth, cost

\* A debt falls by no more than what is paid less the surcharge.
LEMMA PaymentLeavesDebt ==
    ASSUME NEW n \in Nat, NEW acc \in Nat \ {0}, NEW paid \in Nat, NEW surcharge \in Nat,
           NEW repaid, repaid = (paid * surcharge) \div BASE_PARAMS,
           repaid < DebtValue(n, acc),
           NEW left, left = n - Normalized(repaid, acc)
    PROVE  DebtValue(n, acc) * BASE_PARAMS
              <= DebtValue(left, acc) * BASE_PARAMS + paid * surcharge
<1> DEFINE debt == DebtValue(n, acc)
           rest == DebtValue(left, acc)
           change == Normalized(repaid, acc)
<1>1. repaid \in Nat /\ repaid * BASE_PARAMS <= paid * surcharge /\ paid * surcharge \in Nat
  <2> DEFINE total == paid * surcharge
  <2>1. total \in Nat
    OBVIOUS
  <2> HIDE DEF total
  <2>2. repaid = total \div BASE_PARAMS
    BY DEF total
  <2>3. repaid \in Nat /\ repaid * BASE_PARAMS <= total
    BY <2>1, <2>2, BasesAssumption, DivisionIsNat, DivisionTruncates
  <2> QED
    BY <2>1, <2>3 DEF total
<1>2. debt \in Nat /\ debt * BASE_INTEREST <= n * acc /\ n * acc \in Nat
  BY BasesAssumption, DivisionIsNat, DivisionTruncates, ProductIsNat DEF DebtValue
<1>3. change \in Nat /\ change * acc <= repaid * BASE_INTEREST
  BY <1>1, BasesAssumption, NormalizedIsNat, DivisionTruncates, ProductIsNat DEF Normalized
<1> HIDE DEF debt, change
<1>4. (debt - repaid) * BASE_INTEREST = debt * BASE_INTEREST - repaid * BASE_INTEREST
  BY <1>1, <1>2, BasesAssumption
<1>5. left * acc = n * acc - change * acc
  BY <1>3 DEF change
<1>6. /\ debt * BASE_INTEREST \in Nat /\ repaid * BASE_INTEREST \in Nat /\ change * acc \in Nat
      /\ debt - repaid \in Nat
  BY <1>1, <1>2, <1>3, BasesAssumption DEF debt
<1>7. (debt - repaid) * BASE_INTEREST <= left * acc /\ left * acc \in Nat
  <2> DEFINE d1 == debt * BASE_INTEREST
             r1 == repaid * BASE_INTEREST
             c1 == change * acc
             n1 == n * acc
  <2>1. /\ d1 <= n1 /\ c1 <= r1 /\ (debt - repaid) * BASE_INTEREST = d1 - r1
        /\ left * acc = n1 - c1 /\ d1 \in Nat /\ r1 \in Nat /\ c1 \in Nat /\ n1 \in Nat
    BY <1>2, <1>3, <1>4, <1>5, <1>6
  <2>2. d1 - r1 \in Nat
    <3>1. (debt - repaid) * BASE_INTEREST \in Nat
      BY <1>6, BasesAssumption, ProductIsNat
    <3> QED
      BY <2>1, <3>1
  <2> HIDE DEF d1, r1, c1, n1
  <2> QED
    BY <2>1, <2>2
<1>8. debt - repaid <= rest /\ rest \in Nat
  <2> DEFINE owed == left * acc
  <2>1. owed \in Nat /\ (debt - repaid) * BASE_INTEREST <= owed
    BY <1>7
  <2> HIDE DEF owed
  <2>2. debt - repaid <= owed \div BASE_INTEREST /\ owed \div BASE_INTEREST \in Nat
    BY <1>6, <2>1, BasesAssumption, DivisionAtLeast, DivisionIsNat
  <2> QED
    BY <2>2 DEF owed, DebtValue
<1> HIDE DEF rest
<1>9. debt * BASE_PARAMS <= (rest + repaid) * BASE_PARAMS
  BY <1>1, <1>2, <1>8, BasesAssumption
<1>10. (rest + repaid) * BASE_PARAMS = rest * BASE_PARAMS + repaid * BASE_PARAMS
  BY <1>1, <1>8, BasesAssumption
<1>11. /\ rest * BASE_PARAMS \in Nat /\ repaid * BASE_PARAMS \in Nat
       /\ debt * BASE_PARAMS \in Nat
  BY <1>1, <1>2, <1>8, BasesAssumption
<1>12. debt * BASE_PARAMS <= rest * BASE_PARAMS + paid * surcharge
  BY <1>1, <1>9, <1>10, <1>11
<1> QED
  BY <1>12 DEF debt, rest

\* The three inequalities of a sale that stops at the target: the payment is at most the
\* one offered, the collateral left is what was not sold, the debt left what was not paid.
LEMMA TargetReached ==
    ASSUME NEW paid \in Nat, NEW s \in Nat, NEW t \in Nat, NEW d \in Nat \ {0},
           NEW cf \in Nat, NEW B \in Nat \ {0},
           NEW debt \in Nat, NEW inStable \in Nat, NEW rest \in Nat, NEW x \in Nat,
           paid * (s * t * d - B * B * cf) <= (t * debt - inStable * cf) * B * d,
           x * d + paid * B < (inStable + 1) * d,
           debt * B <= rest * B + paid * s
    PROVE  IF cf = 0 THEN x * cf <= t * rest ELSE x * cf < t * rest + cf
<1>1. CASE cf = 0
  <2>1. x * cf = 0 /\ t * rest \in Nat
    BY <1>1
  <2> QED
    BY <1>1, <2>1
<1>2. CASE cf # 0
  <2> DEFINE cost  == (paid * s) * (t * d)
             part  == (paid * B) * (B * cf)
             owed  == (debt * B) * (t * d)
             held  == (inStable * d) * (B * cf)
             kept  == (x * d) * (B * cf)
             unit  == d * (B * cf)
             left  == (rest * B) * (t * d)
  <2>1. /\ cost \in Nat /\ part \in Nat /\ owed \in Nat /\ held \in Nat /\ kept \in Nat
        /\ unit \in Nat /\ left \in Nat
    OBVIOUS
  <2>2. cost - part <= owed - held
    <3>1. paid * (s * t * d - B * B * cf) = cost - part
      OBVIOUS
    <3>2. (t * debt - inStable * cf) * B * d = owed - held
      OBVIOUS
    <3> QED
      BY <3>1, <3>2
  <2>3. kept + part < held + unit
    <3> DEFINE a == x * d + paid * B
               b == (inStable + 1) * d
               k == B * cf
    <3>1. a \in Nat /\ b \in Nat /\ k \in Nat \ {0} /\ a < b
      BY <1>2
    <3>2. a * k = kept + part /\ b * k = held + unit
      OBVIOUS
    <3> HIDE DEF a, b, k, kept, part, held, unit
    <3>3. a * k < b * k
      BY <3>1
    <3> QED
      BY <3>2, <3>3
  <2>4. owed <= left + cost
    <3> DEFINE a == debt * B
               b == rest * B + paid * s
               k == t * d
    <3>1. a \in Nat /\ b \in Nat /\ k \in Nat /\ a <= b
      OBVIOUS
    <3>2. a * k = owed /\ b * k = left + cost
      OBVIOUS
    <3> HIDE DEF a, b, k, owed, left, cost
    <3>3. a * k <= b * k
      BY <3>1
    <3> QED
      BY <3>2, <3>3
  <2>5. /\ kept = (x * cf) * (B * d)
        /\ left + unit = (t * rest + cf) * (B * d)
    OBVIOUS
  <2>6. x * cf \in Nat /\ t * rest + cf \in Nat /\ B * d \in Nat \ {0}
    OBVIOUS
  <2> HIDE DEF cost, part, owed, held, kept, unit, left
  <2>7. kept < left + unit
    BY <2>1, <2>2, <2>3, <2>4
  <2> DEFINE a == x * cf
             b == t * rest + cf
             k == B * d
  <2>8. a \in Nat /\ b \in Nat /\ k \in Nat \ {0} /\ a * k < b * k
    BY <2>5, <2>6, <2>7
  <2> HIDE DEF a, b, k
  <2>9. a < b
    BY <2>8, CancelFactor
  <2> QED
    BY <1>2, <2>9 DEF a, b
<1> QED
  BY <1>1, <1>2

\* A payment below a dusty offer's threshold, and any payment of an offer that is not
\* dusty, is at most what brings the vault to the target.
LEMMA PaymentIsToTarget ==
    ASSUME NEW vault \in VaultType, NEW price \in Nat \ {0}, NEW acc \in Nat,
           NEW p, LiquidationParams(p), p.liquidationSurcharge <= BASE_PARAMS,
           Liquidable(vault, price, acc, p), OfferDefined(vault, price, acc, p),
           HealthImproves(vault, price, acc, p), NEW amount \in Nat,
           NEW paid, paid = LiquidationPayment(amount, LiquidationOffer(vault, price, acc, p)),
           (paid * p.liquidationSurcharge) \div BASE_PARAMS
               < DebtValue(vault.normalizedDebt, acc)
    PROVE  paid <= RepayToTarget(vault, price, acc, p)
<1> DEFINE offer     == LiquidationOffer(vault, price, acc, p)
           n         == vault.normalizedDebt
           surcharge == p.liquidationSurcharge
           debt      == DebtValue(n, acc)
           toTarget  == RepayToTarget(vault, price, acc, p)
           dusty     == debt * BASE_PARAMS <=
                           toTarget * surcharge + p.dustLiquidation * BASE_PARAMS
<1>1. /\ n \in Nat /\ surcharge \in Nat \ {0} /\ debt \in Nat /\ p.dustLiquidation \in Nat
      /\ surcharge <= BASE_PARAMS
  <2>1. n \in Nat /\ surcharge \in Nat \ {0} /\ p.dustLiquidation \in Nat
    BY DEF VaultType, LiquidationParams, OfferDefined
  <2>2. debt \in Nat
    BY <2>1, DebtValueIsNat
  <2> QED
    BY <2>1, <2>2
<1>2. offer.maxRepay \in Nat /\ offer.threshold \in Nat
  BY OfferIsNat
<1>3. offer = OfferToTarget(vault, price, acc, p)
  BY DEF LiquidationOffer
<1>4. toTarget \in Nat
  BY RepayToTargetIsNat
<1>5. CASE ~dusty
  <2>1. offer.maxRepay = toTarget
    BY <1>3, <1>5 DEF OfferToTarget
  <2> QED
    BY <1>2, <2>1 DEF LiquidationPayment
<1>6. CASE dusty
  <2>1. /\ offer.maxRepay = (n * acc * BASE_PARAMS) \div (surcharge * BASE_INTEREST) + 1
        /\ offer.threshold = IF debt > p.dustLiquidation
                             THEN ((debt - p.dustLiquidation) * BASE_PARAMS) \div surcharge
                             ELSE 1
    BY <1>3, <1>6 DEF OfferToTarget
  <2>2. (offer.maxRepay * surcharge) \div BASE_PARAMS >= debt
    BY <1>1, <2>1, WholeOfferRepays
  <2>3. paid # offer.maxRepay
    <3> DEFINE q == (offer.maxRepay * surcharge) \div BASE_PARAMS
    <3>1. q \in Nat /\ q >= debt
      BY <1>1, <1>2, <2>2, BasesAssumption, ProductIsNat, DivisionIsNat
    <3>2. ~(q < debt)
      BY <1>1, <3>1
    <3> QED
      BY <3>2 DEF q
  <2>4. paid = amount /\ (offer.threshold = 0 \/ amount < offer.threshold)
    BY <1>2, <2>3 DEF LiquidationPayment
  <2> HIDE DEF offer, toTarget, debt, n
  <2>5. CASE debt > p.dustLiquidation
    <3> DEFINE above == debt - p.dustLiquidation
               whole == above * BASE_PARAMS
               threshold == whole \div surcharge
    <3>1. above \in Nat \ {0} /\ whole \in Nat /\ whole >= BASE_PARAMS
      BY <1>1, <2>5, BasesAssumption
    <3>2. threshold = offer.threshold
      BY <2>1, <2>5
    <3>3. whole = debt * BASE_PARAMS - p.dustLiquidation * BASE_PARAMS
      BY <1>1, BasesAssumption
    <3> HIDE DEF above, whole
    <3>4. threshold \in Nat /\ threshold * surcharge <= whole
      BY <1>1, <3>1, DivisionIsNat, DivisionTruncates
    <3>5. 1 <= threshold
      BY <1>1, <3>1, BasesAssumption, DivisionAtLeast
    <3> HIDE DEF threshold
    <3>6. amount < threshold
      BY <2>4, <3>2, <3>5, <3>4
    <3>7. amount * surcharge < threshold * surcharge
      BY <1>1, <3>4, <3>6
    <3>8. /\ debt * BASE_PARAMS \in Nat /\ toTarget * surcharge \in Nat
          /\ p.dustLiquidation * BASE_PARAMS \in Nat /\ amount * surcharge \in Nat
          /\ threshold * surcharge \in Nat
      BY <1>1, <1>4, <3>4, BasesAssumption, ProductIsNat
    <3>9. amount * surcharge < toTarget * surcharge
      BY <1>6, <3>1, <3>3, <3>4, <3>7, <3>8
    <3>10. amount < toTarget
      BY <1>1, <1>4, <3>9, CancelFactor
    <3> QED
      BY <1>4, <2>4, <3>10 DEF toTarget
  <2>6. CASE ~(debt > p.dustLiquidation)
    <3>1. amount = 0
      BY <2>1, <2>4, <2>6
    <3> QED
      BY <1>4, <2>4, <3>1 DEF toTarget
  <2> QED
    BY <2>5, <2>6
<1> QED
  BY <1>5, <1>6

\* The health factor after a partial liquidation, one unit of collateral left aside.
HealthAfter(v) ==
    HealthFactor([vaultData'[v] EXCEPT !.collateralAmount = Excess(@, 1)],
                 oracleValue, tx.acc, params)

\* A debt that the health factor can measure: at such debts a stablecoin of collateral
\* moves it by one at most.
Measurable(debt) == debt > 0 /\ debt >= params.collateralFactor

LEMMA LiquidateVaultStopsAtTarget ==
    ASSUME ConfigInv, LedgerInv, NEW w \in VaultIDs, NEW amount \in Nat,
           LiquidateVault(w, amount), NEW v \in VaultIDs, vaultData'[v] # vaultData[v],
           HealthImproves(vaultData[v], oracleValue, tx.acc, params),
           Measurable(DebtValue(vaultData'[v].normalizedDebt, tx.acc))
    PROVE  HealthAfter(v) <= params.targetHealthFactor
<1> DEFINE vault == vaultData[w]
           offer == LiquidationOffer(vault, oracleValue, tx.acc, params)
           paid  == LiquidationPayment(amount, offer)
           released == CollateralReleased(paid, vault, oracleValue, tx.acc, params)
           d  == LiquidationDiscount(vault, oracleValue, tx.acc, params)
           s  == params.liquidationSurcharge
           t  == params.targetHealthFactor
           cf == params.collateralFactor
           c  == vault.collateralAmount
           n  == vault.normalizedDebt
           debt == DebtValue(n, tx.acc)
           inStable == CollateralInStable(vault, oracleValue)
           repaid == Reimbursed(paid)
           left == n - Normalized(repaid, tx.acc)
           rest == DebtValue(left, tx.acc)
           x == ((c - released - 1) * oracleValue) \div CollatBase
<1>1. /\ tx.phase = "liquidating"
      /\ Liquidable(vault, oracleValue, tx.acc, params)
      /\ OfferDefined(vault, oracleValue, tx.acc, params)
      /\ IF c <= released THEN SeizeVault(w, paid) ELSE SellCollateral(w, paid, released)
  BY DEF LiquidateVault
<1>2. /\ vaultData \in [VaultIDs -> VaultType] /\ oracleValue \in Nat \ {0}
      /\ tx.acc \in Nat \ {0} /\ tx.acc \in Nat
  BY <1>1, ConfigAssumption, AccIsPositive DEF LedgerInv, DebtsInv, TxInv, TxType, ConfigInv
<1>3. LiquidationParams(params) /\ s <= BASE_PARAMS
  BY BasesAssumption DEF LiquidationParams, ConfigInv, ParamsType, ParamsConsistent
<1>4. s \in Nat /\ t \in Nat /\ cf \in Nat /\ c \in Nat /\ n \in Nat /\ vault \in VaultType
  BY <1>2, <1>3 DEF LiquidationParams, VaultType
<1>5. d \in Nat \ {0}
  <2> HIDE DEF vault
  <2>1. d \in Nat
    <3>1. d \in 0..BASE_PARAMS
      BY <1>1, <1>2, <1>3, <1>4, DiscountIsFraction
    <3> QED
      BY <3>1, BasesAssumption
  <2>2. d # 0
    BY <1>1, <1>2, <2>1 DEF OfferDefined
  <2> QED
    BY <2>1, <2>2
<1>6. paid \in Nat /\ released \in Nat
  BY <1>1, <1>2, LiquidationAmounts DEF LedgerInv
<1>7. debt \in Nat /\ inStable \in Nat /\ repaid \in Nat
  BY <1>2, <1>4, <1>6, DebtValueIsNat, CollateralInStableIsNat, ReimbursedIsNat
<1>8. ~(c <= released) /\ v = w
  <2>1. CASE c <= released
    <3>1. SeizeVault(w, paid)
      BY <1>1, <2>1
    <3>2. v = w /\ vaultData'[v].normalizedDebt = 0
      BY <1>2, <3>1 DEF SeizeVault, NoVault
    <3>3. DebtValue(0, tx.acc) = 0
      <4>1. 0 * tx.acc = 0
        BY <1>2
      <4> QED
        BY <4>1, BasesAssumption DEF DebtValue
    <3> QED
      BY <3>2, <3>3 DEF Measurable
  <2>2. CASE ~(c <= released)
    <3>1. SellCollateral(w, paid, released)
      BY <1>1, <2>2
    <3> QED
      BY <1>2, <2>2, <3>1 DEF SellCollateral
  <2> QED
    BY <2>1, <2>2
<1>9. SellCollateral(w, paid, released)
  BY <1>1, <1>8
<1>10. /\ vaultData'[w].collateralAmount = c - released
       /\ vaultData'[w].normalizedDebt = n - Repayment(n, repaid, tx.acc).change
       /\ vaultData'[w] = [collateralAmount |-> vaultData'[w].collateralAmount,
                           normalizedDebt |-> vaultData'[w].normalizedDebt]
  <2> HIDE DEF paid, released
  <2> QED
    BY <1>2, <1>4, <1>9 DEF SellCollateral, Debt, VaultType
<1>11. repaid < debt /\ vaultData'[w].normalizedDebt = left
  <2>1. CASE repaid >= debt
    <3>1. vaultData'[w].normalizedDebt = 0
      BY <1>4, <1>10, <2>1 DEF Repayment
    <3>2. DebtValue(0, tx.acc) = 0
      <4>1. 0 * tx.acc = 0
        BY <1>2
      <4> QED
        BY <4>1, BasesAssumption DEF DebtValue
    <3> QED
      BY <1>8, <3>1, <3>2 DEF Measurable
  <2>2. CASE ~(repaid >= debt)
    BY <1>7, <1>10, <2>2 DEF Repayment
  <2> QED
    BY <2>1, <2>2
<1>12. paid <= RepayToTarget(vault, oracleValue, tx.acc, params)
  BY <1>1, <1>2, <1>3, <1>4, <1>6, <1>8, <1>11, PaymentIsToTarget DEF Reimbursed
<1>13. paid * (s * t * d - BASE_PARAMS * BASE_PARAMS * cf)
          <= (t * debt - inStable * cf) * BASE_PARAMS * d
  <2> DEFINE M == RepayToTarget(vault, oracleValue, tx.acc, params)
             den == TargetDenominator(vault, oracleValue, tx.acc, params)
             whole == (t * debt - inStable * cf) * BASE_PARAMS * d
  <2>1. M \in Nat /\ M * den <= whole /\ den \in Nat \ {0}
    BY <1>1, <1>2, <1>3, <1>4, <1>8, RepayToTargetIsNat
  <2>2. den = s * t * d - BASE_PARAMS * BASE_PARAMS * cf
    BY DEF TargetDenominator
  <2>3. whole \in Int
    <3> HIDE DEF t, debt, inStable, cf, d
    <3> QED
      BY <1>4, <1>5, <1>7, BasesAssumption
  <2> HIDE DEF M, den, whole, paid
  <2>4. paid * den <= M * den /\ paid * den \in Nat /\ M * den \in Nat
    BY <1>6, <1>12, <2>1 DEF M
  <2>5. paid * den <= whole
    BY <2>1, <2>3, <2>4
  <2> QED
    BY <2>2, <2>5 DEF whole
<1>14. x * d + paid * BASE_PARAMS < (inStable + 1) * d
  <2>1. released = (paid * BASE_PARAMS * CollatBase) \div (d * oracleValue)
    BY DEF CollateralReleased
  <2>2. c > released
    BY <1>4, <1>6, <1>8
  <2>3. inStable = (c * oracleValue) \div CollatBase
    BY DEF CollateralInStable
  <2> HIDE DEF c, released, paid, d, inStable
  <2> QED
    BY <1>2, <1>4, <1>5, <1>6, <2>1, <2>2, <2>3, SaleKeepsWorth
<1>15. debt * BASE_PARAMS <= rest * BASE_PARAMS + paid * s
  <2>1. repaid = (paid * s) \div BASE_PARAMS
    BY DEF Reimbursed
  <2> HIDE DEF paid, s, repaid, n
  <2> QED
    BY <1>2, <1>4, <1>6, <1>11, <2>1, PaymentLeavesDebt
<1>16. x \in Nat /\ rest \in Nat /\ rest > 0 /\ rest >= cf
  <2>1. c - released - 1 \in Nat
    BY <1>4, <1>6, <1>8
  <2>2. (c - released - 1) * oracleValue \in Nat
    BY <1>2, <2>1, ProductIsNat
  <2>3. x \in Nat
    <3> DEFINE k == (c - released - 1) * oracleValue
    <3>1. k \in Nat
      BY <2>2
    <3> HIDE DEF k
    <3>2. k \div CollatBase \in Nat
      BY <3>1, BasesAssumption, DivisionIsNat
    <3> QED
      BY <3>2 DEF k
  <2>4. left \in Nat
    <3> HIDE DEF n, repaid
    <3>1. Repayment(n, repaid, tx.acc).change = Normalized(repaid, tx.acc)
      BY <1>7, <1>11 DEF Repayment, debt
    <3>2. Repayment(n, repaid, tx.acc).change \in 0..n
      BY <1>2, <1>4, <1>7, RepaymentWithinDebt
    <3> QED
      BY <1>4, <3>1, <3>2
  <2>5. rest \in Nat
    BY <1>2, <2>4, DebtValueIsNat
  <2> QED
    BY <1>8, <1>11, <2>3, <2>5 DEF Measurable
<1>17. HealthAfter(v) = (x * cf) \div rest
  <2> DEFINE after == [vaultData'[v] EXCEPT !.collateralAmount = Excess(@, 1)]
  <2>1. /\ after.collateralAmount = c - released - 1
        /\ after.normalizedDebt = left
    <3>1. /\ vaultData'[v].collateralAmount = c - released
          /\ vaultData'[v].normalizedDebt = left
          /\ vaultData'[v] = [collateralAmount |-> vaultData'[v].collateralAmount,
                              normalizedDebt |-> vaultData'[v].normalizedDebt]
      BY <1>8, <1>10, <1>11
    <3>2. Excess(c - released, 1) = c - released - 1
      BY <1>4, <1>6, <1>8 DEF Excess
    <3> HIDE DEF c, released, left
    <3> QED
      BY <3>1, <3>2
  <2>2. /\ CollateralInStable(after, oracleValue) = x
        /\ DebtValue(after.normalizedDebt, tx.acc) = rest
    BY <2>1 DEF CollateralInStable
  <2> HIDE DEF after, x, rest
  <2>3. HealthFactor(after, oracleValue, tx.acc, params) = (x * cf) \div rest
    BY <1>16, <2>2 DEF HealthFactor
  <2> QED
    BY <2>3 DEF HealthAfter, after
<1> HIDE DEF paid, released, d, s, t, cf, c, n, debt, inStable, repaid, left, rest, x, vault
<1>18. IF cf = 0 THEN x * cf <= t * rest ELSE x * cf < t * rest + cf
  BY <1>4, <1>5, <1>6, <1>7, <1>13, <1>14, <1>15, <1>16, BasesAssumption, TargetReached
<1>19. x * cf < (t + 1) * rest
  <2>1. (t + 1) * rest = t * rest + rest /\ t * rest \in Nat /\ x * cf \in Nat
    BY <1>4, <1>16
  <2> QED
    BY <1>4, <1>16, <1>18, <2>1
<1>20. (x * cf) \div rest < t + 1 /\ (x * cf) \div rest \in Nat
  <2> DEFINE a == x * cf
             q == a \div rest
  <2>1. a \in Nat /\ a < (t + 1) * rest
    BY <1>4, <1>16, <1>19
  <2> HIDE DEF a
  <2>2. q \in Nat /\ q * rest <= a
    BY <1>16, <2>1, DivisionIsNat, DivisionTruncates
  <2>3. q * rest \in Nat /\ (t + 1) * rest \in Nat /\ t + 1 \in Nat
    BY <1>4, <1>16, <2>2
  <2> HIDE DEF q
  <2>4. q * rest < (t + 1) * rest
    BY <2>1, <2>2, <2>3
  <2>5. q < t + 1
    BY <1>16, <2>2, <2>3, <2>4, CancelFactor
  <2> QED
    BY <2>2, <2>5 DEF q, a
<1>21. HealthAfter(v) <= t
  BY <1>4, <1>17, <1>20
<1> QED
  BY <1>21 DEF t

(***************************************************************************)
(* "Maximum Health factor at which a vault can end up after a liquidation" *)
(* (VaultManagerStorage.sol:63), for all bases, prices, parameters, vaults *)
(* and amounts: a partial liquidation that raises the health factor does   *)
(* not take it beyond the target, but for the unit of collateral that      *)
(* rounding leaves, as long as the debt left is not so small that its      *)
(* health factor measures nothing.                                         *)
(***************************************************************************)
THEOREM LiquidationsStopAtTarget ==
    Spec => [][\A v \in VaultIDs :
                  /\ tx'.phase = "liquidating" /\ LiquidatedBy(v)
                  /\ HealthImproves(vaultData[v], oracleValue, tx.acc, params)
                  /\ Measurable(DebtValue(vaultData'[v].normalizedDebt, tx.acc))
                  => HealthAfter(v) <= params.targetHealthFactor]_vars
<1> DEFINE Stops == \A v \in VaultIDs :
                       /\ tx'.phase = "liquidating" /\ LiquidatedBy(v)
                       /\ HealthImproves(vaultData[v], oracleValue, tx.acc, params)
                       /\ Measurable(DebtValue(vaultData'[v].normalizedDebt, tx.acc))
                       => HealthAfter(v) <= params.targetHealthFactor
<1>1. ASSUME ConfigInv, LedgerInv, [Next]_vars PROVE Stops
  <2> SUFFICES ASSUME NEW v \in VaultIDs, tx'.phase = "liquidating", LiquidatedBy(v),
                      HealthImproves(vaultData[v], oracleValue, tx.acc, params),
                      Measurable(DebtValue(vaultData'[v].normalizedDebt, tx.acc))
               PROVE  HealthAfter(v) <= params.targetHealthFactor
    OBVIOUS
  <2>1. vaultData'[v] # vaultData[v]
    BY DEF LiquidatedBy
  <2>2. ~Revert
    BY DEF Revert, NoTx
  <2>3. PICK w \in VaultIDs, amount \in StableAmounts : LiquidateVault(w, amount)
    BY <1>1, <2>2, VaultsChangeByLiquidation
  <2> QED
    BY <1>1, <2>1, <2>3, ConfigAssumption, LiquidateVaultStopsAtTarget
<1> QED
  BY <1>1, ConfigInit, ConfigStep, LedgerInit, LedgerStep, PTL DEF Spec
=============================================================================
