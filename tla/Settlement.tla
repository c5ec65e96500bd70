----------------------------- MODULE Settlement ------------------------------
(***************************************************************************)
(* Winding a VaultManager down (Settlement): the owners of healthy vaults  *)
(* claim their collateral against their debt during a period, then anybody *)
(* redeems stablecoins for what is left at a rate computed once.           *)
(*                                                                         *)
(* The collateral is sent out, the caller's swapper is called back, and    *)
(* only then the stablecoins are taken: `calls` holds the calls under way, *)
(* the outermost first, and a failure reverts them all: `saved` then holds *)
(* what they found, and nothing between two transactions.                  *)
(* Governance activates settlement as its comment asks for: interest is    *)
(* accrued, the VaultManager paused, its collateral moved here.            *)
(***************************************************************************)
EXTENDS Integers, Sequences, Counting

CONSTANTS
    VaultIDs, Users,
    BASE_PARAMS, BASE_INTEREST, BASE_STABLECOIN, CollatBase,
    DURATION,            \* OVER_COLLATERALIZED_CLAIM_DURATION, in ticks
    CollateralFactor,
    Collaterals, Debts,  \* what the vaults may have, debts normalized
    Accumulators, Prices,
    Stablecoins,         \* what each user may have
    Amounts,             \* the amounts in calls
    MaxTime, MaxDepth,   \* bounds on time and on nested calls,
    MaxActivations,      \* and on the calls of the two activate functions
    MaxClaimPeriods,
    MaxRedeemed          \* and on what is redeemed, which governance may hand out again

ASSUME SettlementAssumption ==
    /\ IsFiniteSet(VaultIDs)
    /\ {BASE_PARAMS, BASE_INTEREST, BASE_STABLECOIN, CollatBase} \subseteq Nat \ {0}
    /\ CollateralFactor \in Nat /\ DURATION \in Nat
    /\ Collaterals \subseteq Nat /\ Debts \subseteq Nat /\ Stablecoins \subseteq Nat
    /\ Accumulators \subseteq Nat /\ Prices \subseteq Nat \ {0} /\ Amounts \subseteq Nat
    /\ {MaxTime, MaxDepth, MaxActivations, MaxClaimPeriods, MaxRedeemed} \subseteq Nat

VARIABLES
    owner, vaultData,            \* of the paused VaultManager
    oracleValue, interestAccumulator, activated, activationTimestamp,
    collateralStablecoinExchangeRate, leftOverCollateral, exchangeRateComputed,
    vaultCheck,                  \* the vaults mapped to 1
    collateral, stablecoins,     \* balances of the contract
    wallets,                     \* stablecoins of the users
    calls, saved,
    now, activations, claimPeriods,
    paidFor,                     \* vault -> collateral paid for it
    covered, redeemed            \* debt the rate was computed for, redeemed since

frozenVars == <<oracleValue, interestAccumulator, activated, activationTimestamp>>
rateVars == <<collateralStablecoinExchangeRate, leftOverCollateral, exchangeRateComputed, covered>>
claimVars == <<vaultCheck, paidFor, redeemed>>
tokenVars == <<collateral, stablecoins, wallets>>
timeVars == <<now, activations, claimPeriods>>
callVars == <<calls, saved>>
settlementVars == <<owner, vaultData, frozenVars, rateVars, claimVars, tokenVars, timeVars, callVars>>

Idle == calls = << >>
InTime == activated /\ now <= activationTimestamp + DURATION

Debt(normalized) == (normalized * interestAccumulator) \div BASE_INTEREST

\* What a call under way may undo: claims, balances and the owners of the vaults.
Undoable ==
    [vaultCheck |-> vaultCheck, paidFor |-> paidFor, redeemed |-> redeemed,
     collateral |-> collateral, stablecoins |-> stablecoins, wallets |-> wallets,
     owner |-> owner]

-----------------------------------------------------------------------------
ActivateSettlement(price, accumulator) ==
    /\ Idle /\ activations < MaxActivations
    /\ oracleValue' = price /\ interestAccumulator' = accumulator
    /\ activated' = TRUE /\ activationTimestamp' = now
    /\ activations' = activations + 1
    /\ UNCHANGED <<owner, vaultData, rateVars, claimVars, tokenVars, now, claimPeriods, callVars>>

\* _handleRepay, up to the call back: collateral out...
HandleRepay(u, give, due) ==
    /\ Len(calls) < MaxDepth
    /\ collateral >= give
    /\ collateral' = collateral - give
    /\ calls' = Append(calls, [from |-> u, due |-> due])
    /\ saved' = IF Idle THEN {Undoable} ELSE saved
    /\ UNCHANGED <<owner, vaultData, frozenVars, rateVars, stablecoins, wallets, timeVars>>

\* Mutant: nobody checks that the caller has the stablecoins.
SettleOnCredit ==
    /\ ~Idle
    /\ LET call == calls[Len(calls)]
       IN  /\ wallets' = [wallets EXCEPT ![call.from] = @ - call.due]
           /\ stablecoins' = stablecoins + call.due
    /\ calls' = SubSeq(calls, 1, Len(calls) - 1)
    /\ saved' = IF Len(calls) = 1 THEN {} ELSE saved
    /\ UNCHANGED <<owner, vaultData, frozenVars, rateVars, claimVars, collateral, timeVars>>

\* ... then stablecoins in, or all is reverted.
Settle ==
    /\ ~Idle
    /\ LET call == calls[Len(calls)]
       IN  /\ wallets[call.from] >= call.due
           /\ wallets' = [wallets EXCEPT ![call.from] = @ - call.due]
           /\ stablecoins' = stablecoins + call.due
    /\ calls' = SubSeq(calls, 1, Len(calls) - 1)
    /\ saved' = IF Len(calls) = 1 THEN {} ELSE saved
    /\ UNCHANGED <<owner, vaultData, frozenVars, rateVars, claimVars, collateral, timeVars>>

Revert ==
    /\ ~Idle
    /\ \E s \in saved :
          /\ vaultCheck' = s.vaultCheck /\ paidFor' = s.paidFor /\ redeemed' = s.redeemed
          /\ collateral' = s.collateral /\ stablecoins' = s.stablecoins
          /\ wallets' = s.wallets /\ owner' = s.owner
    /\ calls' = << >> /\ saved' = {}
    /\ UNCHANGED <<vaultData, frozenVars, rateVars, timeVars>>

Healthy(vault) ==
    vault.collat * oracleValue * CollateralFactor
        >= Debt(vault.debt) * BASE_PARAMS * CollatBase

\* Mutant: the vault is not marked.
ClaimUnmarked(u, v) ==
    /\ InTime /\ v \notin vaultCheck /\ owner[v] = u /\ Healthy(vaultData[v])
    /\ paidFor' = [paidFor EXCEPT ![v] = @ + vaultData[v].collat]
    /\ HandleRepay(u, vaultData[v].collat, Debt(vaultData[v].debt))
    /\ UNCHANGED <<vaultCheck, redeemed>>

ClaimOverCollateralizedVault(u, v) ==
    /\ InTime /\ v \notin vaultCheck /\ owner[v] = u /\ Healthy(vaultData[v])
    /\ vaultCheck' = vaultCheck \union {v}
    /\ paidFor' = [paidFor EXCEPT ![v] = @ + vaultData[v].collat]
    /\ HandleRepay(u, vaultData[v].collat, Debt(vaultData[v].debt))
    /\ UNCHANGED redeemed

\* The rate and what is left over for `debt` against `balance`: everything is shared out,
\* unless that would be more than the stablecoins are worth.
Shared(balance, debt) == (balance * BASE_STABLECOIN) \div debt
MaxRate == (BASE_STABLECOIN * CollatBase) \div oracleValue
Worth(debt) == (debt * CollatBase) \div oracleValue

TotalDebt == Debt(TotalOf([v \in VaultIDs |-> vaultData[v].debt]))

LeftOverDebt == IF stablecoins < TotalDebt THEN TotalDebt - stablecoins ELSE 0

ActivateGlobalClaimPeriod ==
    /\ Idle /\ claimPeriods < MaxClaimPeriods
    /\ activated /\ ~InTime
    /\ IF LeftOverDebt = 0
       THEN /\ collateralStablecoinExchangeRate' = 0
            /\ UNCHANGED leftOverCollateral
       ELSE IF Shared(collateral, LeftOverDebt) >= MaxRate
       THEN /\ collateral >= Worth(LeftOverDebt)   \* the subtraction is checked
            /\ collateralStablecoinExchangeRate' = MaxRate
            /\ leftOverCollateral' = collateral - Worth(LeftOverDebt)
       ELSE /\ collateralStablecoinExchangeRate' = Shared(collateral, LeftOverDebt)
            /\ UNCHANGED leftOverCollateral
    /\ exchangeRateComputed' = TRUE
    /\ covered' = LeftOverDebt /\ redeemed' = 0
    /\ claimPeriods' = claimPeriods + 1
    /\ UNCHANGED <<owner, vaultData, frozenVars, vaultCheck, paidFor, tokenVars, now,
                   activations, callVars>>

RedeemedFor(amount) == (amount * collateralStablecoinExchangeRate) \div BASE_STABLECOIN

ClaimCollateralFromStablecoins(u, amount) ==
    /\ exchangeRateComputed
    /\ redeemed + amount <= MaxRedeemed
    /\ redeemed' = redeemed + amount
    /\ HandleRepay(u, RedeemedFor(amount), amount)
    /\ UNCHANGED <<vaultCheck, paidFor>>

\* recoverERC20, of collateral and of stablecoins.
\* Mutant: what is left over is not reduced.
RecoverCollateralAgain(amount) ==
    /\ Idle /\ exchangeRateComputed
    /\ leftOverCollateral >= amount /\ collateral >= amount
    /\ collateral' = collateral - amount
    /\ UNCHANGED <<owner, vaultData, frozenVars, rateVars, claimVars, stablecoins, wallets,
                   timeVars, callVars>>

RecoverCollateral(amount) ==
    /\ Idle /\ exchangeRateComputed
    /\ leftOverCollateral >= amount /\ collateral >= amount
    /\ leftOverCollateral' = leftOverCollateral - amount
    /\ collateral' = collateral - amount
    /\ UNCHANGED <<owner, vaultData, frozenVars, collateralStablecoinExchangeRate, covered,
                   exchangeRateComputed, claimVars, stablecoins, wallets, timeVars, callVars>>

RecoverStablecoins(to, amount) ==
    /\ Idle /\ stablecoins >= amount
    /\ stablecoins' = stablecoins - amount
    /\ wallets' = [wallets EXCEPT ![to] = @ + amount]
    /\ UNCHANGED <<owner, vaultData, frozenVars, rateVars, claimVars, collateral, timeVars, callVars>>

\* Users pay one another, and a vault changes hands, in call backs too.
Pay(u, to, amount) ==
    /\ u # to /\ wallets[u] >= amount
    /\ wallets' = [wallets EXCEPT ![u] = @ - amount, ![to] = @ + amount]
    /\ UNCHANGED <<owner, vaultData, frozenVars, rateVars, claimVars, collateral, stablecoins,
                   timeVars, callVars>>

TransferVault(v, to) ==
    /\ owner' = [owner EXCEPT ![v] = to]
    /\ UNCHANGED <<vaultData, frozenVars, rateVars, claimVars, tokenVars, timeVars, callVars>>

Tick ==
    /\ Idle /\ now < MaxTime
    /\ now' = now + 1
    /\ UNCHANGED <<owner, vaultData, frozenVars, rateVars, claimVars, tokenVars, activations,
                   claimPeriods, callVars>>

-----------------------------------------------------------------------------
SettlementInit ==
    /\ owner \in [VaultIDs -> Users]
    /\ vaultData \in [VaultIDs -> [collat : Collaterals, debt : Debts]]
    /\ oracleValue = 0 /\ interestAccumulator = 0 /\ activated = FALSE /\ activationTimestamp = 0
    /\ collateralStablecoinExchangeRate = 0 /\ leftOverCollateral = 0
    /\ exchangeRateComputed = FALSE
    /\ vaultCheck = {}
    /\ collateral = TotalOf([v \in VaultIDs |-> vaultData[v].collat])
    /\ stablecoins = 0
    /\ wallets \in [Users -> Stablecoins]
    /\ now = 0 /\ activations = 0 /\ claimPeriods = 0
    /\ paidFor = [v \in VaultIDs |-> 0]
    /\ covered = 0 /\ redeemed = 0
    /\ calls = << >> /\ saved = {}

SettlementNext ==
    \/ \E price \in Prices, accumulator \in Accumulators : ActivateSettlement(price, accumulator)
    \/ \E u \in Users, v \in VaultIDs : ClaimOverCollateralizedVault(u, v) \/ TransferVault(v, u)
    \/ ActivateGlobalClaimPeriod
    \/ \E u \in Users, amount \in Amounts :
          \/ ClaimCollateralFromStablecoins(u, amount)
          \/ RecoverStablecoins(u, amount)
          \/ \E to \in Users : Pay(u, to, amount)
    \/ \E amount \in Amounts : RecoverCollateral(amount)
    \/ Settle
    \/ Revert
    \/ Tick

SettlementSpec == SettlementInit /\ [][SettlementNext]_settlementVars

-----------------------------------------------------------------------------
\* Properties.

\* Every variable has its type; no balance wraps around.
SettlementTypeOK ==
    /\ owner \in [VaultIDs -> Users]
    /\ vaultData \in [VaultIDs -> [collat : Nat, debt : Nat]]
    /\ oracleValue \in Nat /\ interestAccumulator \in Nat /\ activated \in BOOLEAN
    /\ activationTimestamp \in Nat
    /\ collateralStablecoinExchangeRate \in Nat /\ leftOverCollateral \in Nat
    /\ exchangeRateComputed \in BOOLEAN /\ vaultCheck \subseteq VaultIDs
    /\ collateral \in Nat /\ stablecoins \in Nat /\ wallets \in [Users -> Nat]
    /\ calls \in Seq([from : Users, due : Nat])
    /\ now \in Nat /\ activations \in Nat /\ claimPeriods \in Nat
    /\ paidFor \in [VaultIDs -> Nat]
    /\ covered \in Nat /\ redeemed \in Nat

\* A vault is paid for once, in whatever order the call backs claim, sell and transfer
\* vaults: it is marked before the collateral leaves.
PaidOnce == \A v \in VaultIDs : paidFor[v] <= vaultData[v].collat

\* "The left over debt is the total debt minus the stablecoins which have already been
\* accumulated": while the debt that the rate was computed for is redeemed, the collateral
\* suffices for the rest of it at this rate, and for what governance may recover.
RedemptionsAreCovered ==
    exchangeRateComputed /\ redeemed <= covered =>
        RedeemedFor(covered - redeemed) + leftOverCollateral <= collateral

(***************************************************************************)
(* "In this situation, we're sure that `leftOverCollateral` will be        *)
(* positive" (Settlement.sol:165): when the rate is capped, the collateral *)
(* is worth at least the left over debt.                                   *)
(***************************************************************************)
CappedRateLeavesCollateral ==
    Idle /\ activated /\ ~InTime /\ LeftOverDebt > 0 =>
        (Shared(collateral, LeftOverDebt) >= MaxRate => collateral >= Worth(LeftOverDebt))
=============================================================================
