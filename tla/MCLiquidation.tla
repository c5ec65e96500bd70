---------------------------- MODULE MCLiquidation ----------------------------
(***************************************************************************)
(* Liquidations, and single actions of angle(), over a grid: they start on *)
(* a vault of any size, at any price, for many parameter sets, and with    *)
(* any amounts.  Calls reach all these vaults, in far more steps than here.*)
(***************************************************************************)
EXTENDS VaultManager

CONSTANTS
    GridCollateral, GridDebts, GridAccumulators

MCGrid ==
    [debtCeiling : {100}, collateralFactor : {5, 7}, targetHealthFactor : {10, 13},
     borrowFee : {0}, repayFee : {0}, interestRate : {0}, liquidationSurcharge : {8, 9},
     maxLiquidationDiscount : {1, 2}, boost : {4, 10, 25}, dust : {1, 3},
     dustLiquidation : {1, 3}, dustCollateral : {0, 2}, whitelistingActivated : {FALSE}]

\* The dusts pass the check of setDusts.
MCGridParams == {p \in MCGrid : p.dust <= p.dustLiquidation}

MCNoChoices == [what \in ParamNames |-> {}]

GridInit ==
    /\ vaultIDCount = 1
    /\ owners = [v \in VaultIDs |-> CHOOSE u \in Users : TRUE]
    /\ balances = [u \in Users |-> 1]
    /\ vaultApprovals = [v \in VaultIDs |-> NoOne]
    /\ operatorApprovals = {}
    /\ \E collateral \in GridCollateral, debt \in GridDebts :
          /\ vaultData = [v \in VaultIDs |->
                            [collateralAmount |-> collateral, normalizedDebt |-> debt]]
          /\ totalNormalizedDebt = debt
          /\ custody = collateral
    /\ interestAccumulator \in GridAccumulators
    /\ lastInterestAccumulatorUpdated = 0
    /\ surplus = 0
    /\ badDebt = 0
    /\ params \in InitialParams
    /\ paused = FALSE
    /\ isWhitelisted = {}
    /\ treasury = [minted |-> 0, badDebt |-> 0]
    /\ circulating = MaxCirculating
    /\ foreignDebt = ForeignDebt
    /\ now = 0
    /\ oracleValue \in Prices
    /\ tx = NoTx
    /\ saved = NoSnapshot

GridNext ==
    \/ \E sender \in Users :
          /\ \E v \in VaultIDs :
                Liquidable(vaultData[v], oracleValue, interestAccumulator, params)
          /\ BeginLiquidation(sender, sender)
    \/ \E v \in VaultIDs, amount \in StableAmounts : LiquidateVault(v, amount)
    \/ \E sender \in Users : BeginAngle(sender)
    \/ AngleStep

GridSpec == GridInit /\ [][GridNext]_vars
=============================================================================
