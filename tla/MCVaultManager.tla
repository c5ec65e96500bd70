--------------------------- MODULE MCVaultManager ---------------------------
(***************************************************************************)
(* Instances of VaultManager for TLC.  The bases are small, so that every  *)
(* truncation is worth a lot and happens often.                            *)
(***************************************************************************)
EXTENDS VaultManager

\* 80% collateral factor, 90% surcharge, target 1.1, no fees, no interest.
MCBase ==
    [debtCeiling |-> 5, collateralFactor |-> 8, targetHealthFactor |-> 11,
     borrowFee |-> 0, repayFee |-> 0, interestRate |-> 0, liquidationSurcharge |-> 9,
     maxLiquidationDiscount |-> 1, boost |-> 10, dust |-> 0, dustLiquidation |-> 0,
     dustCollateral |-> 0, whitelistingActivated |-> FALSE]

\* A contract as initialize() leaves it, or that governance has configured with its
\* setters before unpausing it.
ConfiguredInit == Init \/ \E p \in InitialParams : Unused(p)
ConfiguredSpec == ConfiguredInit /\ [][Next]_vars

\* The setters can bring initialize()'s parameters there.
ASSUME ReachableParams ==
    \A p \in InitialParams :
       /\ AcceptedByInitialize(p)
       /\ p.repayFee + p.liquidationSurcharge <= BASE_PARAMS
       /\ p.borrowFee <= BASE_PARAMS
       /\ p.dust <= p.dustLiquidation

\* One run, four families of instances, kept apart by Families.
\* Two vaults under a constant configuration: interest, a dust threshold.
MCVaultsParams == {[MCBase EXCEPT !.interestRate = 1, !.dust = 1, !.dustLiquidation = 2]}

\* One vault with fees, the rate changed while debts run, one action a call.
MCFeesParams == {[MCBase EXCEPT !.interestRate = 1, !.borrowFee = 3, !.repayFee = 3,
                                !.collateralFactor = 7, !.liquidationSurcharge = 7]}

\* One vault, and a user that is a contract and calls back.
MCReentrantParams == {[MCBase EXCEPT !.interestRate = 2]}

MCParams == MCVaultsParams \cup MCFeesParams \cup MCReentrantParams

\* Every setter, in any order, with values that are accepted or refused.
MCChoices ==
    [CF |-> {0, 7, 10}, THF |-> {9, 12}, BF |-> {3, 11}, RF |-> {0, 3, 10}, IR |-> {1, 2},
     LS |-> {0, 7, 10}, MLD |-> {10, 11}, ceiling |-> {7}, boost |-> {0, 5},
     dusts |-> {0, 3}]

\* The other VaultManagers: one borrows at a higher fee, one has no fee.
MCRemoteFees == {<<4, 0>>, <<0, 0>>}

\* Only a user that is not a contract acts.
NoContracts ==
    /\ tx.sender \notin Contracts
    /\ \A v \in VaultIDs : owners[v] \notin Contracts /\ vaultApprovals[v] \notin Contracts
    /\ operatorApprovals = {}

TwoVaults ==
    /\ NoContracts /\ params \in MCVaultsParams /\ foreignDebt = 0 /\ isWhitelisted = {}
OneVaultWithFees ==
    /\ NoContracts /\ vaultIDCount <= 1 /\ oracleValue = 3 /\ tx.actions <= 1
    /\ isWhitelisted = {}
    /\ \A v \in VaultIDs : vaultData[v].collateralAmount <= 3
    /\ params \in {[p EXCEPT !.interestRate = ir] : p \in MCFeesParams, ir \in {1, 2}}
NoVaultYet ==
    /\ NoContracts /\ vaultIDCount = 0 /\ foreignDebt = 0 /\ now = 0 /\ oracleValue = 1 /\ paused
    /\ isWhitelisted = {} \/ params.whitelistingActivated
Reentrant ==
    /\ vaultIDCount <= 1 /\ oracleValue = 1 /\ custody <= 3 /\ circulating <= 2
    /\ params \in MCReentrantParams /\ isWhitelisted = {} /\ operatorApprovals = {}
    /\ {tx.stableToReceive, tx.stableToGive} \subseteq 0..2
    /\ tx.collateralToReceive <= 3
Families == TwoVaults \/ OneVaultWithFees \/ NoVaultYet \/ Reentrant
=============================================================================
