----------------------------- MODULE MCTreasury -----------------------------
(***************************************************************************)
(* Instances of Treasury.  ConfiguredInit is what governance sets up, with *)
(* the operations of the module, before lending starts: the VaultManagers  *)
(* registered in any order, the flash loan module FirstModule installed,   *)
(* half of the surplus for governance, other minters and the treasury made *)
(* minters, as burning bad debt requires.                                  *)
(***************************************************************************)
EXTENDS Treasury, TLC

CONSTANT FirstModule

MCFlashParams == {<<1, 1>>}

\* VaultManagers are interchangeable: all the orders of the first list are initial.
MCSymmetry == Permutations(VaultManagers)

FirstLists ==
    {list \in [1..Cardinality(VaultManagers) -> VaultManagers] :
        \A i, j \in DOMAIN list : i # j => list[i] # list[j]}

ConfiguredInit ==
    /\ debt = [vm \in VaultManagers |-> 0]
    /\ surplus = [vm \in VaultManagers |-> 0]
    /\ lost = [vm \in VaultManagers |-> 0]
    /\ treasuryOf = [vm \in VaultManagers |-> FirstTreasury]
    /\ issued = 0 /\ renounced = 0
    /\ surplusBuffer = [t \in Treasuries |-> 0]
    /\ badDebt = [t \in Treasuries |-> 0]
    /\ \E list \in FirstLists :
          vaultManagerList = [t \in Treasuries |-> IF t = FirstTreasury THEN list ELSE << >>]
    /\ vaultManagerMap = [t \in Treasuries |-> IF t = FirstTreasury THEN VaultManagers ELSE {}]
    /\ flashLoanModule = [t \in Treasuries |->
                             IF t = FirstTreasury THEN FirstModule ELSE NoModule]
    /\ surplusManager = [t \in Treasuries |->
                            IF t = FirstTreasury THEN Recipient ELSE NoManager]
    /\ surplusForGovernance = [t \in Treasuries |-> IF t = FirstTreasury THEN 1 ELSE 0]
    /\ coreModule = FirstModule
    /\ flashLoaners = {FirstTreasury}
    /\ balanceOf = [a \in Accounts |-> 0]
    /\ isMinter = VaultManagers \union {FirstTreasury, FirstModule} \union OtherMinters
    /\ tokenTreasury = FirstTreasury
    /\ supported = [m \in FlashModules |-> IF m = FirstModule THEN FirstTreasury ELSE NoTreasury]
    /\ flashLoanFee = [m \in FlashModules |-> IF m = FirstModule THEN 1 ELSE 0]
    /\ maxBorrowable = [m \in FlashModules |-> IF m = FirstModule THEN 1 ELSE 0]
    /\ loan = NoLoan
    /\ saved = NoSnapshot

ConfiguredSpec == ConfiguredInit /\ [][Next]_vars
=============================================================================
