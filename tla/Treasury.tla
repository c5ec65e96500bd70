------------------------------ MODULE Treasury ------------------------------
(***************************************************************************)
(* The accounting of one stablecoin and the wiring behind it: its Treasury *)
(* (and the one it may be replaced with), the registered VaultManagers, the*)
(* flash loan modules, the minters of the token, and the part of CoreBorrow*)
(* that installs flash loan modules.                                       *)
(*                                                                         *)
(* A VaultManager is here what its Treasury sees of it: the debts of its   *)
(* vaults as one number, a surplus and a bad debt to accrue (module        *)
(* VaultManager has the detail).  Its surplus is the one _accrue would     *)
(* give at this time.                                                      *)
(*                                                                         *)
(* Everything is one step except a flash loan, whose borrower can make any *)
(* of the other calls before the loan is collected or rolled back.         *)
(***************************************************************************)
EXTENDS FlashAngle, Sequences, Counting

CONSTANTS
    Treasuries,
    VaultManagers,
    FirstTreasury,       \* the treasury of the token and of the VaultManagers at first
    OtherMinters,        \* contracts outside of the module that governance lets mint
    Recipient,           \* the surplus manager; recovered stablecoins go there too
    NoManager,
    Managers,            \* what setSurplusManager is tried with
    BASE_9,
    Amounts,             \* the amounts in calls
    Shares,              \* the values tried for surplusForGovernance
    FlashParams,         \* the <<fee, max>> tried for flash loans
    MinterChoices,       \* what governance adds with addMinter
    DirectRoles,         \* whether governors also call grantRole and revokeRole
    MaxBacking,          \* bound on what backs the stablecoins
    MaxCallback          \* bound on the calls a flash borrower makes

Minters == Treasuries \union VaultManagers \union FlashModules \union OtherMinters

ASSUME TreasuryAssumption ==
    /\ Accounts = Treasuries \union FlashModules \union {Public, Recipient}
    /\ FirstTreasury \in Treasuries
    /\ NoTreasury \notin Treasuries /\ NoModule \notin Minters
    /\ Treasuries \intersect FlashModules = {}
    /\ VaultManagers \intersect (Treasuries \union FlashModules \union OtherMinters) = {}
    /\ Public \notin Treasuries \union FlashModules
    /\ Recipient \notin Treasuries \union FlashModules \union {Public}
    /\ NoModule \notin Accounts
    /\ BASE_9 \in Nat \ {0} /\ BASE_PARAMS \in Nat \ {0}
    /\ Amounts \subseteq Nat /\ Shares \subseteq Nat /\ FlashParams \subseteq Nat \X Nat
    /\ MinterChoices \subseteq Minters
    /\ Managers \subseteq {Recipient}
    /\ DirectRoles \in BOOLEAN
    /\ MaxBacking \in Nat /\ MaxCallback \in Nat

VARIABLES
    debt,                  \* VaultManager -> the debts of its vaults
    surplus,               \* VaultManager -> its surplus, interest up to now included
    lost,                  \* VaultManager -> its badDebt
    treasuryOf,            \* VaultManager -> its `treasury`
    issued,                \* what the other minters have minted and not burnt
    renounced,             \* what holders have burnt for nothing
    surplusBuffer,         \* and the storage of each Treasury
    badDebt,
    vaultManagerList,
    vaultManagerMap,       \* the addresses mapped to 1
    flashLoanModule,
    surplusManager,        \* NoManager until it is set
    surplusForGovernance,
    coreModule,            \* CoreBorrow: flashLoanModule
    flashLoaners,          \* CoreBorrow: the members of FLASHLOANER_TREASURY_ROLE
    saved                  \* the state a flash loan that fails goes back to

vmVars     == <<debt, surplus, lost>>
othersVars == <<issued, renounced>>
bufferVars == <<surplusBuffer, badDebt>>
registryVars == <<vaultManagerList, vaultManagerMap>>
paramVars  == <<surplusManager, surplusForGovernance>>
coreVars   == <<coreModule, flashLoaners>>
wiringVars == <<treasuryOf, registryVars, flashLoanModule, coreVars, tokenTreasury>>
vars == <<vmVars, othersVars, bufferVars, paramVars, wiringVars, balanceOf, isMinter,
          flashVars, loan, saved>>

-----------------------------------------------------------------------------
\* Borrowing, on any VaultManager.  All of it needs the right to mint and burn,
\* except interest.

Excess(a, b) == IF a >= b THEN a - b ELSE 0

\* What backs the stablecoins: debts, losses on record, and what other minters hold.
Backing == TotalOf(debt) + TotalOf(lost) + TotalOf(badDebt) + issued

\* A loan of `amount`, of which the borrower does not get the fee.
Borrow(vm, amount, fee) ==
    /\ vm \in isMinter
    /\ fee <= amount
    /\ Backing + amount <= MaxBacking
    /\ balanceOf' = Minted(balanceOf, Public, amount - fee)
    /\ debt' = [debt EXCEPT ![vm] = @ + amount]
    /\ surplus' = [surplus EXCEPT ![vm] = @ + fee]
    /\ UNCHANGED <<lost, othersVars, bufferVars, paramVars, wiringVars, isMinter, flashVars>>

\* `amount` is burnt, a fee (or the surcharge of a liquidation) goes to the
\* surplus and the rest takes debt off.  In a liquidation that exhausts the
\* collateral, the debt left over becomes bad debt.
Repay(vm, amount, fee, loss) ==
    /\ vm \in isMinter
    /\ fee <= amount /\ amount <= balanceOf[Public]
    /\ amount - fee + loss <= debt[vm]
    /\ balanceOf' = Burned(balanceOf, Public, amount)
    /\ debt' = [debt EXCEPT ![vm] = @ - (amount - fee + loss)]
    /\ surplus' = [surplus EXCEPT ![vm] = @ + fee]
    /\ lost' = [lost EXCEPT ![vm] = @ + loss]
    /\ UNCHANGED <<othersVars, bufferVars, paramVars, wiringVars, isMinter, flashVars>>

\* Time makes debts and the surplus grow by the same amount.
Earn(vm, interest) ==
    /\ Backing + interest <= MaxBacking
    /\ debt' = [debt EXCEPT ![vm] = @ + interest]
    /\ surplus' = [surplus EXCEPT ![vm] = @ + interest]
    /\ UNCHANGED <<balanceOf, lost, othersVars, bufferVars, paramVars, wiringVars, isMinter,
                   flashVars>>

-----------------------------------------------------------------------------
\* Holders and other minters.

HoldersOnly ==
    UNCHANGED <<vmVars, bufferVars, paramVars, wiringVars, isMinter, flashVars>>

Issue(minter, amount) ==
    /\ minter \in isMinter
    /\ Backing + amount <= MaxBacking
    /\ balanceOf' = Minted(balanceOf, Public, amount)
    /\ issued' = issued + amount
    /\ HoldersOnly /\ UNCHANGED renounced

Redeem(minter, amount) ==
    /\ minter \in isMinter
    /\ amount <= issued /\ amount <= balanceOf[Public]
    /\ balanceOf' = Burned(balanceOf, Public, amount)
    /\ issued' = issued - amount
    /\ HoldersOnly /\ UNCHANGED renounced

Transfer(from, to, amount) ==
    /\ amount <= balanceOf[from]
    /\ balanceOf' = Transferred(balanceOf, from, to, amount)
    /\ HoldersOnly /\ UNCHANGED othersVars

\* burnStablecoin: a gift to everybody else.
BurnStablecoin(amount) ==
    /\ amount <= balanceOf[Public]
    /\ balanceOf' = Burned(balanceOf, Public, amount)
    /\ renounced' = renounced + amount
    /\ HoldersOnly /\ UNCHANGED issued

\* removeMinter called by the minter itself.
Resign(minter) ==
    /\ MinterRemoved(minter, minter)
    /\ UNCHANGED <<vmVars, othersVars, bufferVars, paramVars, wiringVars, balanceOf, flashVars>>

-----------------------------------------------------------------------------
\* Surplus and bad debt, pooled.

Listed(t) == {vaultManagerList[t][i] : i \in DOMAIN vaultManagerList[t]}

\* Mutant: the VaultManager mints its surplus without taking its bad debt off.
GrossSurplus(vm) == IF surplus[vm] >= lost[vm] THEN surplus[vm] ELSE 0

\* VaultManager.accrueInterestToTreasury: surplus and bad debt cancel out, the
\* difference is minted or reported.
NetSurplus(vm) == Excess(surplus[vm], lost[vm])
NetLoss(vm) == Excess(lost[vm], surplus[vm])
CanAccrue(vm, caller) ==
    /\ treasuryOf[vm] = caller
    /\ surplus[vm] >= lost[vm] => vm \in isMinter

FeesFor(t) == IF flashLoanModule[t] = NoModule THEN 0 ELSE balanceOf[flashLoanModule[t]]

\* _fetchSurplusFromAll: the three values before the reconciliation ...
Collected(t) == TotalOf([vm \in Listed(t) |-> NetSurplus(vm)]) + FeesFor(t)
Losses(t) == badDebt[t] + TotalOf([vm \in Listed(t) |-> NetLoss(vm)])

\* ... and _updateSurplusAndBadDebt, on a balance, a buffer and a bad debt.
ToBurn(balance, losses) == IF losses = 0 THEN 0 ELSE IF balance <= losses THEN balance ELSE losses
BufferAfterBurn(buffer, burnt) == Excess(buffer, burnt)

BurntBy(t) == ToBurn(balanceOf[t] + Collected(t), Losses(t))
BalanceAfterFetch(t) == balanceOf[t] + Collected(t) - BurntBy(t)
BufferAfterFetch(t) == BufferAfterBurn(surplusBuffer[t] + Collected(t), BurntBy(t))

\* fetchSurplusFromAll by t, which then keeps `buffer` and sends `paid` to the
\* surplus manager: what fetchSurplusFromAll, pushSurplus and recoverERC20 share.
FetchAndPay(t, buffer, paid) ==
    /\ \A vm \in Listed(t) : CanAccrue(vm, t)
    /\ flashLoanModule[t] # NoModule => CanAccrueFees(flashLoanModule[t], t)
    /\ Losses(t) # 0 => t \in isMinter
    /\ balanceOf' = [a \in Accounts |->
                        IF a = t THEN BalanceAfterFetch(t) - paid
                        ELSE IF a = flashLoanModule[t] THEN 0
                        ELSE IF a = Recipient THEN balanceOf[a] + paid
                        ELSE balanceOf[a]]
    /\ surplus' = [vm \in VaultManagers |-> IF vm \in Listed(t) THEN 0 ELSE surplus[vm]]
    /\ lost' = [vm \in VaultManagers |-> IF vm \in Listed(t) THEN 0 ELSE lost[vm]]
    /\ surplusBuffer' = [surplusBuffer EXCEPT ![t] = buffer]
    /\ badDebt' = [badDebt EXCEPT ![t] = Losses(t) - BurntBy(t)]
    /\ UNCHANGED <<debt, othersVars, paramVars, wiringVars, isMinter, flashVars>>

FetchSurplusFromAll(t) == FetchAndPay(t, BufferAfterFetch(t), 0)

GovernanceAllocation(t) == (surplusForGovernance[t] * BufferAfterFetch(t)) \div BASE_9

\* Mutant: the buffer is shared out without fetching what the VaultManagers lost.
PushSurplusStale(t) ==
    LET paid == (surplusForGovernance[t] * surplusBuffer[t]) \div BASE_9
    IN  /\ surplusManager[t] # NoManager
        /\ balanceOf' = Transferred(balanceOf, t, Recipient, paid)
        /\ surplusBuffer' = [surplusBuffer EXCEPT ![t] = 0]
        /\ UNCHANGED <<vmVars, othersVars, badDebt, paramVars, wiringVars, isMinter, flashVars>>

PushSurplus(t) ==
    /\ surplusManager[t] # NoManager
    /\ FetchAndPay(t, 0, GovernanceAllocation(t))

\* Mutant: the buffer is not set apart.
RecoverERC20FromBuffer(t, amount) ==
    /\ amount <= BalanceAfterFetch(t)
    /\ FetchAndPay(t, BufferAfterFetch(t), amount)

\* recoverERC20 of the stablecoin.  Other tokens have no part in this.
RecoverERC20(t, amount) ==
    /\ amount + BufferAfterFetch(t) <= BalanceAfterFetch(t)
    /\ FetchAndPay(t, BufferAfterFetch(t), amount)

\* Mutant: the fees go to the buffer without meeting the bad debt.
FetchSurplusFromFlashLoanOnly(t) ==
    /\ flashLoanModule[t] # NoModule
    /\ CanAccrueFees(flashLoanModule[t], t)
    /\ balanceOf' = [balanceOf EXCEPT ![t] = @ + FeesFor(t), ![flashLoanModule[t]] = 0]
    /\ surplusBuffer' = [surplusBuffer EXCEPT ![t] = @ + FeesFor(t)]
    /\ UNCHANGED <<vmVars, othersVars, badDebt, paramVars, wiringVars, isMinter, flashVars>>

\* The module must be set: a call to the zero address reverts.
FetchSurplusFromFlashLoan(t) ==
    LET balance == balanceOf[t] + FeesFor(t)
        burnt == ToBurn(balance, badDebt[t])
    IN  /\ flashLoanModule[t] # NoModule
        /\ CanAccrueFees(flashLoanModule[t], t)
        /\ badDebt[t] # 0 => t \in isMinter
        /\ balanceOf' = [balanceOf EXCEPT ![t] = balance - burnt, ![flashLoanModule[t]] = 0]
        /\ surplusBuffer' = [surplusBuffer EXCEPT
                                ![t] = BufferAfterBurn(surplusBuffer[t] + FeesFor(t), burnt)]
        /\ badDebt' = [badDebt EXCEPT ![t] = @ - burnt]
        /\ UNCHANGED <<vmVars, othersVars, paramVars, wiringVars, isMinter, flashVars>>

\* Mutant: more than the bad debt can be burnt: an unchecked subtraction.
UpdateBadDebtUnchecked(t, amount) ==
    /\ t \in isMinter
    /\ amount <= balanceOf[t]
    /\ balanceOf' = Burned(balanceOf, t, amount)
    /\ badDebt' = [badDebt EXCEPT ![t] = @ - amount]
    /\ UNCHANGED <<vmVars, othersVars, surplusBuffer, paramVars, wiringVars, isMinter, flashVars>>

UpdateBadDebt(t, amount) ==
    /\ t \in isMinter
    /\ amount <= balanceOf[t] /\ amount <= badDebt[t]
    /\ balanceOf' = Burned(balanceOf, t, amount)
    /\ badDebt' = [badDebt EXCEPT ![t] = @ - amount]
    /\ UNCHANGED <<vmVars, othersVars, surplusBuffer, paramVars, wiringVars, isMinter, flashVars>>

-----------------------------------------------------------------------------
\* Registration.  Only a governor of `core` calls these.

MoneyUnchanged == UNCHANGED <<vmVars, othersVars, bufferVars, balanceOf>>

AddVaultManager(t, vm) ==
    /\ vm \notin vaultManagerMap[t]
    /\ treasuryOf[vm] = t
    /\ MintersAdded(t, {vm})
    /\ vaultManagerMap' = [vaultManagerMap EXCEPT ![t] = @ \union {vm}]
    /\ vaultManagerList' = [vaultManagerList EXCEPT ![t] = Append(@, vm)]
    /\ MoneyUnchanged
    /\ UNCHANGED <<treasuryOf, flashLoanModule, coreVars, tokenTreasury, paramVars, flashVars>>

\* Mutant: the last place is dropped whatever it holds.
ListWithoutLast(list, vm) == [i \in 1..(Len(list) - 1) |-> list[i]]

\* The loop stops at the first occurrence before the last place and puts the
\* last one there; then the last place is dropped.
ListWithout(list, vm) ==
    LET last == Len(list)
        first == {i \in 1..(last - 1) : list[i] = vm /\ \A j \in 1..(i - 1) : list[j] # vm}
    IN  [i \in 1..(last - 1) |-> IF i \in first THEN list[last] ELSE list[i]]

RemoveVaultManager(t, vm) ==
    /\ vm \in vaultManagerMap[t]
    /\ MinterRemoved(t, vm)
    /\ vaultManagerMap' = [vaultManagerMap EXCEPT ![t] = @ \ {vm}]
    /\ vaultManagerList' = [vaultManagerList EXCEPT ![t] = ListWithout(@, vm)]
    /\ MoneyUnchanged
    /\ UNCHANGED <<treasuryOf, flashLoanModule, coreVars, tokenTreasury, paramVars, flashVars>>

AddMinter(t, minter) ==
    /\ MintersAdded(t, {minter})
    /\ MoneyUnchanged
    /\ UNCHANGED <<paramVars, wiringVars, flashVars>>

\* Mutant: VaultManagers are not protected.
RemoveAnyMinter(t, minter) ==
    /\ MinterRemoved(t, minter)
    /\ MoneyUnchanged
    /\ UNCHANGED <<paramVars, wiringVars, flashVars>>

RemoveMinter(t, minter) ==
    /\ minter \notin vaultManagerMap[t]
    /\ MinterRemoved(t, minter)
    /\ MoneyUnchanged
    /\ UNCHANGED <<paramVars, wiringVars, flashVars>>

\* The rights go to another treasury of the same stablecoin.
SetTreasury(t, new) ==
    /\ t \notin flashLoaners
    /\ \A vm \in Listed(t) : treasuryOf[vm] = t
    /\ TokenTreasurySet(t, new)
    /\ treasuryOf' = [vm \in VaultManagers |-> IF vm \in Listed(t) THEN new ELSE treasuryOf[vm]]
    /\ MoneyUnchanged
    /\ UNCHANGED <<registryVars, flashLoanModule, coreVars, isMinter, paramVars, flashVars>>

SetSurplusForGovernance(t, share) ==
    /\ share <= BASE_9
    /\ surplusForGovernance' = [surplusForGovernance EXCEPT ![t] = share]
    /\ MoneyUnchanged
    /\ UNCHANGED <<surplusManager, wiringVars, isMinter, flashVars>>

SetSurplusManager(t, manager) ==
    /\ surplusManager' = [surplusManager EXCEPT ![t] = manager]
    /\ MoneyUnchanged
    /\ UNCHANGED <<surplusForGovernance, wiringVars, isMinter, flashVars>>

SetParameters(m, params) ==
    /\ SetFlashLoanParameters(m, params[1], params[2])
    /\ MoneyUnchanged
    /\ UNCHANGED <<paramVars, wiringVars, isMinter>>

-----------------------------------------------------------------------------
\* Flash loan modules, installed by CoreBorrow.

\* Mutant: the old module keeps its right.
ModuleInstalledBeside(treasuries, new) ==
    /\ \A t \in treasuries :
          flashLoanModule[t] # NoModule \/ new # NoModule => t = tokenTreasury
    /\ flashLoanModule' = [t \in Treasuries |->
                              IF t \in treasuries THEN new ELSE flashLoanModule[t]]
    /\ isMinter' = isMinter \union (IF treasuries = {} THEN {} ELSE {new} \ {NoModule})

\* Treasury.setFlashLoanModule on each of `treasuries`: the right to mint goes
\* from the old module to the new one.  Only the treasury of the token may move it.
ModuleInstalled(treasuries, new) ==
    LET old == {flashLoanModule[t] : t \in treasuries} \ {NoModule}
        added == IF treasuries = {} THEN {} ELSE {new} \ {NoModule}
    IN  /\ \A t \in treasuries :
              flashLoanModule[t] # NoModule \/ new # NoModule => t = tokenTreasury
        /\ flashLoanModule' = [t \in Treasuries |->
                                  IF t \in treasuries THEN new ELSE flashLoanModule[t]]
        /\ isMinter' = (isMinter \ old) \union added

CoreUnchanged ==
    /\ MoneyUnchanged
    /\ UNCHANGED <<treasuryOf, registryVars, tokenTreasury, paramVars>>

\* The new module gets no support for the stablecoins here.
SetFlashLoanModule(new) ==
    /\ ModuleInstalled(flashLoaners, new)
    /\ coreModule' = new
    /\ CoreUnchanged /\ UNCHANGED <<flashLoaners, flashVars>>

AddFlashLoanerTreasuryRole(t) ==
    /\ flashLoaners' = flashLoaners \union {t}
    /\ IF coreModule = NoModule
       THEN UNCHANGED <<flashLoanModule, isMinter, flashVars>>
       ELSE ModuleInstalled({t}, coreModule) /\ StablecoinSupportAdded(coreModule, t)
    /\ CoreUnchanged /\ UNCHANGED coreModule

RemoveFlashLoanerTreasuryRole(t) ==
    /\ flashLoaners' = flashLoaners \ {t}
    /\ ModuleInstalled({t}, NoModule)
    /\ IF coreModule = NoModule
       THEN UNCHANGED flashVars
       ELSE StablecoinSupportRemoved(coreModule)
    /\ CoreUnchanged /\ UNCHANGED coreModule

\* The role can also be granted and revoked without the rest.
GrantOrRevokeRole(t) ==
    /\ DirectRoles
    /\ flashLoaners' \in {flashLoaners \union {t}, flashLoaners \ {t}}
    /\ CoreUnchanged
    /\ UNCHANGED <<flashLoanModule, isMinter, flashVars, coreModule>>

-----------------------------------------------------------------------------
\* Flash loans and their rollback

Snapshot ==
    [debt |-> debt, surplus |-> surplus, lost |-> lost, treasuryOf |-> treasuryOf,
     issued |-> issued, renounced |-> renounced,
     surplusBuffer |-> surplusBuffer, badDebt |-> badDebt,
     vaultManagerList |-> vaultManagerList, vaultManagerMap |-> vaultManagerMap,
     flashLoanModule |-> flashLoanModule, surplusManager |-> surplusManager,
     surplusForGovernance |-> surplusForGovernance, coreModule |-> coreModule,
     flashLoaners |-> flashLoaners, balanceOf |-> balanceOf, isMinter |-> isMinter,
     tokenTreasury |-> tokenTreasury, supported |-> supported,
     flashLoanFee |-> flashLoanFee, maxBorrowable |-> maxBorrowable]

NoSnapshot == "none"

AccountingUnchanged ==
    UNCHANGED <<vmVars, othersVars, bufferVars, registryVars, treasuryOf, flashLoanModule,
                paramVars, coreVars>>

BeginFlashLoan(m, amount) ==
    /\ Lend(m, amount)
    /\ saved' = Snapshot
    /\ AccountingUnchanged

EndFlashLoan ==
    /\ CollectLoan
    /\ saved' = NoSnapshot
    /\ AccountingUnchanged

\* Whatever fails undoes the loan and all that the borrower did.
RevertFlashLoan ==
    /\ loan # NoLoan
    /\ loan' = NoLoan
    /\ saved' = NoSnapshot
    /\ debt' = saved.debt /\ surplus' = saved.surplus /\ lost' = saved.lost
    /\ issued' = saved.issued /\ renounced' = saved.renounced
    /\ treasuryOf' = saved.treasuryOf
    /\ surplusBuffer' = saved.surplusBuffer /\ badDebt' = saved.badDebt
    /\ vaultManagerList' = saved.vaultManagerList
    /\ vaultManagerMap' = saved.vaultManagerMap
    /\ flashLoanModule' = saved.flashLoanModule
    /\ surplusManager' = saved.surplusManager
    /\ surplusForGovernance' = saved.surplusForGovernance
    /\ coreModule' = saved.coreModule /\ flashLoaners' = saved.flashLoaners
    /\ balanceOf' = saved.balanceOf /\ isMinter' = saved.isMinter
    /\ tokenTreasury' = saved.tokenTreasury /\ supported' = saved.supported
    /\ flashLoanFee' = saved.flashLoanFee /\ maxBorrowable' = saved.maxBorrowable

-----------------------------------------------------------------------------
\* Before anything is registered.
Init ==
    /\ debt = [vm \in VaultManagers |-> 0]
    /\ surplus = [vm \in VaultManagers |-> 0]
    /\ lost = [vm \in VaultManagers |-> 0]
    /\ treasuryOf = [vm \in VaultManagers |-> FirstTreasury]
    /\ issued = 0 /\ renounced = 0
    /\ surplusBuffer = [t \in Treasuries |-> 0]
    /\ badDebt = [t \in Treasuries |-> 0]
    /\ vaultManagerList = [t \in Treasuries |-> << >>]
    /\ vaultManagerMap = [t \in Treasuries |-> {}]
    /\ flashLoanModule = [t \in Treasuries |-> NoModule]
    /\ surplusManager = [t \in Treasuries |-> NoManager]
    /\ surplusForGovernance = [t \in Treasuries |-> 0]
    /\ coreModule = NoModule
    /\ flashLoaners = {}
    /\ balanceOf = [a \in Accounts |-> 0]
    /\ isMinter = {}
    /\ tokenTreasury = FirstTreasury
    /\ supported = [m \in FlashModules |-> NoTreasury]
    /\ flashLoanFee = [m \in FlashModules |-> 0]
    /\ maxBorrowable = [m \in FlashModules |-> 0]
    /\ loan = NoLoan
    /\ saved = NoSnapshot

\* Users, liquidators, other minters and time.
Users ==
    \/ \E vm \in VaultManagers, amount, fee \in Amounts :
          \/ Borrow(vm, amount, fee)
          \/ \E loss \in Amounts : Repay(vm, amount, fee, loss)
    \/ \E vm \in VaultManagers, interest \in Amounts : Earn(vm, interest)
    \/ \E minter \in OtherMinters, amount \in Amounts :
          Issue(minter, amount) \/ Redeem(minter, amount)
    \/ \E minter \in OtherMinters : Resign(minter)
    \/ \E from \in {Public, Recipient}, to \in Accounts \ {Recipient}, amount \in Amounts :
          Transfer(from, to, amount)
    \/ \E amount \in Amounts : BurnStablecoin(amount)

Accounting ==
    \E t \in Treasuries :
        \/ FetchSurplusFromAll(t)
        \/ FetchSurplusFromFlashLoan(t)
        \/ PushSurplus(t)
        \/ \E amount \in Amounts : UpdateBadDebt(t, amount) \/ RecoverERC20(t, amount)

Governance ==
    \/ \E t \in Treasuries, vm \in VaultManagers :
          AddVaultManager(t, vm) \/ RemoveVaultManager(t, vm)
    \/ \E t \in Treasuries, minter \in MinterChoices : AddMinter(t, minter)
    \/ \E t \in Treasuries, minter \in Minters : RemoveMinter(t, minter)
    \/ \E t, new \in Treasuries : SetTreasury(t, new)
    \/ \E t \in Treasuries, share \in Shares : SetSurplusForGovernance(t, share)
    \/ \E t \in Treasuries, manager \in Managers : SetSurplusManager(t, manager)
    \/ \E m \in FlashModules, params \in FlashParams : SetParameters(m, params)
    \/ \E new \in FlashModules \union {NoModule} : SetFlashLoanModule(new)
    \/ \E t \in Treasuries :
          \/ AddFlashLoanerTreasuryRole(t)
          \/ RemoveFlashLoanerTreasuryRole(t)
          \/ GrantOrRevokeRole(t)

\* One call, by itself or in the callback of a flash loan.
Call ==
    /\ Users \/ Accounting \/ Governance
    /\ loan = NoLoan \/ loan.steps < MaxCallback
    /\ loan' = IF loan = NoLoan THEN NoLoan ELSE [loan EXCEPT !.steps = @ + 1]
    /\ UNCHANGED saved

Next ==
    \/ Call
    \/ \E m \in FlashModules, amount \in Amounts : BeginFlashLoan(m, amount)
    \/ EndFlashLoan
    \/ RevertFlashLoan

Spec == Init /\ [][Next]_vars

-----------------------------------------------------------------------------
(***************************************************************************)
(* Properties                                                              *)
(***************************************************************************)

StateTypes(st) ==
    /\ {st.debt, st.surplus, st.lost} \subseteq [VaultManagers -> Nat]
    /\ st.treasuryOf \in [VaultManagers -> Treasuries]
    /\ st.issued \in Nat /\ st.renounced \in Nat
    /\ {st.surplusBuffer, st.badDebt} \subseteq [Treasuries -> Nat]
    /\ st.vaultManagerList \in [Treasuries -> Seq(VaultManagers)]
    /\ st.vaultManagerMap \in [Treasuries -> SUBSET VaultManagers]
    /\ st.flashLoanModule \in [Treasuries -> FlashModules \union {NoModule}]
    /\ st.surplusManager \in [Treasuries -> {Recipient, NoManager}]
    /\ st.surplusForGovernance \in [Treasuries -> 0..BASE_9]
    /\ st.coreModule \in FlashModules \union {NoModule}
    /\ st.flashLoaners \subseteq Treasuries
    /\ st.balanceOf \in [Accounts -> Nat]
    /\ st.isMinter \subseteq Minters
    /\ st.tokenTreasury \in Treasuries
    /\ st.supported \in [FlashModules -> Treasuries \union {NoTreasury}]
    /\ st.flashLoanFee \in [FlashModules -> 0..BASE_PARAMS]
    /\ st.maxBorrowable \in [FlashModules -> Nat]

\* Every variable has its type; unsigned amounts never go below zero.
TypeOK ==
    /\ StateTypes(Snapshot)
    /\ loan \in [module : FlashModules \union {NoModule}, amount : Nat, fee : Nat, steps : Nat]
    /\ IF loan = NoLoan THEN saved = NoSnapshot ELSE StateTypes(saved)

\* Every stablecoin in existence, and every one the VaultManagers may still
\* mint as surplus, answers to a debt, to a loss on record, to another minter
\* or to the loan in progress; and nothing earned disappears: the two sides are
\* equal but for what holders burn for nothing.  This is what minting by
\* accrueInterestToTreasury, burning in _updateSurplusAndBadDebt and in
\* updateBadDebt, and flash loans must respect together.
StablecoinsAddUp ==
    TotalOf(balanceOf) + TotalOf(surplus) + renounced = Backing + loan.amount

\* A treasury holds at least the stablecoins its surplusBuffer counts (the
\* comment of _updateSurplusAndBadDebt, Treasury.sol:263, relies on it).
BufferIsBacked == \A t \in Treasuries : surplusBuffer[t] <= balanceOf[t]

\* A treasury never has both a surplus and a bad debt, whichever of the VaultManagers
\* and the flash loan module was accrued, and when.
LossesComeFirst == \A t \in Treasuries : badDebt[t] # 0 => surplusBuffer[t] = 0

\* The list and the map of VaultManagers agree, each being there once, after any
\* additions and removals: a VaultManager listed twice, or only mapped, would
\* be accrued wrongly or never.
RegistryConsistent ==
    \A t \in Treasuries : /\ vaultManagerMap[t] = Listed(t)
                          /\ Len(vaultManagerList[t]) = Cardinality(Listed(t))

\* What a treasury in charge of the token has registered, and is the treasury
\* of, can mint: neither removeMinter nor the moves of flash loan modules nor a
\* treasury that took over meanwhile leaves a VaultManager unable to lend or accrue.
RegisteredCanMint ==
    \A vm \in vaultManagerMap[tokenTreasury] :
        treasuryOf[vm] = tokenTreasury => vm \in isMinter

\* Whoever can mint was added by governance for itself, is registered in a
\* treasury or is the flash loan module of one: no change of module or treasury
\* leaves a right behind.
MintersHaveAReason ==
    isMinter \subseteq MinterChoices \union (UNION {vaultManagerMap[t] : t \in Treasuries})
                                     \union {flashLoanModule[t] : t \in Treasuries}

\* Nothing leaves a treasury for the surplus manager while that treasury or a
\* VaultManager of it has a loss on record, and what leaves is not the buffer.
PaidOnlyWithoutLosses ==
    [][balanceOf'[Recipient] > balanceOf[Recipient] /\ (loan' = NoLoan => loan = NoLoan) =>
          \E t \in Treasuries : /\ badDebt'[t] = 0
                                /\ \A vm \in vaultManagerMap[t] : lost'[vm] = 0
                                /\ surplusBuffer'[t] <= balanceOf'[t]]_vars

\* Said of isFlashLoanerTreasury (ICoreBorrow.sol:10-11): a treasury with the role
\* has a flash loan module initialized on it.  Here, when the protocol has a module.
FlashLoanersAreInitialized ==
    coreModule # NoModule =>
        \A t \in flashLoaners : /\ flashLoanModule[t] = coreModule
                                /\ supported[coreModule] = t
=============================================================================
