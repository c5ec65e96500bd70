----------------------------- MODULE CallProofs ------------------------------
(***************************************************************************)
(* What a call of angle() or liquidate() in VaultManager.tla carries       *)
(* through its actions and callbacks.                                      *)
(*                                                                         *)
(* Interest: what the accumulator is worth depends on the block alone,     *)
(* whoever accrues and whenever, so that the value cached is never stale.  *)
(* A call takes no time, so that a rollback also returns to an accumulator *)
(* worth the same: the invariant says it of `saved`.                       *)
(*                                                                         *)
(* Custody: the contract holds the collateral of its vaults, less what the *)
(* call has still to pay or collect, and a vault that nobody owns never    *)
(* holds any.  Both are inductive with the same said of `saved`.           *)
(*                                                                         *)
(* Risk: a vault of an unfinished call is as safe as it was when the call  *)
(* began, or the call is bound to check it before it ends.                 *)
(*                                                                         *)
(* Backing: what a step mints, burns, lends and forgives against the debt  *)
(* that it records, truncations included.  No step gains from them but by  *)
(* wiping a debt out, and a revert gives back what the call has changed.   *)
(*                                                                         *)
(* Dust: what every step leaves of the debt of a vault is what the tests   *)
(* on first debts and on repayments accept, at the accumulator of the call *)
(* and so at the contract's.                                               *)
(***************************************************************************)
EXTENDS VaultManagerProofs

-----------------------------------------------------------------------------
\* Interest

SavedAccumulator ==
    CurrentAccumulator(saved.interestAccumulator, params.interestRate,
                       now - saved.lastInterestAccumulatorUpdated)

FreshInv ==
    /\ CachedAccumulatorIsFresh
    /\ ~Idle => SavedAccumulator = NewAccumulator

\* Nothing happens in no time.
LEMMA SameBlock ==
    ASSUME NEW acc, NEW rate
    PROVE  CurrentAccumulator(acc, rate, 0) = acc
  BY DEF CurrentAccumulator

\* An action of angle() changes nothing else of its call than what it says.
LEMMA ProceedInCall ==
    ASSUME TxInv, NEW c, Proceed(c),
           "phase" \in DOMAIN c => c.phase \in {"running", "callback"}
    PROVE  /\ ~Idle /\ ~Idle' /\ UNCHANGED saved
           /\ tx'.acc = IF "acc" \in DOMAIN c THEN c.acc ELSE tx.acc
<1>1. "acc" \in DOMAIN tx /\ "phase" \in DOMAIN tx
  BY DEF TxInv, TxType
<1>2. tx' = [f \in DOMAIN tx |->
                 IF f = "actions" THEN tx.actions + 1
                 ELSE IF f \in DOMAIN c THEN c[f] ELSE tx[f]]
  BY DEF Proceed
<1>3. tx.phase = "running" /\ UNCHANGED saved
  BY DEF Proceed
<1>4. tx'.phase \in {"running", "callback"}
  BY <1>1, <1>2, <1>3
<1> QED
  BY <1>1, <1>2, <1>3, <1>4 DEF Idle

(***************************************************************************)
(* The steps of the contract, as far as interest is concerned.             *)
(***************************************************************************)
NoAccrual ==
    /\ UNCHANGED <<accrualVars, now, params.interestRate>>
    /\ tx'.acc \in {tx.acc, 0}

Accrual ==
    /\ interestAccumulator' = NewAccumulator
    /\ lastInterestAccumulatorUpdated' = now
    /\ now' = now
    /\ tx'.acc \in {tx.acc, NewAccumulator}

LEMMA NoAccrualKeepsValue ==
    ASSUME FreshInv, NoAccrual
    PROVE  /\ NewAccumulator' = NewAccumulator
           /\ CachedAccumulatorIsFresh'
  BY DEF FreshInv, CachedAccumulatorIsFresh, NoAccrual, NewAccumulator, accrualVars

LEMMA AccrualKeepsValue ==
    ASSUME ConfigInv, InterestInv, FreshInv, Accrual
    PROVE  /\ NewAccumulator' = NewAccumulator
           /\ CachedAccumulatorIsFresh'
<1>1. now' - lastInterestAccumulatorUpdated' = 0
  BY DEF Accrual, ConfigInv
<1>2. NewAccumulator' = interestAccumulator'
  BY <1>1, SameBlock DEF NewAccumulator
<1>3. tx.acc # 0 => tx.acc = NewAccumulator
  <2>1. lastInterestAccumulatorUpdated = now => NewAccumulator = interestAccumulator
    <3>1. now - now = 0
      BY DEF ConfigInv
    <3> QED
      BY <3>1, SameBlock DEF NewAccumulator
  <2> QED
    BY <2>1 DEF FreshInv, CachedAccumulatorIsFresh
<1> QED
  BY <1>2, <1>3 DEF Accrual, CachedAccumulatorIsFresh

LEMMA AccrueOnceAccrues ==
    ASSUME TxInv, FreshInv, NEW income, AccrueOnce(income), UNCHANGED <<now, params>>,
           tx'.acc = Acc
    PROVE  NoAccrual \/ Accrual
<1>1. CASE tx.acc = 0
  BY <1>1 DEF AccrueOnce, AccrueAndEarn, Accrual, Acc
<1>2. CASE tx.acc # 0
  BY <1>2 DEF AccrueOnce, NoAccrual, Acc
<1> QED
  BY <1>1, <1>2

\* The step is one of a call that goes on.
InCall == ~Idle /\ UNCHANGED <<saved, params, now>>

LEMMA AngleStepAccrues ==
    ASSUME LedgerInv, FreshInv, AngleStep
    PROVE  (NoAccrual \/ Accrual) /\ InCall /\ ~Idle'
<1> USE DEF LedgerInv, InCall, worldVars, govVars
<1>1. ASSUME NEW to \in Users, CreateVaultInCall(to)
      PROVE  NoAccrual /\ InCall /\ ~Idle'
  BY <1>1, ProceedInCall DEF CreateVaultInCall, NoAccrual
<1>2. ASSUME NEW v, NEW amount, AddCollateral(v, amount)
      PROVE  NoAccrual /\ InCall /\ ~Idle'
  BY <1>2, ProceedInCall DEF AddCollateral, NoAccrual
<1>3. ASSUME NEW v, NEW amount, RemoveCollateral(v, amount)
      PROVE  (NoAccrual \/ Accrual) /\ InCall /\ ~Idle'
  <2>1. InCall /\ ~Idle' /\ tx'.acc = Acc
    BY <1>3, ProceedInCall DEF RemoveCollateral
  <2> QED
    BY <1>3, <2>1, AccrueOnceAccrues DEF RemoveCollateral
<1>4. ASSUME NEW v, NEW amount, RepayDebt(v, amount)
      PROVE  (NoAccrual \/ Accrual) /\ InCall /\ ~Idle'
  <2>1. InCall /\ ~Idle' /\ tx'.acc = Acc
    BY <1>4, ProceedInCall DEF RepayDebt
  <2> QED
    BY <1>4, <2>1, AccrueOnceAccrues DEF RepayDebt
<1>5. ASSUME NEW v, NEW amount, Borrow(v, amount)
      PROVE  (NoAccrual \/ Accrual) /\ InCall /\ ~Idle'
  <2>1. InCall /\ ~Idle' /\ tx'.acc = Acc
    BY <1>5, ProceedInCall DEF Borrow
  <2> QED
    BY <1>5, <2>1, AccrueOnceAccrues DEF Borrow
<1>6. ASSUME NEW v, CloseVault(v)
      PROVE  (NoAccrual \/ Accrual) /\ InCall /\ ~Idle'
  <2>1. InCall /\ ~Idle' /\ tx'.acc = Acc
    BY <1>6, ProceedInCall DEF CloseVault
  <2> QED
    BY <1>6, <2>1, AccrueOnceAccrues DEF CloseVault
<1>7. ASSUME NEW src, NEW dst, NEW amount, GetDebtInLocal(src, dst, amount)
      PROVE  (NoAccrual \/ Accrual) /\ InCall /\ ~Idle'
  <2>1. InCall /\ ~Idle' /\ tx'.acc = Acc
    BY <1>7, ProceedInCall DEF GetDebtInLocal
  <2> QED
    BY <1>7, <2>1, AccrueOnceAccrues DEF GetDebtInLocal
<1>8. ASSUME NEW src, NEW amount, NEW fake \in BOOLEAN, GetDebtInRemote(src, amount, fake)
      PROVE  (NoAccrual \/ Accrual) /\ InCall /\ ~Idle'
  <2>1. InCall /\ ~Idle' /\ tx'.acc = Acc
    BY <1>8, ProceedInCall DEF GetDebtInRemote
  <2> QED
    BY <1>8, <2>1, AccrueOnceAccrues DEF GetDebtInRemote
<1> QED
  BY <1>1, <1>2, <1>3, <1>4, <1>5, <1>6, <1>7, <1>8 DEF AngleStep

\* What goes on with a call other than the actions of angle(), and around one.
LEMMA OtherStepsAccrue ==
    ASSUME ConfigInv, LedgerInv, FreshInv,
           \/ CallbackReturns
           \/ \E v \in VaultIDs, amount \in StableAmounts : LiquidateVault(v, amount)
           \/ \E swap \in BOOLEAN : EndAngle(swap) \/ EndLiquidation(swap)
           \/ \E to \in Users : CreateVault(to)
           \/ MoveOwnership
           \/ AccrueInterestToTreasury
           \/ \E v \in VaultIDs, amount \in StableAmounts, fees \in RemoteFees :
                 GetDebtOut(v, amount, fees)
           \/ UNCHANGED vars
    PROVE  (NoAccrual \/ Accrual) /\ UNCHANGED <<saved, params, now>> /\ (~Idle' => ~Idle)
<1> USE DEF LedgerInv, worldVars, govVars
<1>1. CASE CallbackReturns
  BY <1>1 DEF CallbackReturns, NoAccrual, Idle, TxInv, TxType
<1>2. ASSUME NEW v, NEW amount, LiquidateVault(v, amount)
      PROVE  NoAccrual /\ UNCHANGED <<saved, params, now>> /\ ~Idle
  <2>1. tx'.acc = tx.acc
    BY <1>2 DEF LiquidateVault, SeizeVault, SellCollateral, TxInv, TxType
  <2> QED
    BY <1>2, <2>1 DEF LiquidateVault, NoAccrual, Idle
<1>3. ASSUME NEW swap \in BOOLEAN, EndAngle(swap) \/ EndLiquidation(swap)
      PROVE  NoAccrual /\ UNCHANGED <<saved, params, now>> /\ ~Idle
  <2>1. tx'.acc = tx.acc
    BY <1>3 DEF EndAngle, EndLiquidation, PayOut, TxInv, TxType
  <2> QED
    BY <1>3, <2>1 DEF EndAngle, EndLiquidation, NoAccrual, Idle
<1>4. CASE (\E to \in Users : CreateVault(to)) \/ MoveOwnership
  BY <1>4 DEF CreateVault, MoveOwnership, NoAccrual, Idle
<1>5. CASE AccrueInterestToTreasury
  BY <1>5 DEF AccrueInterestToTreasury, Accrual, Idle
<1>6. ASSUME NEW v, NEW amount, NEW fees, GetDebtOut(v, amount, fees)
      PROVE  Accrual /\ UNCHANGED <<saved, params, now>> /\ (~Idle' => ~Idle)
  BY <1>6 DEF GetDebtOut, AccrueAndEarn, Accrual, Idle
<1>7. CASE UNCHANGED vars
  BY <1>7 DEF vars, NoAccrual, Idle
<1> QED
  BY <1>1, <1>2, <1>3, <1>4, <1>5, <1>6, <1>7

-----------------------------------------------------------------------------

Timeless == now' = now => NewAccumulator' = NewAccumulator

LEMMA StepInCall ==
    ASSUME ConfigInv, LedgerInv, FreshInv, NoAccrual \/ Accrual,
           UNCHANGED <<saved, params, now>>, ~Idle' => ~Idle
    PROVE  FreshInv' /\ Timeless
<1>1. NewAccumulator' = NewAccumulator /\ CachedAccumulatorIsFresh'
  BY NoAccrualKeepsValue, AccrualKeepsValue DEF LedgerInv
<1>2. SavedAccumulator' = SavedAccumulator
  BY DEF SavedAccumulator
<1> QED
  BY <1>1, <1>2 DEF FreshInv, Timeless

LEMMA BeginIsFresh ==
    ASSUME ConfigInv, LedgerInv, FreshInv,
           \/ \E sender \in Users : BeginAngle(sender)
           \/ \E sender, to \in Users : BeginLiquidation(sender, to)
    PROVE  FreshInv' /\ Timeless
<1>1. saved' = Snapshot /\ UNCHANGED <<params, now>>
  BY DEF BeginAngle, BeginLiquidation, Begin, govVars, worldVars
<1>2. SavedAccumulator' = NewAccumulator
  BY <1>1 DEF SavedAccumulator, NewAccumulator, Snapshot
<1>3. CASE \E sender \in Users : BeginAngle(sender)
  <2>1. tx'.acc = 0
    BY <1>3 DEF BeginAngle, Begin, NoTx
  <2>2. NoAccrual
    BY <1>1, <1>3, <2>1 DEF BeginAngle, NoAccrual
  <2> QED
    BY <1>2, <2>2, NoAccrualKeepsValue DEF FreshInv, Timeless
<1>4. CASE \E sender, to \in Users : BeginLiquidation(sender, to)
  <2>1. tx'.acc = NewAccumulator
    BY <1>4 DEF BeginLiquidation, Begin, NoTx
  <2>2. Accrual
    BY <1>1, <1>4, <2>1 DEF BeginLiquidation, AccrueAndEarn, Accrual
  <2> QED
    BY <1>2, <2>2, AccrualKeepsValue DEF FreshInv, Timeless, LedgerInv
<1> QED
  BY <1>3, <1>4

LEMMA EndIsFresh ==
    ASSUME ConfigInv, LedgerInv, FreshInv, Collect \/ Revert
    PROVE  FreshInv' /\ Timeless
<1>1. Idle' /\ CachedAccumulatorIsFresh'
  BY DEF Collect, Revert, Idle, NoTx, CachedAccumulatorIsFresh
<1>2. ASSUME Collect PROVE Timeless
  BY <1>2 DEF Collect, Timeless, NewAccumulator, accrualVars, govVars, worldVars
<1>3. ASSUME Revert PROVE Timeless
  <2>1. NewAccumulator' = SavedAccumulator
    BY <1>3 DEF Revert, NewAccumulator, SavedAccumulator, govVars, worldVars
  <2> QED
    <3>1. SavedAccumulator = NewAccumulator
      BY <1>3 DEF Revert, FreshInv
    <3> QED
      BY <2>1, <3>1 DEF Timeless
<1> QED
  BY <1>1, <1>2, <1>3 DEF FreshInv

LEMMA GovernanceIsFresh ==
    ASSUME ConfigInv, LedgerInv, FreshInv,
           \/ \E what \in ParamNames : \E value \in ParamChoices[what] :
                 what \notin {"ceiling", "boost", "dusts"} /\ SetUint64(what, value)
           \/ Administer
           \/ Tick
           \/ \E price \in Prices : PriceMoves(price)
    PROVE  FreshInv' /\ Timeless
<1>1. Idle /\ UNCHANGED tx
  BY DEF SetUint64, Administer, Tick, PriceMoves
<1>2. Idle' /\ tx'.acc = 0
  BY <1>1 DEF LedgerInv, SavedInv, NoTx, Idle
<1>3. FreshInv'
  BY <1>2 DEF FreshInv, CachedAccumulatorIsFresh
<1>4. ASSUME NEW what \in ParamNames, what \notin {"ceiling", "boost", "dusts"},
             NEW value, SetUint64(what, value)
      PROVE  Timeless
  <2>1. CASE what = "IR"
    <3>1. /\ interestAccumulator' = NewAccumulator
          /\ lastInterestAccumulatorUpdated' = now /\ now' = now
      BY <1>4, <2>1 DEF SetUint64, AccrueAndEarn, worldVars
    <3>2. now' - lastInterestAccumulatorUpdated' = 0
      BY <3>1 DEF ConfigInv
    <3>3. NewAccumulator' = interestAccumulator'
      BY <3>2, SameBlock DEF NewAccumulator
    <3> QED
      BY <3>1, <3>3 DEF Timeless
  <2>2. CASE what # "IR"
    <3>1. Field(what) # "interestRate"
      BY <1>4, <2>2 DEF Field, ParamNames
    <3>2. params'.interestRate = params.interestRate
      BY <1>4, <3>1 DEF SetUint64, ConfigInv, ParamsType
    <3> QED
      BY <1>4, <2>2, <3>2 DEF SetUint64, Timeless, NewAccumulator, accrualVars
  <2> QED
    BY <2>1, <2>2
<1>5. ASSUME Administer PROVE Timeless
  <2>1. params'.interestRate = params.interestRate
    BY <1>5 DEF Administer, SetDebtCeiling, SetLiquidationBoostParameters, SetDusts,
                ToggleWhitelist, ConfigInv, ParamsType
  <2> QED
    BY <1>5, <2>1 DEF Administer, Timeless, NewAccumulator, accrualVars, worldVars
<1>6. ASSUME Tick PROVE Timeless
  <2>1. now \in Nat /\ now' = now + 1
    BY <1>6 DEF Tick, ConfigInv
  <2>2. now' # now
    BY <2>1
  <2> QED
    BY <2>2 DEF Timeless
<1>7. ASSUME NEW price \in Prices, PriceMoves(price) PROVE Timeless
  <2>1. UNCHANGED <<interestAccumulator, lastInterestAccumulatorUpdated, params>>
    BY <1>7 DEF PriceMoves, accrualVars, govVars
  <2> QED
    BY <2>1 DEF Timeless, NewAccumulator
<1> QED
  BY <1>3, <1>4, <1>5, <1>6, <1>7

LEMMA FreshStep ==
    ConfigInv /\ LedgerInv /\ FreshInv /\ [Next]_vars => FreshInv' /\ Timeless
<1> SUFFICES ASSUME ConfigInv, LedgerInv, FreshInv, [Next]_vars PROVE FreshInv' /\ Timeless
  OBVIOUS
<1>1. CASE AngleStep
  BY <1>1, AngleStepAccrues, StepInCall DEF InCall
<1>2. CASE \/ \E sender \in Users : BeginAngle(sender)
           \/ \E sender, to \in Users : BeginLiquidation(sender, to)
  BY <1>2, BeginIsFresh
<1>3. CASE Collect \/ Revert
  BY <1>3, EndIsFresh
<1>4. CASE \/ \E what \in ParamNames : \E value \in ParamChoices[what] :
                 what \notin {"ceiling", "boost", "dusts"} /\ SetUint64(what, value)
           \/ Administer
           \/ Tick
           \/ \E price \in Prices : PriceMoves(price)
  BY <1>4, GovernanceIsFresh
<1>5. CASE \/ CallbackReturns
           \/ \E v \in VaultIDs, amount \in StableAmounts : LiquidateVault(v, amount)
           \/ \E swap \in BOOLEAN : EndAngle(swap) \/ EndLiquidation(swap)
           \/ \E to \in Users : CreateVault(to)
           \/ MoveOwnership
           \/ AccrueInterestToTreasury
           \/ \E v \in VaultIDs, amount \in StableAmounts, fees \in RemoteFees :
                 GetDebtOut(v, amount, fees)
           \/ UNCHANGED vars
  BY <1>5, OtherStepsAccrue, StepInCall
<1> QED
  BY <1>1, <1>2, <1>3, <1>4, <1>5 DEF Next

LEMMA FreshInit == Init => FreshInv
  BY DEF Init, Unused, NoTx, FreshInv, CachedAccumulatorIsFresh, Idle

(***************************************************************************)
(* Whatever a contract called back by angle() accrues meanwhile, the value *)
(* newInterestAccumulator that the call carries through its actions is the *)
(* contract's own (VaultManager.sol:150).                                  *)
(***************************************************************************)
THEOREM CacheIsAlwaysFresh == Spec => []CachedAccumulatorIsFresh
<1>1. FreshInv => CachedAccumulatorIsFresh
  BY DEF FreshInv
<1> QED
  BY <1>1, ConfigInit, ConfigStep, LedgerInit, LedgerStep, FreshInit, FreshStep, PTL DEF Spec

(***************************************************************************)
(* No step but the passing of time changes what the accumulator is worth:  *)
(* no operation, accrual, rollback or change of the rate charges interest  *)
(* twice, skips some or charges past time at a later rate                  *)
(* (VaultManager.sol:407, 651, 881).                                       *)
(***************************************************************************)
THEOREM OnlyTimeEverAccrues == Spec => OnlyTimeAccrues
<1>1. Timeless => [now' = now => NewAccumulator' = NewAccumulator]_vars
  BY DEF Timeless
<1> QED
  BY <1>1, ConfigInit, ConfigStep, LedgerInit, LedgerStep, FreshInit, FreshStep, PTL
     DEF Spec, OnlyTimeAccrues

-----------------------------------------------------------------------------
\* Custody

\* The collateral in custody once the call in progress is settled.
Held == custody + tx.collateralToReceive - tx.collateralToGive

EmptyWhereFree(data, own) == \A v \in VaultIDs : own[v] = NoOne => data[v] = NoVault

HeldInv == Counted(CollateralOf(vaultData), Held)

EmptyInv == EmptyWhereFree(vaultData, owners)

SavedCustodyInv ==
    ~Idle => /\ Counted(CollateralOf(saved.vaultData), saved.custody)
             /\ EmptyWhereFree(saved.vaultData, saved.owners)

CustodyInv == HeldInv /\ EmptyInv /\ SavedCustodyInv

\* Once the call has paid out, all that is left is to collect.
PaidInv == tx.phase \in {"swap", "paying"} => tx.collateralToGive = 0

LEMMA NoVaultIsVault == NoVault \in VaultType
  BY DEF NoVault, VaultType

\* The vaults once the debt of v is n.
WithDebt(data, v, n) == [data EXCEPT ![v].normalizedDebt = n]

\* What changes debts only.
LEMMA DebtChangeOnly ==
    ASSUME NEW data \in [VaultIDs -> VaultType], NEW own, EmptyWhereFree(data, own),
           NEW v \in VaultIDs, NEW n \in Nat, own[v] = NoOne => n = 0
    PROVE  /\ WithDebt(data, v, n) \in [VaultIDs -> VaultType]
           /\ EmptyWhereFree(WithDebt(data, v, n), own)
           /\ CollateralOf(WithDebt(data, v, n)) = CollateralOf(data)
<1> DEFINE new == WithDebt(data, v, n)
<1>1. /\ new \in [VaultIDs -> VaultType]
      /\ new[v].normalizedDebt = n
      /\ \A w \in VaultIDs : /\ new[w].collateralAmount = data[w].collateralAmount
                             /\ w # v => new[w] = data[w]
  BY DEF VaultType, WithDebt
<1> HIDE DEF new
<1>2. CollateralOf(new) = CollateralOf(data)
  BY <1>1 DEF CollateralOf
<1>3. ASSUME NEW w \in VaultIDs, own[w] = NoOne
      PROVE  new[w] = NoVault
  <2>1. data[w] = NoVault
    BY <1>3 DEF EmptyWhereFree
  <2>2. CASE w # v
    BY <1>1, <2>1, <2>2
  <2>3. CASE w = v
    <3>1. new[w] \in VaultType
      BY <1>1
    <3>2. new[w].collateralAmount = 0 /\ new[w].normalizedDebt = 0
      BY <1>1, <1>3, <2>1, <2>3 DEF NoVault
    <3> QED
      BY <3>1, <3>2 DEF VaultType, NoVault
  <2> QED
    BY <2>2, <2>3
<1> QED
  BY <1>1, <1>2, <1>3 DEF EmptyWhereFree, new

\* What changes one vault that somebody owns.
LEMMA VaultChange ==
    ASSUME NEW data \in [VaultIDs -> VaultType], NEW own, EmptyWhereFree(data, own),
           NEW total, Counted(CollateralOf(data), total),
           NEW v \in VaultIDs, NEW vault \in VaultType,
           own[v] # NoOne \/ vault = NoVault
    PROVE  LET new == [data EXCEPT ![v] = vault]
           IN /\ EmptyWhereFree(new, own)
              /\ Counted(CollateralOf(new),
                         total - data[v].collateralAmount + vault.collateralAmount)
<1>1. EmptyWhereFree([data EXCEPT ![v] = vault], own)
  BY DEF EmptyWhereFree
<1> QED
  BY <1>1, CollateralUpdate

\* The collateral that an action gives and receives.
LEMMA ProceedAmounts ==
    ASSUME TxInv, NEW c, Proceed(c)
    PROVE  /\ tx'.collateralToGive =
                 IF "collateralToGive" \in DOMAIN c THEN c.collateralToGive
                 ELSE tx.collateralToGive
           /\ tx'.collateralToReceive =
                 IF "collateralToReceive" \in DOMAIN c THEN c.collateralToReceive
                 ELSE tx.collateralToReceive
<1>1. "collateralToGive" \in DOMAIN tx /\ "collateralToReceive" \in DOMAIN tx
  BY DEF TxInv, TxType
<1> QED
  BY <1>1 DEF Proceed

\* An action of angle() leaves the call in its loop, or out in a callback.
LEMMA ProceedPhase ==
    ASSUME TxInv, NEW c, Proceed(c),
           "phase" \in DOMAIN c => c.phase \in {"running", "callback"}
    PROVE  tx'.phase \in {"running", "callback"}
<1>1. "phase" \in DOMAIN tx /\ tx.phase = "running"
  BY DEF TxInv, TxType, Proceed
<1> QED
  BY <1>1 DEF Proceed

\* Saved facts survive what goes on in a call, and after it.
LEMMA SameSavedCustody ==
    ASSUME CustodyInv, UNCHANGED saved, ~Idle' => ~Idle
    PROVE  SavedCustodyInv'
  BY DEF CustodyInv, SavedCustodyInv

\* The steps that leave the vaults, their owners and the custody alone.
LEMMA CustodyUntouched ==
    ASSUME CustodyInv, UNCHANGED <<vaultData, custody, owners>>, Held' = Held,
           UNCHANGED saved, ~Idle' => ~Idle
    PROVE  CustodyInv'
<1>1. SavedCustodyInv'
  BY SameSavedCustody
<1> QED
  BY <1>1 DEF CustodyInv, HeldInv, EmptyInv

\* The steps that change the debts of vaults, in a call or not.
LEMMA DebtStepKeepsCustody ==
    ASSUME LedgerInv, CustodyInv, Held' = Held,
           EmptyWhereFree(vaultData', owners),
           CollateralOf(vaultData') = CollateralOf(vaultData),
           UNCHANGED <<owners, saved>>, ~Idle' => ~Idle
    PROVE  CustodyInv'
<1>1. SavedCustodyInv'
  BY SameSavedCustody
<1> QED
  BY <1>1 DEF CustodyInv, HeldInv, EmptyInv

-----------------------------------------------------------------------------
\* The actions of angle()

LEMMA CollateralActionsKeepCustody ==
    ASSUME LedgerInv, CustodyInv, NEW v, NEW amount \in Nat,
           AddCollateral(v, amount) \/ RemoveCollateral(v, amount)
    PROVE  CustodyInv'
<1> USE DEF LedgerInv
<1>1. v \in VaultIDs /\ owners[v] # NoOne /\ vaultData[v] \in VaultType
  BY DEF AddCollateral, RemoveCollateral, IsApprovedOrOwner, Exists, DebtsInv
<1>2. UNCHANGED <<owners, custody, saved>> /\ (~Idle' => ~Idle)
  <2>1. UNCHANGED <<owners, custody, saved>> /\ tx.phase = "running"
    BY DEF AddCollateral, RemoveCollateral, Proceed, moneyVars, nftVars
  <2> QED
    BY <2>1 DEF Idle
<1>3. tx.collateralToGive \in Nat /\ tx.collateralToReceive \in Nat /\ custody \in Nat
  BY DEF TxInv, TxType, MoneyInv
<1>4. CASE AddCollateral(v, amount)
  <2> DEFINE vault == [vaultData[v] EXCEPT !.collateralAmount = @ + amount]
  <2>1. vault \in VaultType /\ vault.collateralAmount = vaultData[v].collateralAmount + amount
    BY <1>1 DEF VaultType
  <2>2. vaultData' = [vaultData EXCEPT ![v] = vault]
    BY <1>1, <1>4 DEF AddCollateral, DebtsInv
  <2>3. Held' = Held - vaultData[v].collateralAmount + vault.collateralAmount
    <3>1. /\ tx'.collateralToReceive = tx.collateralToReceive + amount
          /\ tx'.collateralToGive = tx.collateralToGive
      BY <1>4, ProceedAmounts DEF AddCollateral
    <3>2. vaultData[v].collateralAmount \in Nat
      BY <1>1 DEF VaultType
    <3> HIDE DEF vault
    <3> QED
      BY <1>2, <1>3, <2>1, <3>1, <3>2 DEF Held
  <2> HIDE DEF vault
  <2>4. HeldInv' /\ EmptyInv'
    BY <1>1, <1>2, <2>1, <2>2, <2>3, VaultChange DEF CustodyInv, HeldInv, EmptyInv, DebtsInv
  <2> QED
    BY <1>2, <2>4, SameSavedCustody DEF CustodyInv
<1>5. CASE RemoveCollateral(v, amount)
  <2> DEFINE vault == [vaultData[v] EXCEPT !.collateralAmount = @ - amount]
  <2>1. vault \in VaultType /\ vault.collateralAmount = vaultData[v].collateralAmount - amount
    BY <1>1, <1>5 DEF VaultType, RemoveCollateral
  <2>2. vaultData' = [vaultData EXCEPT ![v] = vault]
    BY <1>5 DEF RemoveCollateral
  <2>3. Held' = Held - vaultData[v].collateralAmount + vault.collateralAmount
    <3>1. /\ tx'.collateralToReceive = tx.collateralToReceive
          /\ tx'.collateralToGive = tx.collateralToGive + amount
      BY <1>5, ProceedAmounts DEF RemoveCollateral
    <3>2. vaultData[v].collateralAmount \in Nat
      BY <1>1 DEF VaultType
    <3> HIDE DEF vault
    <3> QED
      BY <1>2, <1>3, <2>1, <3>1, <3>2 DEF Held
  <2> HIDE DEF vault
  <2>4. HeldInv' /\ EmptyInv'
    BY <1>1, <1>2, <2>1, <2>2, <2>3, VaultChange DEF CustodyInv, HeldInv, EmptyInv, DebtsInv
  <2> QED
    BY <1>2, <2>4, SameSavedCustody DEF CustodyInv
<1> QED
  BY <1>4, <1>5

LEMMA DebtIncreaseKeepsCustody ==
    ASSUME ConfigInv, LedgerInv, CustodyInv, NEW v, NEW amount \in Nat,
           Borrow(v, amount) \/ (\E fake \in BOOLEAN : GetDebtInRemote(v, amount, fake))
    PROVE  CustodyInv'
<1> USE DEF LedgerInv
<1>1. v \in VaultIDs /\ owners[v] # NoOne
  BY DEF Borrow, GetDebtInRemote, CanIncreaseDebt, IsApprovedOrOwner, Exists
<1> DEFINE n == Debt(v) + Normalized(amount, Acc)
<1>2. n \in Nat
  BY <1>1, IssuedIsNat, TotalIsNat
<1>3. vaultData' = WithDebt(vaultData, v, n)
  BY DEF Borrow, GetDebtInRemote, Debt, WithDebt
<1>4. /\ EmptyWhereFree(vaultData', owners)
      /\ CollateralOf(vaultData') = CollateralOf(vaultData)
  <2>1. EmptyWhereFree(vaultData, owners) /\ vaultData \in [VaultIDs -> VaultType]
    BY DEF CustodyInv, EmptyInv, DebtsInv
  <2> HIDE DEF n
  <2>2. EmptyWhereFree(WithDebt(vaultData, v, n), owners)
        /\ CollateralOf(WithDebt(vaultData, v, n)) = CollateralOf(vaultData)
    BY <1>1, <1>2, <2>1, DebtChangeOnly
  <2> QED
    BY <1>3, <2>2
<1>5. Held' = Held
  <2>1. CASE Borrow(v, amount)
    BY <2>1, ProceedAmounts DEF Borrow, Held, moneyVars
  <2>2. ASSUME NEW fake \in BOOLEAN, GetDebtInRemote(v, amount, fake)
        PROVE  Held' = Held
    BY <2>2, ProceedAmounts DEF GetDebtInRemote, Held, moneyVars
  <2> QED
    BY <2>1, <2>2
<1>6. UNCHANGED <<owners, saved>> /\ ~Idle
  BY DEF Borrow, GetDebtInRemote, Proceed, Idle, nftVars
<1> QED
  BY <1>4, <1>5, <1>6, DebtStepKeepsCustody

\* A repayment does nothing to a vault without debt.
LEMMA DecreaseKeepsEmpty ==
    ASSUME LedgerInv, CustodyInv, NEW v \in VaultIDs, NEW change \in 0..Debt(v),
           vaultData' = [vaultData EXCEPT ![v].normalizedDebt = @ - change]
    PROVE  /\ EmptyWhereFree(vaultData', owners)
           /\ CollateralOf(vaultData') = CollateralOf(vaultData)
<1>1. Debt(v) - change \in Nat
  BY TotalIsNat DEF LedgerInv
<1>2. owners[v] = NoOne => Debt(v) - change = 0
  <2>1. owners[v] = NoOne => Debt(v) = 0
    BY DEF CustodyInv, EmptyInv, EmptyWhereFree, Debt, NoVault
  <2> QED
    BY <2>1, TotalIsNat DEF LedgerInv
<1>3. vaultData' = WithDebt(vaultData, v, Debt(v) - change)
  BY DEF Debt, WithDebt
<1>4. EmptyWhereFree(vaultData, owners) /\ vaultData \in [VaultIDs -> VaultType]
  BY DEF CustodyInv, EmptyInv, LedgerInv, DebtsInv
<1> DEFINE n == Debt(v) - change
<1>5. n \in Nat /\ (owners[v] = NoOne => n = 0)
  BY <1>1, <1>2
<1> HIDE DEF n
<1>6. /\ EmptyWhereFree(WithDebt(vaultData, v, n), owners)
      /\ CollateralOf(WithDebt(vaultData, v, n)) = CollateralOf(vaultData)
  BY <1>4, <1>5, DebtChangeOnly
<1> QED
  BY <1>3, <1>6 DEF n

LEMMA RepayDebtKeepsCustody ==
    ASSUME ConfigInv, LedgerInv, CustodyInv, NEW v \in VaultIDs, NEW amount \in Nat,
           RepayDebt(v, amount)
    PROVE  CustodyInv'
<1> DEFINE repaid == Repayment(Debt(v), amount, Acc)
<1> USE DEF LedgerInv
<1>1. repaid.change \in 0..Debt(v)
  BY TotalIsNat, AccIsPositive, RepaymentWithinDebt
<1>2. /\ EmptyWhereFree(vaultData', owners)
      /\ CollateralOf(vaultData') = CollateralOf(vaultData)
  BY <1>1, DecreaseKeepsEmpty DEF RepayDebt
<1>3. Held' = Held
  BY ProceedAmounts DEF RepayDebt, Held, moneyVars
<1>4. UNCHANGED <<owners, saved>> /\ ~Idle
  BY DEF RepayDebt, Proceed, Idle, nftVars
<1> QED
  BY <1>2, <1>3, <1>4, DebtStepKeepsCustody

LEMMA CloseVaultKeepsCustody ==
    ASSUME LedgerInv, CustodyInv, NEW v, CloseVault(v)
    PROVE  CustodyInv'
<1> USE DEF LedgerInv
<1>1. v \in VaultIDs /\ vaultData[v] \in VaultType /\ vaultData[v].collateralAmount \in Nat
  BY DEF CloseVault, IsApprovedOrOwner, Exists, DebtsInv, VaultType
<1>2. vaultData' = [vaultData EXCEPT ![v] = NoVault]
  BY DEF CloseVault
<1>3. owners' = [owners EXCEPT ![v] = NoOne]
  BY DEF CloseVault, Burn
<1>4. EmptyInv'
  BY <1>1, <1>2, <1>3 DEF CustodyInv, EmptyInv, EmptyWhereFree, DebtsInv, NFTTypeOK
<1>5. Held' = Held - vaultData[v].collateralAmount + NoVault.collateralAmount
  <2>1. /\ tx'.collateralToGive = tx.collateralToGive + vaultData[v].collateralAmount
        /\ tx'.collateralToReceive = tx.collateralToReceive
        /\ custody' = custody
    BY ProceedAmounts DEF CloseVault, moneyVars
  <2>2. tx.collateralToGive \in Nat /\ tx.collateralToReceive \in Nat /\ custody \in Nat
    BY DEF TxInv, TxType, MoneyInv
  <2> QED
    BY <1>1, <2>1, <2>2 DEF Held, NoVault
<1>6. HeldInv'
  BY <1>1, <1>2, <1>5, NoVaultIsVault, CollateralUpdate DEF CustodyInv, HeldInv, DebtsInv
<1>7. SavedCustodyInv'
  BY SameSavedCustody DEF CloseVault, Proceed, Idle
<1> QED
  BY <1>4, <1>6, <1>7 DEF CustodyInv

LEMMA GetDebtInLocalKeepsCustody ==
    ASSUME ConfigInv, LedgerInv, CustodyInv, NEW src, NEW dst \in VaultIDs,
           NEW amount \in Nat, GetDebtInLocal(src, dst, amount)
    PROVE  CustodyInv'
<1> DEFINE n == Debt(src) + Normalized(amount, Acc)
           indebted == WithDebt(vaultData, src, n)
           repaid == Repayment(indebted[dst].normalizedDebt, Issued(amount), Acc)
           left == indebted[dst].normalizedDebt - repaid.change
<1> USE DEF LedgerInv
<1>1. src \in VaultIDs /\ owners[src] # NoOne
  BY DEF GetDebtInLocal, CanIncreaseDebt, IsApprovedOrOwner, Exists
<1>2. n \in Nat /\ Issued(amount) \in Nat /\ Acc \in Nat \ {0}
  BY <1>1, IssuedIsNat, TotalIsNat, AccIsPositive
<1>3. vaultData' = WithDebt(indebted, dst, left)
  BY DEF GetDebtInLocal, Debt, WithDebt
<1>4. /\ indebted \in [VaultIDs -> VaultType]
      /\ EmptyWhereFree(indebted, owners)
      /\ CollateralOf(indebted) = CollateralOf(vaultData)
  <2> HIDE DEF n
  <2> QED
    BY <1>1, <1>2, DebtChangeOnly DEF CustodyInv, EmptyInv, DebtsInv
<1> HIDE DEF n, indebted
<1>5. left \in Nat /\ (owners[dst] = NoOne => left = 0)
  <2>1. indebted[dst].normalizedDebt \in Nat
    BY <1>4 DEF VaultType
  <2>2. repaid.change \in 0..indebted[dst].normalizedDebt
    BY <1>2, <2>1, RepaymentWithinDebt
  <2>3. owners[dst] = NoOne => indebted[dst].normalizedDebt = 0
    BY <1>4 DEF EmptyWhereFree, NoVault
  <2> HIDE DEF repaid
  <2> QED
    BY <2>1, <2>2, <2>3
<1>6. /\ EmptyWhereFree(vaultData', owners)
      /\ CollateralOf(vaultData') = CollateralOf(vaultData)
  <2> HIDE DEF left
  <2> QED
    BY <1>3, <1>4, <1>5, DebtChangeOnly
<1>7. Held' = Held
  BY ProceedAmounts DEF GetDebtInLocal, Held, moneyVars
<1>8. UNCHANGED <<owners, saved>> /\ ~Idle
  BY DEF GetDebtInLocal, Proceed, Idle, nftVars
<1> QED
  BY <1>6, <1>7, <1>8, DebtStepKeepsCustody

LEMMA MintKeepsEmpty ==
    ASSUME NFTTypeOK, EmptyInv, NEW to \in Users, Mint(to), UNCHANGED vaultData
    PROVE  EmptyInv'
<1>1. \A v \in VaultIDs : owners'[v] = NoOne => owners[v] = NoOne
  BY OwnershipAssumption DEF Mint, NFTTypeOK
<1> QED
  BY <1>1 DEF EmptyInv, EmptyWhereFree

LEMMA CreateVaultInCallKeepsCustody ==
    ASSUME LedgerInv, CustodyInv, NEW to \in Users, CreateVaultInCall(to)
    PROVE  CustodyInv'
<1> USE DEF LedgerInv
<1>1. UNCHANGED <<vaultData, custody, saved>> /\ ~Idle
  BY DEF CreateVaultInCall, Proceed, Idle, debtVars, moneyVars
<1>2. EmptyInv'
  BY <1>1, MintKeepsEmpty DEF CustodyInv, CreateVaultInCall
<1>3. HeldInv'
  <2>1. Held' = Held
    BY <1>1, ProceedAmounts DEF CreateVaultInCall, Held
  <2> QED
    BY <1>1, <2>1 DEF CustodyInv, HeldInv
<1> QED
  BY <1>1, <1>2, <1>3, SameSavedCustody DEF CustodyInv

LEMMA AngleStepKeepsCustody ==
    ASSUME ConfigInv, LedgerInv, CustodyInv, AngleStep
    PROVE  CustodyInv'
<1>1. StableAmounts \subseteq Nat /\ CollateralAmounts \subseteq Nat
  BY ConfigAssumption
<1>2. CASE \E to \in Users : CreateVaultInCall(to)
  BY <1>2, CreateVaultInCallKeepsCustody
<1>3. CASE \E id \in CallIDs, amount \in CollateralAmounts :
              AddCollateral(VaultOf(id), amount) \/ RemoveCollateral(VaultOf(id), amount)
  BY <1>1, <1>3, CollateralActionsKeepCustody
<1>4. CASE \E id \in CallIDs, amount \in StableAmounts :
              VaultOf(id) \in VaultIDs /\ RepayDebt(VaultOf(id), amount)
  BY <1>1, <1>4, RepayDebtKeepsCustody
<1>5. CASE \/ \E id \in CallIDs, amount \in StableAmounts : Borrow(VaultOf(id), amount)
           \/ \E id \in CallIDs, amount \in StableAmounts, fake \in BOOLEAN :
                 GetDebtInRemote(VaultOf(id), amount, fake)
  BY <1>1, <1>5, DebtIncreaseKeepsCustody
<1>6. CASE \E id \in CallIDs : CloseVault(VaultOf(id))
  BY <1>6, CloseVaultKeepsCustody
<1>7. CASE \E id \in CallIDs, dst \in VaultIDs, amount \in StableAmounts :
              GetDebtInLocal(VaultOf(id), dst, amount)
  BY <1>1, <1>7, GetDebtInLocalKeepsCustody
<1> QED
  BY <1>2, <1>3, <1>4, <1>5, <1>6, <1>7 DEF AngleStep

-----------------------------------------------------------------------------
\* The rest of a call

LEMMA BeginKeepsCustody ==
    ASSUME LedgerInv, CustodyInv, NEW sender, NEW to,
           BeginAngle(sender) \/ BeginLiquidation(sender, to)
    PROVE  CustodyInv'
<1>1. /\ Idle /\ UNCHANGED <<vaultData, owners, custody>>
      /\ saved' = Snapshot
      /\ tx'.collateralToGive = 0 /\ tx'.collateralToReceive = 0
  BY DEF BeginAngle, BeginLiquidation, Begin, debtVars, moneyVars, nftVars, NoTx
<1>2. tx = NoTx
  BY <1>1 DEF LedgerInv, SavedInv
<1>3. Held = custody /\ Held' = custody
  BY <1>1, <1>2 DEF Held, NoTx, LedgerInv, MoneyInv
<1>4. HeldInv' /\ EmptyInv'
  BY <1>1, <1>3 DEF CustodyInv, HeldInv, EmptyInv
<1>5. /\ saved'.vaultData = vaultData
      /\ saved'.custody = custody
      /\ saved'.owners = owners
  BY <1>1 DEF Snapshot
<1>6. SavedCustodyInv'
  BY <1>3, <1>5 DEF CustodyInv, HeldInv, EmptyInv, SavedCustodyInv
<1> QED
  BY <1>4, <1>6 DEF CustodyInv

LEMMA CallbackReturnsKeepsCustody ==
    ASSUME LedgerInv, CustodyInv, CallbackReturns
    PROVE  CustodyInv'
<1>1. UNCHANGED <<vaultData, custody, owners, saved>> /\ ~Idle
  BY DEF CallbackReturns, debtVars, moneyVars, nftVars, Idle
<1>2. Held' = Held
  BY <1>1 DEF CallbackReturns, Held, LedgerInv, TxInv, TxType
<1> QED
  BY <1>1, <1>2, CustodyUntouched

\* What is settled is what was due.
LEMMA PayOutKeepsCustody ==
    ASSUME LedgerInv, CustodyInv, NEW swap \in BOOLEAN,
           EndAngle(swap) \/ EndLiquidation(swap)
    PROVE  CustodyInv'
<1>1. UNCHANGED <<vaultData, owners, saved>> /\ ~Idle /\ PayOut(swap)
  BY DEF EndAngle, EndLiquidation, debtVars, nftVars, Idle
<1>2. /\ CollateralOut \in Nat /\ CollateralIn \in Nat
      /\ CollateralOut - CollateralIn = tx.collateralToGive - tx.collateralToReceive
  BY ExcessIsNat DEF CollateralOut, CollateralIn, LedgerInv, TxInv, TxType
<1>3. /\ custody' = custody - CollateralOut
      /\ tx'.collateralToGive = 0
      /\ tx'.collateralToReceive = CollateralIn
  BY <1>1 DEF PayOut, LedgerInv, TxInv, TxType
<1>4. Held' = Held
  <2>1. custody \in Nat /\ tx.collateralToGive \in Nat /\ tx.collateralToReceive \in Nat
    BY DEF LedgerInv, MoneyInv, TxInv, TxType
  <2> QED
    BY <1>2, <1>3, <2>1 DEF Held
<1> QED
  BY <1>1, <1>4, SameSavedCustody DEF CustodyInv, HeldInv, EmptyInv

LEMMA CollectKeepsCustody ==
    ASSUME LedgerInv, CustodyInv, PaidInv, Collect
    PROVE  CustodyInv'
<1>1. UNCHANGED <<vaultData, owners>> /\ Idle'
  BY DEF Collect, debtVars, nftVars, NoTx, Idle
<1>2. tx.collateralToGive = 0
  BY DEF Collect, PaidInv
<1>3. Held' = Held
  BY <1>2 DEF Collect, NoTx, Held, LedgerInv, MoneyInv, TxInv, TxType
<1> QED
  BY <1>1, <1>3 DEF CustodyInv, HeldInv, EmptyInv, SavedCustodyInv

LEMMA RevertKeepsCustody ==
    ASSUME LedgerInv, CustodyInv, Revert
    PROVE  CustodyInv'
<1>1. /\ vaultData' = saved.vaultData
      /\ owners' = saved.owners
      /\ custody' = saved.custody
      /\ tx' = NoTx
      /\ ~Idle
  BY DEF Revert
<1>2. saved.custody \in Nat
  BY <1>1 DEF LedgerInv, SavedInv, SnapshotType
<1>3. Held' = saved.custody
  BY <1>1, <1>2 DEF Held, NoTx
<1> QED
  BY <1>1, <1>3 DEF CustodyInv, SavedCustodyInv, HeldInv, EmptyInv, Idle, NoTx

\* Only vaults with a debt can be liquidated, and they have an owner.
LEMMA LiquidableIsOwned ==
    ASSUME ConfigInv, LedgerInv, CustodyInv, NEW v \in VaultIDs,
           Liquidable(vaultData[v], oracleValue, tx.acc, params)
    PROVE  owners[v] # NoOne
<1>1. SUFFICES ASSUME owners[v] = NoOne PROVE FALSE
  OBVIOUS
<1>2. vaultData[v].normalizedDebt = 0
  BY <1>1 DEF CustodyInv, EmptyInv, EmptyWhereFree, NoVault
<1>3. DebtValue(vaultData[v].normalizedDebt, tx.acc) = 0
  <2>1. 0 * tx.acc = 0 /\ 0 \div BASE_INTEREST = 0
    BY BasesAssumption DEF LedgerInv, TxInv, TxType
  <2> QED
    BY <1>2, <2>1 DEF DebtValue
<1>4. HealthFactor(vaultData[v], oracleValue, tx.acc, params) = MaxUint
  BY <1>3 DEF HealthFactor
<1> QED
  BY <1>4, BasesAssumption DEF Liquidable

LEMMA LiquidateVaultKeepsCustody ==
    ASSUME ConfigInv, LedgerInv, CustodyInv, NEW v \in VaultIDs, NEW amount \in Nat,
           LiquidateVault(v, amount)
    PROVE  CustodyInv'
<1> DEFINE offer == LiquidationOffer(vaultData[v], oracleValue, tx.acc, params)
           paid == LiquidationPayment(amount, offer)
           released == CollateralReleased(paid, vaultData[v], oracleValue, tx.acc, params)
           repaid == Repayment(Debt(v), Reimbursed(paid), tx.acc)
<1>1. /\ UNCHANGED <<owners, custody, saved>> /\ ~Idle
      /\ Liquidable(vaultData[v], oracleValue, tx.acc, params)
      /\ OfferDefined(vaultData[v], oracleValue, tx.acc, params)
      /\ IF vaultData[v].collateralAmount <= released
         THEN SeizeVault(v, paid) ELSE SellCollateral(v, paid, released)
  BY DEF LiquidateVault, moneyVars, nftVars, Idle
<1>2. owners[v] # NoOne
  BY <1>1, LiquidableIsOwned
<1>3. paid \in Nat /\ released \in Nat
  BY <1>1, LiquidationAmounts DEF LedgerInv
<1>4. /\ vaultData[v] \in VaultType
      /\ vaultData[v].collateralAmount \in Nat
      /\ vaultData \in [VaultIDs -> VaultType]
  BY DEF LedgerInv, DebtsInv, VaultType
<1>5. tx \in TxType /\ custody \in Nat
  BY DEF LedgerInv, TxInv, MoneyInv
<1> HIDE DEF paid, released
\* It is enough that the vault gives what the call gives.
<1>6. ASSUME NEW vault \in VaultType,
             vaultData' = [vaultData EXCEPT ![v] = vault],
             tx'.collateralToReceive = tx.collateralToReceive,
             tx'.collateralToGive = tx.collateralToGive
                + vaultData[v].collateralAmount - vault.collateralAmount
      PROVE  CustodyInv'
  <2>1. vault.collateralAmount \in Nat
    BY <1>6 DEF VaultType
  <2>2. Held' = Held - vaultData[v].collateralAmount + vault.collateralAmount
    BY <1>1, <1>4, <1>5, <1>6, <2>1 DEF Held, TxType
  <2>3. HeldInv' /\ EmptyInv'
    BY <1>1, <1>2, <1>4, <1>6, <2>2, VaultChange DEF CustodyInv, HeldInv, EmptyInv
  <2> QED
    BY <1>1, <2>3, SameSavedCustody DEF CustodyInv
<1>7. CASE vaultData[v].collateralAmount <= released
  <2>1. /\ vaultData' = [vaultData EXCEPT ![v] = NoVault]
        /\ tx'.collateralToReceive = tx.collateralToReceive
        /\ tx'.collateralToGive = tx.collateralToGive + vaultData[v].collateralAmount
    BY <1>1, <1>5, <1>7 DEF SeizeVault, TxType
  <2>2. tx'.collateralToGive = tx.collateralToGive
           + vaultData[v].collateralAmount - NoVault.collateralAmount
    BY <1>4, <1>5, <2>1 DEF NoVault, TxType
  <2> QED
    BY <1>6, <2>1, <2>2, NoVaultIsVault
<1>8. CASE ~(vaultData[v].collateralAmount <= released)
  <2> DEFINE left == [vaultData[v] EXCEPT !.collateralAmount = @ - released,
                                          !.normalizedDebt = @ - repaid.change]
  <2>1. Reimbursed(paid) \in Nat /\ tx.acc \in Nat \ {0}
    BY <1>1, <1>3, <1>5, ReimbursedIsNat DEF LedgerInv, TxInv, TxType, LiquidateVault
  <2>2. repaid.change \in 0..Debt(v) /\ Debt(v) \in Nat
    BY <2>1, TotalIsNat, RepaymentWithinDebt DEF LedgerInv
  <2>3. /\ vaultData' = [vaultData EXCEPT ![v].collateralAmount = @ - released,
                                         ![v].normalizedDebt = @ - repaid.change]
        /\ tx' = [tx EXCEPT !.actions = @ + 1, !.collateralToGive = @ + released,
                            !.stableToReceive = @ + paid]
    BY <1>1, <1>8 DEF SellCollateral
  <2> HIDE DEF repaid
  <2>4. /\ tx'.collateralToReceive = tx.collateralToReceive
        /\ tx'.collateralToGive = tx.collateralToGive + released
    BY <1>5, <2>3 DEF TxType
  <2>7. /\ left \in VaultType
        /\ left.collateralAmount = vaultData[v].collateralAmount - released
    <3>1. /\ vaultData[v].collateralAmount - released \in Nat
          /\ vaultData[v].normalizedDebt - repaid.change \in Nat
      BY <1>3, <1>4, <1>8, <2>2 DEF Debt
    <3> QED
      BY <1>4, <3>1 DEF VaultType
  <2>5. vaultData' = [vaultData EXCEPT ![v] = left]
    BY <1>4, <2>3
  <2>6. tx'.collateralToGive = tx.collateralToGive
           + vaultData[v].collateralAmount - left.collateralAmount
    BY <1>3, <1>4, <1>5, <2>4, <2>7 DEF TxType
  <2> HIDE DEF left
  <2> QED
    BY <1>6, <2>4, <2>5, <2>6, <2>7
<1> QED
  BY <1>7, <1>8

-----------------------------------------------------------------------------
\* What runs outside of a call, or inside its callbacks

LEMMA OwnershipStepsKeepCustody ==
    ASSUME LedgerInv, CustodyInv, (\E to \in Users : CreateVault(to)) \/ MoveOwnership
    PROVE  CustodyInv'
<1>1. UNCHANGED <<vaultData, custody, tx, saved>>
  BY DEF CreateVault, MoveOwnership, debtVars, moneyVars
<1>2. EmptyInv'
  <2>1. ASSUME NEW to \in Users, CreateVault(to) PROVE EmptyInv'
    BY <1>1, <2>1, MintKeepsEmpty DEF CreateVault, CustodyInv, LedgerInv
  <2>2. ASSUME MoveOwnership
        PROVE  \A v \in VaultIDs : owners'[v] = NoOne => owners[v] = NoOne
    BY <2>2, OwnershipAssumption
       DEF MoveOwnership, TransferOrApprove, TransferFrom, Approve, SetApprovalForAll,
           LedgerInv, NFTTypeOK
  <2> QED
    BY <1>1, <2>1, <2>2 DEF CustodyInv, EmptyInv, EmptyWhereFree
<1> QED
  BY <1>1, <1>2 DEF CustodyInv, HeldInv, Held, SavedCustodyInv, Idle

LEMMA GetDebtOutKeepsCustody ==
    ASSUME ConfigInv, LedgerInv, CustodyInv, NEW v \in VaultIDs, NEW amount \in Nat,
           NEW fees \in (0..BASE_PARAMS) \X (0..BASE_PARAMS), GetDebtOut(v, amount, fees)
    PROVE  CustodyInv'
<1> DEFINE lessFee == LessFees(amount, fees)
           repaid == Repayment(Debt(v), lessFee, NewAccumulator)
<1>1. repaid.change \in 0..Debt(v)
  <2>1. lessFee \in Nat
    BY LessFeesIsPart
  <2> HIDE DEF lessFee
  <2> QED
    BY <2>1, TotalIsNat, NewAccumulatorGrows, RepaymentWithinDebt DEF LedgerInv
<1>2. /\ EmptyWhereFree(vaultData', owners)
      /\ CollateralOf(vaultData') = CollateralOf(vaultData)
  BY <1>1, DecreaseKeepsEmpty DEF GetDebtOut
<1>3. UNCHANGED <<owners, saved, tx, custody>>
  BY DEF GetDebtOut, moneyVars, nftVars
<1>4. Held' = Held /\ (~Idle' => ~Idle)
  BY <1>3 DEF Held, Idle
<1> QED
  BY <1>2, <1>3, <1>4, DebtStepKeepsCustody

LEMMA OthersKeepCustody ==
    ASSUME LedgerInv, CustodyInv,
           \/ AccrueInterestToTreasury
           \/ \E what \in ParamNames : \E value \in ParamChoices[what] :
                 what \notin {"ceiling", "boost", "dusts"} /\ SetUint64(what, value)
           \/ Administer
           \/ Tick
           \/ \E price \in Prices : PriceMoves(price)
           \/ UNCHANGED vars
    PROVE  CustodyInv'
<1>1. UNCHANGED <<vaultData, custody, owners, tx, saved>>
  BY DEF AccrueInterestToTreasury, SetUint64, Administer, Tick, PriceMoves, vars, debtVars,
         moneyVars, nftVars
<1> QED
  BY <1>1, CustodyUntouched DEF Held, Idle

-----------------------------------------------------------------------------
\* The theorems

LEMMA AngleStepProceeds ==
    ASSUME LedgerInv, AngleStep
    PROVE  tx'.phase \in {"running", "callback"}
<1> USE DEF LedgerInv
<1>1. ASSUME NEW to, CreateVaultInCall(to) PROVE tx'.phase \in {"running", "callback"}
  BY <1>1, ProceedPhase DEF CreateVaultInCall
<1>2. ASSUME NEW v, NEW amount, AddCollateral(v, amount) \/ RemoveCollateral(v, amount)
      PROVE  tx'.phase \in {"running", "callback"}
  BY <1>2, ProceedPhase DEF AddCollateral, RemoveCollateral
<1>3. ASSUME NEW v, NEW amount, RepayDebt(v, amount) \/ Borrow(v, amount)
      PROVE  tx'.phase \in {"running", "callback"}
  BY <1>3, ProceedPhase DEF RepayDebt, Borrow
<1>4. ASSUME NEW v, CloseVault(v) PROVE tx'.phase \in {"running", "callback"}
  BY <1>4, ProceedPhase DEF CloseVault
<1>5. ASSUME NEW src, NEW dst, NEW amount, GetDebtInLocal(src, dst, amount)
      PROVE  tx'.phase \in {"running", "callback"}
  BY <1>5, ProceedPhase DEF GetDebtInLocal
<1>6. ASSUME NEW src, NEW amount, NEW fake, GetDebtInRemote(src, amount, fake)
      PROVE  tx'.phase \in {"running", "callback"}
  BY <1>6, ProceedPhase DEF GetDebtInRemote
<1> QED
  BY <1>1, <1>2, <1>3, <1>4, <1>5, <1>6 DEF AngleStep

LEMMA PaidStep == LedgerInv /\ PaidInv /\ [Next]_vars => PaidInv'
<1> SUFFICES ASSUME LedgerInv, PaidInv, [Next]_vars PROVE PaidInv'
  OBVIOUS
<1> USE DEF PaidInv
<1>1. CASE AngleStep
  BY <1>1, AngleStepProceeds
<1>2. CASE \/ \E sender \in Users : BeginAngle(sender)
           \/ \E sender, to \in Users : BeginLiquidation(sender, to)
  BY <1>2 DEF BeginAngle, BeginLiquidation, Begin, NoTx
<1>3. CASE \E v \in VaultIDs, amount \in StableAmounts : LiquidateVault(v, amount)
  <2>1. tx.phase = "liquidating" /\ tx \in TxType
    BY <1>3 DEF LiquidateVault, LedgerInv, TxInv
  <2>2. tx'.phase = tx.phase
    BY <1>3, <2>1 DEF LiquidateVault, SeizeVault, SellCollateral, TxType
  <2> QED
    BY <2>1, <2>2
<1>4. CASE \E swap \in BOOLEAN : EndAngle(swap) \/ EndLiquidation(swap)
  BY <1>4 DEF EndAngle, EndLiquidation, PayOut, LedgerInv, TxInv, TxType
<1>5. CASE CallbackReturns
  BY <1>5 DEF CallbackReturns, LedgerInv, TxInv, TxType
<1>6. CASE Collect \/ Revert
  BY <1>6 DEF Collect, Revert, NoTx
<1>7. CASE \/ \E to \in Users : CreateVault(to)
           \/ MoveOwnership
           \/ \E v \in VaultIDs, amount \in StableAmounts, fees \in RemoteFees :
                 GetDebtOut(v, amount, fees)
           \/ AccrueInterestToTreasury
           \/ \E what \in ParamNames : \E value \in ParamChoices[what] :
                 what \notin {"ceiling", "boost", "dusts"} /\ SetUint64(what, value)
           \/ Administer
           \/ Tick
           \/ \E price \in Prices : PriceMoves(price)
           \/ UNCHANGED vars
  <2>1. UNCHANGED tx
    BY <1>7 DEF CreateVault, MoveOwnership, GetDebtOut, AccrueInterestToTreasury, SetUint64,
                Administer, Tick, PriceMoves, vars
  <2> QED
    BY <2>1
<1> QED
  BY <1>1, <1>2, <1>3, <1>4, <1>5, <1>6, <1>7 DEF Next

LEMMA CustodyStep ==
    ConfigInv /\ LedgerInv /\ PaidInv /\ CustodyInv /\ [Next]_vars => CustodyInv'
<1> SUFFICES ASSUME ConfigInv, LedgerInv, PaidInv, CustodyInv, [Next]_vars
             PROVE  CustodyInv'
  OBVIOUS
<1>1. StableAmounts \subseteq Nat /\ RemoteFees \subseteq (0..BASE_PARAMS) \X (0..BASE_PARAMS)
  BY ConfigAssumption
<1>2. CASE AngleStep
  BY <1>2, AngleStepKeepsCustody
<1>3. CASE \/ \E sender \in Users : BeginAngle(sender)
           \/ \E sender, to \in Users : BeginLiquidation(sender, to)
  BY <1>3, BeginKeepsCustody
<1>4. CASE CallbackReturns
  BY <1>4, CallbackReturnsKeepsCustody
<1>5. CASE \E swap \in BOOLEAN : EndAngle(swap) \/ EndLiquidation(swap)
  BY <1>5, PayOutKeepsCustody
<1>6. CASE \E v \in VaultIDs, amount \in StableAmounts : LiquidateVault(v, amount)
  BY <1>1, <1>6, LiquidateVaultKeepsCustody
<1>7. CASE Collect
  BY <1>7, CollectKeepsCustody
<1>8. CASE Revert
  BY <1>8, RevertKeepsCustody
<1>9. CASE (\E to \in Users : CreateVault(to)) \/ MoveOwnership
  BY <1>9, OwnershipStepsKeepCustody
<1>10. CASE \E v \in VaultIDs, amount \in StableAmounts, fees \in RemoteFees :
               GetDebtOut(v, amount, fees)
  BY <1>1, <1>10, GetDebtOutKeepsCustody
<1>11. CASE \/ AccrueInterestToTreasury
            \/ \E what \in ParamNames : \E value \in ParamChoices[what] :
                  what \notin {"ceiling", "boost", "dusts"} /\ SetUint64(what, value)
            \/ Administer
            \/ Tick
            \/ \E price \in Prices : PriceMoves(price)
            \/ UNCHANGED vars
  BY <1>11, OthersKeepCustody
<1> QED
  BY <1>2, <1>3, <1>4, <1>5, <1>6, <1>7, <1>8, <1>9, <1>10, <1>11 DEF Next

LEMMA CustodyInit == Init => PaidInv /\ CustodyInv
<1> SUFFICES ASSUME Init PROVE PaidInv /\ CustodyInv
  OBVIOUS
<1>1. /\ vaultData = [v \in VaultIDs |-> NoVault]
      /\ custody = 0 /\ tx = NoTx
  BY DEF Init, Unused
<1>2. /\ CollateralOf(vaultData) \in [VaultIDs -> Nat]
      /\ \A v \in VaultIDs : CollateralOf(vaultData)[v] = 0
  BY <1>1 DEF CollateralOf, NoVault
<1>3. Counted(CollateralOf(vaultData), 0)
  <2> HIDE DEF CollateralOf
  <2> QED
    BY <1>2, TotalOfZero DEF Counted
<1> QED
  BY <1>1, <1>3 DEF PaidInv, CustodyInv, HeldInv, Held, EmptyInv, EmptyWhereFree,
                    SavedCustodyInv, Idle, NoTx

(***************************************************************************)
(* What angle() and liquidate() take in, give out and net, with a swapper  *)
(* in control in the middle of the settlement, never parts the collateral  *)
(* of the contract from that of its vaults (VaultManager.sol:263-315).     *)
(***************************************************************************)
THEOREM CollateralIsAlwaysHeld == Spec => []CollateralCustody
<1>1. CustodyInv => CollateralCustody
  BY DEF CustodyInv, HeldInv, Held, Counted, CollateralCustody
<1> QED
  BY <1>1, ConfigInit, ConfigStep, LedgerInit, LedgerStep, CustodyInit, PaidStep, CustodyStep,
     PTL DEF Spec

(***************************************************************************)
(* Nothing is ever held or owed by a vaultID without an owner, burnt or    *)
(* not yet given: _addCollateral checks that the vault exists, _repayDebt, *)
(* that does not, cannot add to it (VaultManager.sol:447, 566).            *)
(***************************************************************************)
THEOREM FreeVaultsStayEmpty == Spec => []FreeVaultsAreEmpty
<1>1. CustodyInv => FreeVaultsAreEmpty
  BY DEF CustodyInv, EmptyInv, EmptyWhereFree, FreeVaultsAreEmpty
<1> QED
  BY <1>1, ConfigInit, ConfigStep, LedgerInit, LedgerStep, CustodyInit, PaidStep, CustodyStep,
     PTL DEF Spec

-----------------------------------------------------------------------------
(***************************************************************************)
(* Risk                                                                    *)
(*                                                                         *)
(* angle() tests a vault when it makes it riskier and never again.  That   *)
(* is enough because a vault that is no safer than before the call has     *)
(* been tested at the accumulator cached, and whatever came after it (a    *)
(* debt repaid, collateral added, a call entered again) only made it       *)
(* safer; until the accumulator is cached no vault is riskier.             *)
(***************************************************************************)

RiskOK(v) ==
    \/ Safer(vaultData[v], saved.vaultData[v])
    \/ tx.acc # 0 /\ IsSolvent(vaultData[v], tx.acc)

RiskInv ==
    /\ tx.phase = "liquidating" => tx.call # "angle"
    /\ tx.call = "angle" /\ ~Idle => \A v \in VaultIDs : RiskOK(v)

\* What a step of a call does to v: it makes it safer, or tests it.
SaferOrTested(v) ==
    \/ Safer(vaultData'[v], vaultData[v])
    \/ tx'.acc # 0 /\ Solvent(vaultData'[v], oracleValue, tx'.acc, params)

LEMMA RiskStepInCall ==
    ASSUME ConfigInv, LedgerInv, LedgerInv', RiskInv, ~Idle,
           UNCHANGED <<saved, params, oracleValue>>,
           tx'.call = tx.call, tx'.phase # "liquidating",
           tx.acc # 0 => tx'.acc = tx.acc,
           \A v \in VaultIDs : SaferOrTested(v)
    PROVE  RiskInv'
<1> SUFFICES ASSUME tx.call = "angle", NEW v \in VaultIDs
             PROVE  RiskOK(v)'
  BY DEF RiskInv
<1>1. /\ vaultData[v] \in VaultType /\ vaultData'[v] \in VaultType
      /\ saved.vaultData[v] \in VaultType
  BY DEF LedgerInv, DebtsInv, SavedInv, SnapshotType
<1>2. RiskOK(v)
  BY DEF RiskInv
<1>3. CASE Safer(vaultData'[v], vaultData[v])
  <2>1. CASE Safer(vaultData[v], saved.vaultData[v])
    <3>1. Safer(vaultData'[v], saved.vaultData[v])
      BY <1>1, <1>3, <2>1 DEF Safer, VaultType
    <3> QED
      BY <3>1 DEF RiskOK
  <2>2. CASE tx.acc # 0 /\ IsSolvent(vaultData[v], tx.acc)
    <3>1. /\ oracleValue \in Nat /\ tx.acc \in Nat /\ params.collateralFactor \in Nat
      BY ConfigAssumption DEF ConfigInv, ParamsType, LedgerInv, TxInv, TxType
    <3>2. Solvent(vaultData'[v], oracleValue, tx.acc, params)
      BY <1>1, <1>3, <2>2, <3>1, SaferVaultsAreSolvent DEF IsSolvent
    <3> QED
      BY <2>2, <3>2 DEF RiskOK, IsSolvent
  <2> QED
    BY <1>2, <2>1, <2>2 DEF RiskOK
<1>4. CASE tx'.acc # 0 /\ Solvent(vaultData'[v], oracleValue, tx'.acc, params)
  BY <1>4 DEF RiskOK, IsSolvent
<1> QED
  BY <1>3, <1>4 DEF SaferOrTested

LEMMA UntouchedIsSafe ==
    ASSUME LedgerInv, NEW v \in VaultIDs, vaultData'[v] = vaultData[v]
    PROVE  SaferOrTested(v)
<1>1. vaultData[v] \in VaultType
  BY DEF LedgerInv, DebtsInv
<1> QED
  BY <1>1 DEF SaferOrTested, Safer, VaultType

\* A repayment makes one vault safer and leaves the others alone.
LEMMA DecreaseIsSafe ==
    ASSUME NEW data \in [VaultIDs -> VaultType], NEW v \in VaultIDs,
           NEW change \in 0..data[v].normalizedDebt
    PROVE  LET new == [data EXCEPT ![v].normalizedDebt = @ - change]
           IN /\ new[v] \in VaultType /\ Safer(new[v], data[v])
              /\ \A w \in VaultIDs : w # v => new[w] = data[w]
  BY DEF Safer, VaultType

LEMMA NoVaultIsSolvent ==
    ASSUME NEW acc \in Nat
    PROVE  Solvent(NoVault, oracleValue, acc, params)
<1>1. DebtValue(0, acc) = 0
  <2>1. 0 * acc = 0 /\ 0 \div BASE_INTEREST = 0
    BY BasesAssumption
  <2> QED
    BY <2>1 DEF DebtValue
<1> QED
  BY <1>1, BasesAssumption DEF Solvent, HealthFactor, NoVault

\* An action of angle() that changes v, once it has tested it at Acc or made it safer.
LEMMA ActionKeepsRisk ==
    ASSUME ConfigInv, LedgerInv, LedgerInv', RiskInv, NEW c, Proceed(c),
           DOMAIN c \subseteq {"phase", "acc", "stableToGive", "stableToReceive",
                               "collateralToGive", "collateralToReceive"},
           "phase" \in DOMAIN c => c.phase \in {"running", "callback"},
           "acc" \in DOMAIN c => c.acc = Acc,
           UNCHANGED <<params, oracleValue>>,
           \A w \in VaultIDs :
              \/ vaultData'[w] = vaultData[w]
              \/ Safer(vaultData'[w], vaultData[w])
              \/ "acc" \in DOMAIN c /\ Solvent(vaultData'[w], oracleValue, Acc, params)
    PROVE  RiskInv'
<1>1. ~Idle /\ UNCHANGED saved /\ tx'.phase # "liquidating" /\ tx'.call = tx.call
  <2>1. "call" \in DOMAIN tx /\ "call" \notin DOMAIN c
    BY DEF LedgerInv, TxInv, TxType
  <2>2. tx'.call = tx.call
    BY <2>1 DEF Proceed
  <2> QED
    BY <2>2, ProceedInCall, ProceedPhase DEF LedgerInv
<1>2. tx'.acc = IF "acc" \in DOMAIN c THEN Acc ELSE tx.acc
  BY ProceedInCall DEF LedgerInv
<1>3. Acc \in Nat \ {0} /\ (tx.acc # 0 => Acc = tx.acc)
  BY AccIsPositive DEF LedgerInv, Acc
<1>4. ASSUME NEW w \in VaultIDs PROVE SaferOrTested(w)
  <2>1. CASE vaultData'[w] = vaultData[w]
    BY <2>1, UntouchedIsSafe
  <2>2. CASE Safer(vaultData'[w], vaultData[w])
    BY <2>2 DEF SaferOrTested
  <2>3. CASE "acc" \in DOMAIN c /\ Solvent(vaultData'[w], oracleValue, Acc, params)
    <3>1. tx'.acc = Acc /\ Acc # 0
      BY <1>2, <1>3, <2>3
    <3> QED
      BY <2>3, <3>1 DEF SaferOrTested
  <2> QED
    BY <2>1, <2>2, <2>3
<1> QED
  BY <1>1, <1>2, <1>3, <1>4, RiskStepInCall

LEMMA DebtIncreaseKeepsRisk ==
    ASSUME ConfigInv, LedgerInv, LedgerInv', RiskInv, NEW v, NEW amount \in Nat,
           Borrow(v, amount) \/ \E fake \in BOOLEAN : GetDebtInRemote(v, amount, fake)
    PROVE  RiskInv'
<1> DEFINE more == [vaultData[v] EXCEPT !.normalizedDebt = @ + Normalized(amount, Acc)]
<1>1. /\ v \in VaultIDs /\ IsSolvent(more, Acc) /\ UNCHANGED <<params, oracleValue>>
      /\ vaultData' = [vaultData EXCEPT ![v].normalizedDebt = @ + Normalized(amount, Acc)]
  BY DEF Borrow, GetDebtInRemote, CanIncreaseDebt, IsApprovedOrOwner, Exists, govVars, worldVars
<1>2. \A w \in VaultIDs : \/ vaultData'[w] = vaultData[w]
                          \/ Solvent(vaultData'[w], oracleValue, Acc, params)
  <2>1. vaultData'[v] = more
    BY <1>1 DEF LedgerInv, DebtsInv
  <2> HIDE DEF more
  <2> QED
    BY <1>1, <2>1 DEF IsSolvent, LedgerInv, DebtsInv
<1> HIDE DEF more
<1>3. CASE Borrow(v, amount)
  <2>1. PICK give : Proceed([acc |-> Acc, stableToGive |-> give])
    BY <1>3 DEF Borrow
  <2> QED
    BY <1>1, <1>2, <2>1, ActionKeepsRisk
<1>4. ASSUME NEW fake \in BOOLEAN, GetDebtInRemote(v, amount, fake) PROVE RiskInv'
  <2>1. PICK phase \in {"running", "callback"} : Proceed([acc |-> Acc, phase |-> phase])
    BY <1>4 DEF GetDebtInRemote
  <2> QED
    BY <1>1, <1>2, <2>1, ActionKeepsRisk
<1> QED
  BY <1>3, <1>4

LEMMA GetDebtInLocalKeepsRisk ==
    ASSUME ConfigInv, LedgerInv, LedgerInv', RiskInv, NEW src, NEW dst \in VaultIDs,
           NEW amount \in Nat, GetDebtInLocal(src, dst, amount)
    PROVE  RiskInv'
<1> DEFINE n == Normalized(amount, Acc)
           indebted == [vaultData EXCEPT ![src].normalizedDebt = @ + n]
           change == Repayment(indebted[dst].normalizedDebt, Issued(amount), Acc).change
           more == [vaultData[src] EXCEPT !.normalizedDebt = @ + n]
<1>1. /\ src \in VaultIDs /\ IsSolvent(more, Acc) /\ UNCHANGED <<params, oracleValue>>
      /\ vaultData' = [indebted EXCEPT ![dst].normalizedDebt = @ - change]
      /\ Proceed([acc |-> Acc])
  BY DEF GetDebtInLocal, CanIncreaseDebt, IsApprovedOrOwner, Exists, govVars, worldVars
<1>2. n \in Nat /\ Issued(amount) \in Nat /\ Acc \in Nat \ {0}
  BY IssuedIsNat, AccIsPositive DEF LedgerInv
<1>3. /\ indebted \in [VaultIDs -> VaultType] /\ indebted[src] = more
      /\ \A w \in VaultIDs : w # src => indebted[w] = vaultData[w]
  <2> HIDE DEF n
  <2> QED
    BY <1>1, <1>2 DEF LedgerInv, DebtsInv, VaultType
<1> HIDE DEF n, more, indebted
<1>4. change \in 0..indebted[dst].normalizedDebt
  <2>1. indebted[dst].normalizedDebt \in Nat
    BY <1>3 DEF VaultType
  <2> QED
    BY <1>2, <2>1, RepaymentWithinDebt
<1> HIDE DEF change
<1>5. /\ vaultData'[dst] \in VaultType /\ Safer(vaultData'[dst], indebted[dst])
      /\ \A w \in VaultIDs : w # dst => vaultData'[w] = indebted[w]
  BY <1>1, <1>3, <1>4, DecreaseIsSafe
<1>6. ASSUME NEW w \in VaultIDs
      PROVE  \/ vaultData'[w] = vaultData[w]
             \/ Safer(vaultData'[w], vaultData[w])
             \/ Solvent(vaultData'[w], oracleValue, Acc, params)
  <2>1. CASE w = src /\ w # dst
    BY <1>1, <1>3, <1>5, <2>1 DEF IsSolvent
  <2>2. CASE w = dst /\ w # src
    BY <1>3, <1>5, <2>2
  <2>3. CASE w = src /\ w = dst
    <3>1. oracleValue \in Nat /\ params.collateralFactor \in Nat
      BY ConfigAssumption DEF ConfigInv, ParamsType
    <3>2. more \in VaultType /\ Safer(vaultData'[w], more)
      BY <1>3, <1>5, <2>3
    <3> QED
      BY <1>1, <1>2, <1>5, <2>3, <3>1, <3>2, SaferVaultsAreSolvent DEF IsSolvent
  <2>4. CASE w # src /\ w # dst
    BY <1>3, <1>5, <2>4
  <2> QED
    BY <2>1, <2>2, <2>3, <2>4
<1> QED
  BY <1>1, <1>6, ActionKeepsRisk

LEMMA AngleStepKeepsRisk ==
    ASSUME ConfigInv, LedgerInv, LedgerInv', RiskInv, AngleStep
    PROVE  RiskInv'
<1>1. CollateralAmounts \subseteq Nat /\ StableAmounts \subseteq Nat
  BY ConfigAssumption
<1>2. ASSUME NEW to \in Users, CreateVaultInCall(to) PROVE RiskInv'
  <2>1. PICK phase \in {"running", "callback"} : Proceed([phase |-> phase])
    BY <1>2 DEF CreateVaultInCall
  <2>2. UNCHANGED <<vaultData, params, oracleValue>>
    BY <1>2 DEF CreateVaultInCall, debtVars, govVars, worldVars
  <2> QED
    BY <2>1, <2>2, ActionKeepsRisk
<1>3. ASSUME NEW v, NEW amount \in Nat, AddCollateral(v, amount) PROVE RiskInv'
  <2>1. /\ v \in VaultIDs /\ UNCHANGED <<params, oracleValue>>
        /\ vaultData' = [vaultData EXCEPT ![v].collateralAmount = @ + amount]
    BY <1>3 DEF AddCollateral, Exists, govVars, worldVars
  <2>2. PICK receive : Proceed([collateralToReceive |-> receive])
    BY <1>3 DEF AddCollateral
  <2>3. \A w \in VaultIDs : vaultData'[w] = vaultData[w] \/ Safer(vaultData'[w], vaultData[w])
    BY <2>1 DEF LedgerInv, DebtsInv, VaultType, Safer
  <2> QED
    BY <2>1, <2>2, <2>3, ActionKeepsRisk
<1>4. ASSUME NEW v, NEW amount \in Nat, RemoveCollateral(v, amount) PROVE RiskInv'
  <2> DEFINE left == [vaultData[v] EXCEPT !.collateralAmount = @ - amount]
  <2>1. /\ v \in VaultIDs /\ UNCHANGED <<params, oracleValue>> /\ IsSolvent(left, Acc)
        /\ vaultData' = [vaultData EXCEPT ![v] = left]
    BY <1>4 DEF RemoveCollateral, IsApprovedOrOwner, Exists, govVars, worldVars
  <2> HIDE DEF left
  <2>2. PICK give : Proceed([acc |-> Acc, collateralToGive |-> give])
    BY <1>4 DEF RemoveCollateral
  <2>3. \A w \in VaultIDs : \/ vaultData'[w] = vaultData[w]
                            \/ Solvent(vaultData'[w], oracleValue, Acc, params)
    BY <2>1 DEF LedgerInv, DebtsInv, IsSolvent
  <2> QED
    BY <2>1, <2>2, <2>3, ActionKeepsRisk
<1>5. ASSUME NEW v \in VaultIDs, NEW amount \in Nat, RepayDebt(v, amount) PROVE RiskInv'
  <2> DEFINE change == Repayment(Debt(v), amount, Acc).change
  <2>1. /\ UNCHANGED <<params, oracleValue>>
        /\ vaultData' = [vaultData EXCEPT ![v].normalizedDebt = @ - change]
    BY <1>5 DEF RepayDebt, govVars, worldVars
  <2>2. change \in 0..Debt(v)
    <3>1. Debt(v) \in Nat /\ Acc \in Nat \ {0}
      BY AccIsPositive DEF LedgerInv, DebtsInv, VaultType, Debt
    <3> QED
      BY <3>1, RepaymentWithinDebt
  <2> HIDE DEF change
  <2>3. PICK receive : Proceed([acc |-> Acc, stableToReceive |-> receive])
    BY <1>5 DEF RepayDebt
  <2>4. \A w \in VaultIDs : vaultData'[w] = vaultData[w] \/ Safer(vaultData'[w], vaultData[w])
    BY <2>1, <2>2, DecreaseIsSafe DEF LedgerInv, DebtsInv, Debt
  <2> QED
    BY <2>1, <2>3, <2>4, ActionKeepsRisk
<1>6. ASSUME NEW v, NEW amount \in Nat, Borrow(v, amount) PROVE RiskInv'
  BY <1>6, DebtIncreaseKeepsRisk
<1>7. ASSUME NEW v, CloseVault(v) PROVE RiskInv'
  <2>1. /\ v \in VaultIDs /\ UNCHANGED <<params, oracleValue>>
        /\ vaultData' = [vaultData EXCEPT ![v] = NoVault]
    BY <1>7 DEF CloseVault, IsApprovedOrOwner, Exists, govVars, worldVars
  <2>2. PICK receive, give : Proceed([acc |-> Acc, stableToReceive |-> receive,
                                      collateralToGive |-> give])
    BY <1>7 DEF CloseVault
  <2>3. Solvent(NoVault, oracleValue, Acc, params)
    BY NoVaultIsSolvent, AccIsPositive DEF LedgerInv
  <2>4. \A w \in VaultIDs : \/ vaultData'[w] = vaultData[w]
                            \/ Solvent(vaultData'[w], oracleValue, Acc, params)
    BY <2>1, <2>3 DEF LedgerInv, DebtsInv
  <2> QED
    BY <2>1, <2>2, <2>4, ActionKeepsRisk
<1>8. ASSUME NEW src, NEW dst \in VaultIDs, NEW amount \in Nat, GetDebtInLocal(src, dst, amount)
      PROVE  RiskInv'
  BY <1>8, GetDebtInLocalKeepsRisk
<1>9. ASSUME NEW src, NEW amount \in Nat, NEW fake \in BOOLEAN, GetDebtInRemote(src, amount, fake)
      PROVE  RiskInv'
  BY <1>9, DebtIncreaseKeepsRisk
<1> QED
  BY <1>1, <1>2, <1>3, <1>4, <1>5, <1>6, <1>7, <1>8, <1>9 DEF AngleStep

\* What runs in a callback can repay the debt of a vault, and nothing else matters here.
LEMMA GetDebtOutKeepsRisk ==
    ASSUME ConfigInv, LedgerInv, LedgerInv', RiskInv, NEW v \in VaultIDs,
           NEW amount \in Nat, NEW fees \in (0..BASE_PARAMS) \X (0..BASE_PARAMS),
           GetDebtOut(v, amount, fees)
    PROVE  RiskInv'
<1> DEFINE change == Repayment(Debt(v), LessFees(amount, fees), NewAccumulator).change
<1>1. /\ UNCHANGED <<params, oracleValue, tx, saved>>
      /\ vaultData' = [vaultData EXCEPT ![v].normalizedDebt = @ - change]
      /\ tx.phase # "liquidating"
  BY DEF GetDebtOut, Outside, govVars, worldVars
<1>2. change \in 0..Debt(v)
  <2>1. Debt(v) \in Nat /\ NewAccumulator \in Nat \ {0}
    BY NewAccumulatorGrows DEF LedgerInv, DebtsInv, VaultType, Debt
  <2>2. LessFees(amount, fees) \in Nat
    BY LessFeesIsPart DEF ConfigInv
  <2> QED
    BY <2>1, <2>2, RepaymentWithinDebt
<1> HIDE DEF change
<1>3. \A w \in VaultIDs : SaferOrTested(w)
  <2> SUFFICES ASSUME NEW w \in VaultIDs PROVE SaferOrTested(w)
    OBVIOUS
  <2>1. vaultData'[w] = vaultData[w] \/ Safer(vaultData'[w], vaultData[w])
    BY <1>1, <1>2, DecreaseIsSafe DEF LedgerInv, DebtsInv, Debt
  <2> QED
    BY <2>1, UntouchedIsSafe DEF SaferOrTested
<1>4. CASE Idle
  BY <1>1, <1>4 DEF RiskInv, Idle
<1>5. CASE ~Idle
  BY <1>1, <1>3, <1>5, RiskStepInCall
<1> QED
  BY <1>4, <1>5

\* The steps that leave the vaults, and the accumulator of the call, alone.
LEMMA OthersKeepRisk ==
    ASSUME ConfigInv, LedgerInv, LedgerInv', RiskInv,
           \/ CallbackReturns
           \/ \E swap \in BOOLEAN : EndAngle(swap) \/ EndLiquidation(swap)
           \/ \E to \in Users : CreateVault(to)
           \/ MoveOwnership
           \/ AccrueInterestToTreasury
    PROVE  RiskInv'
<1>1. UNCHANGED <<vaultData, params, oracleValue, saved>> /\ tx'.call = tx.call
      /\ tx'.acc = tx.acc /\ tx'.phase # "liquidating" /\ (Idle => UNCHANGED tx)
  <2>1. CASE CallbackReturns
    BY <2>1 DEF CallbackReturns, Idle, LedgerInv, TxInv, TxType, debtVars, govVars, worldVars
  <2>2. ASSUME NEW swap \in BOOLEAN, EndAngle(swap) \/ EndLiquidation(swap)
        PROVE  UNCHANGED <<vaultData, params, oracleValue, saved>> /\ tx'.call = tx.call
               /\ tx'.acc = tx.acc /\ tx'.phase # "liquidating" /\ ~Idle
    BY <2>2 DEF EndAngle, EndLiquidation, PayOut, Idle, LedgerInv, TxInv, TxType, debtVars,
                govVars, worldVars
  <2>3. CASE (\E to \in Users : CreateVault(to)) \/ MoveOwnership \/ AccrueInterestToTreasury
    BY <2>3 DEF CreateVault, MoveOwnership, AccrueInterestToTreasury, Outside, debtVars, govVars,
                worldVars
  <2> QED
    BY <2>1, <2>2, <2>3
<1>2. \A w \in VaultIDs : SaferOrTested(w)
  BY <1>1, UntouchedIsSafe
<1>3. CASE Idle
  BY <1>1, <1>3 DEF RiskInv, Idle
<1>4. CASE ~Idle
  BY <1>1, <1>2, <1>4, RiskStepInCall
<1> QED
  BY <1>3, <1>4

LEMMA RiskStep ==
    ConfigInv /\ LedgerInv /\ LedgerInv' /\ RiskInv /\ [Next]_vars => RiskInv'
<1> SUFFICES ASSUME ConfigInv, LedgerInv, LedgerInv', RiskInv, [Next]_vars PROVE RiskInv'
  OBVIOUS
<1>1. StableAmounts \subseteq Nat /\ RemoteFees \subseteq (0..BASE_PARAMS) \X (0..BASE_PARAMS)
  BY ConfigAssumption
<1>2. CASE AngleStep
  BY <1>2, AngleStepKeepsRisk
<1>3. ASSUME NEW sender \in Users, BeginAngle(sender) PROVE RiskInv'
  <2>1. /\ saved'.vaultData = vaultData /\ UNCHANGED vaultData /\ tx'.phase = "running"
    BY <1>3 DEF BeginAngle, Begin, Snapshot, NoTx, debtVars
  <2>2. \A v \in VaultIDs : Safer(vaultData[v], vaultData[v])
    BY DEF Safer, LedgerInv, DebtsInv, VaultType
  <2> QED
    BY <2>1, <2>2 DEF RiskInv, RiskOK
<1>4. ASSUME NEW sender \in Users, NEW to \in Users, BeginLiquidation(sender, to) PROVE RiskInv'
  BY <1>4 DEF BeginLiquidation, Begin, NoTx, RiskInv
<1>5. ASSUME NEW v \in VaultIDs, NEW amount \in StableAmounts, LiquidateVault(v, amount)
      PROVE  RiskInv'
  <2>1. tx.phase = "liquidating" /\ tx'.call = tx.call
    BY <1>5 DEF LiquidateVault, SeizeVault, SellCollateral, LedgerInv, TxInv, TxType
  <2> QED
    BY <2>1 DEF RiskInv
<1>6. CASE Collect \/ Revert
  BY <1>6 DEF Collect, Revert, NoTx, RiskInv
<1>7. CASE \/ CallbackReturns
           \/ \E swap \in BOOLEAN : EndAngle(swap) \/ EndLiquidation(swap)
           \/ \E to \in Users : CreateVault(to)
           \/ MoveOwnership
           \/ AccrueInterestToTreasury
  BY <1>7, OthersKeepRisk
<1>8. ASSUME NEW v \in VaultIDs, NEW amount \in StableAmounts, NEW fees \in RemoteFees,
             GetDebtOut(v, amount, fees)
      PROVE  RiskInv'
  BY <1>1, <1>8, GetDebtOutKeepsRisk
<1>9. CASE \/ \E what \in ParamNames : \E value \in ParamChoices[what] :
                 what \notin {"ceiling", "boost", "dusts"} /\ SetUint64(what, value)
           \/ Administer
           \/ Tick
           \/ \E price \in Prices : PriceMoves(price)
  <2>1. Idle /\ UNCHANGED tx
    BY <1>9 DEF SetUint64, Administer, Tick, PriceMoves
  <2>2. tx.call = "none" /\ tx.phase = "idle"
    BY <2>1 DEF LedgerInv, SavedInv, NoTx
  <2> QED
    BY <2>1, <2>2 DEF RiskInv
<1>10. CASE UNCHANGED vars
  BY <1>10 DEF vars, debtVars, govVars, worldVars, RiskInv, RiskOK, IsSolvent, Idle
<1> QED
  BY <1>2, <1>3, <1>4, <1>5, <1>6, <1>7, <1>8, <1>9, <1>10 DEF Next

(***************************************************************************)
(* However a call of angle() combines its actions, on whatever vaults, and *)
(* whatever runs in its callbacks and in the swapper, it does not commit   *)
(* with a vault that it made riskier and that is not solvent               *)
(* (VaultManager.sol:483, 520).                                            *)
(***************************************************************************)
THEOREM RiskierVaultsStaySolvent == Spec => RiskierVaultsAreSolvent
<1>1. ASSUME LedgerInv, LedgerInv', FreshInv, RiskInv, [Next]_vars
      PROVE  [tx.call = "angle" /\ Idle' =>
                \A v \in VaultIDs :
                   \/ /\ vaultData'[v].normalizedDebt <= saved.vaultData[v].normalizedDebt
                      /\ vaultData'[v].collateralAmount >= saved.vaultData[v].collateralAmount
                   \/ Solvent(vaultData'[v], oracleValue, interestAccumulator', params)]_vars
  <2> SUFFICES ASSUME Next, tx.call = "angle", Idle', NEW v \in VaultIDs
               PROVE  \/ Safer(vaultData'[v], saved.vaultData[v])
                      \/ Solvent(vaultData'[v], oracleValue, interestAccumulator', params)
    BY <1>1 DEF Safer
  <2>1. ~Idle /\ RiskOK(v)
    BY <1>1 DEF LedgerInv, SavedInv, NoTx, RiskInv
  <2>2. CASE Collect
    <3>1. UNCHANGED <<vaultData, interestAccumulator>>
      BY <2>2 DEF Collect, debtVars, accrualVars
    <3>2. tx.acc # 0 => tx.acc = interestAccumulator
      BY <1>1 DEF FreshInv, CachedAccumulatorIsFresh
    <3> QED
      BY <2>1, <3>1, <3>2 DEF RiskOK, IsSolvent
  <2>3. CASE Revert
    <3>1. vaultData'[v] = saved.vaultData[v] /\ saved.vaultData[v] \in VaultType
      BY <1>1, <2>1, <2>3 DEF Revert, LedgerInv, SavedInv, SnapshotType
    <3> QED
      BY <3>1 DEF Safer, VaultType
  <2>4. CASE AngleStep
    BY <1>1, <2>4, AngleStepAccrues
  <2>5. CASE ~Collect /\ ~Revert /\ ~AngleStep
    <3>1. \/ \E w \in VaultIDs, amount \in StableAmounts : LiquidateVault(w, amount)
          \/ \E swap \in BOOLEAN : EndAngle(swap) \/ EndLiquidation(swap)
          \/ CallbackReturns
          \/ UNCHANGED tx
      BY <2>1, <2>5
      DEF Next, BeginAngle, BeginLiquidation, Begin, CreateVault, MoveOwnership, GetDebtOut,
          AccrueInterestToTreasury, SetUint64, Administer, Tick, PriceMoves
    <3>2. \A w, amount : LiquidateVault(w, amount) => tx'.phase = tx.phase
      BY <1>1 DEF LiquidateVault, SeizeVault, SellCollateral, LedgerInv, TxInv, TxType
    <3>3. \A swap : EndAngle(swap) \/ EndLiquidation(swap) => tx'.phase \in {"swap", "paying"}
      BY <1>1 DEF EndAngle, EndLiquidation, PayOut, LedgerInv, TxInv, TxType
    <3>4. CallbackReturns => tx'.phase = "running"
      BY <1>1 DEF CallbackReturns, LedgerInv, TxInv, TxType
    <3> QED
      BY <2>1, <3>1, <3>2, <3>3, <3>4 DEF Idle
  <2> QED
    BY <2>2, <2>3, <2>4, <2>5
<1>2. Init => RiskInv
  BY DEF Init, Unused, NoTx, RiskInv, Idle
<1> QED
  BY <1>1, <1>2, ConfigInit, ConfigStep, LedgerInit, LedgerStep, FreshInit, FreshStep, RiskStep,
     PTL DEF Spec, RiskierVaultsAreSolvent

-----------------------------------------------------------------------------
\* Backing: the stablecoins out and the debts that stand for them

(***************************************************************************)
(* Stablecoins, surplus and amounts to mint, less the losses: Unbacked is  *)
(* BASE_INTEREST times it, less the debts of the vaults.                   *)
(***************************************************************************)
Claims == circulating + treasury.minted + surplus + (tx.stableToGive - tx.stableToReceive)

Surcharge(paid) == (paid * (BASE_PARAMS - params.liquidationSurcharge)) \div BASE_PARAMS

Pending == IF tx.phase = "liquidating" THEN Surcharge(tx.stableToReceive) ELSE 0

Losses == badDebt + tx.badDebt + treasury.badDebt + foreignDebt

Net == Claims + Pending - Losses

\* What a call still owes is settled before it collects; only liquidations lose.
SettledInv ==
    /\ tx.phase # "liquidating" => tx.badDebt = 0
    /\ tx.phase \in {"swap", "paying"} => tx.stableToGive = 0

LEMMA SurchargeIsNat ==
    ASSUME ConfigInv, NEW paid \in Nat
    PROVE  Surcharge(paid) \in 0..paid
<1>1. BASE_PARAMS - params.liquidationSurcharge \in 0..BASE_PARAMS
  BY BasesAssumption DEF ConfigInv, ParamsType, ParamsConsistent
<1> QED
  BY <1>1, BasesAssumption, FractionOf DEF Surcharge

LEMMA MoneyTypes ==
    ASSUME ConfigInv, LedgerInv
    PROVE  /\ circulating \in Nat /\ treasury.minted \in Nat /\ surplus \in Nat
           /\ tx.stableToGive \in Nat /\ tx.stableToReceive \in Nat
           /\ badDebt \in Nat /\ tx.badDebt \in Nat /\ treasury.badDebt \in Nat
           /\ foreignDebt \in Nat /\ Pending \in Nat
           /\ totalNormalizedDebt \in Nat /\ interestAccumulator \in Nat \ {0}
<1>1. tx.stableToReceive \in Nat
  BY DEF LedgerInv, TxInv, TxType
<1>2. Pending \in Nat
  BY <1>1, SurchargeIsNat DEF Pending
<1> QED
  BY <1>1, <1>2, TotalIsNat
     DEF LedgerInv, MoneyInv, TreasuryType, InterestInv, TxInv, TxType

LEMMA UnbackedIsNet ==
    ConfigInv /\ LedgerInv =>
       /\ Net \in Int
       /\ Unbacked = BASE_INTEREST * Net - totalNormalizedDebt * interestAccumulator
<1> SUFFICES ASSUME ConfigInv, LedgerInv
             PROVE  /\ Net \in Int
                    /\ Unbacked = BASE_INTEREST * Net - totalNormalizedDebt * interestAccumulator
  OBVIOUS
<1> DEFINE debts == totalNormalizedDebt * interestAccumulator
<1>1. Claims \in Int /\ Losses \in Int /\ Pending \in Int /\ debts \in Int
  BY MoneyTypes DEF Claims, Losses
<1>2. Unbacked = BASE_INTEREST * Claims + (BASE_INTEREST * Pending) - debts
                   - BASE_INTEREST * Losses
  <2>1. CASE tx.phase = "liquidating"
    BY <2>1, MoneyTypes DEF Unbacked, Claims, Losses, Pending, Surcharge
  <2>2. CASE tx.phase # "liquidating"
    <3>1. BASE_INTEREST * 0 = 0
      BY BasesAssumption
    <3> QED
      BY <2>2, <3>1, MoneyTypes DEF Unbacked, Claims, Losses, Pending
  <2> QED
    BY <2>1, <2>2
<1> HIDE DEF debts
<1>3. BASE_INTEREST * (Claims + Pending - Losses)
         = BASE_INTEREST * Claims + BASE_INTEREST * Pending - BASE_INTEREST * Losses
  BY <1>1, BasesAssumption
<1>4. /\ BASE_INTEREST * Claims \in Int /\ BASE_INTEREST * Pending \in Int
      /\ BASE_INTEREST * Losses \in Int
  BY <1>1, BasesAssumption
<1>5. Unbacked = BASE_INTEREST * Net - debts
  BY <1>1, <1>2, <1>3, <1>4 DEF Net
<1> QED
  BY <1>1, <1>5 DEF Net, debts

LEMMA UnbackedIsNetAfter ==
    (ConfigInv /\ LedgerInv =>
       /\ Net \in Int
       /\ Unbacked = BASE_INTEREST * Net - totalNormalizedDebt * interestAccumulator)'
  BY UnbackedIsNet, PTL

(***************************************************************************)
(* What a step may add to Unbacked: the truncated fractions of the debts   *)
(* that it wipes out.                                                      *)
(***************************************************************************)
Wiped == {v \in VaultIDs : Debt(v) > 0 /\ Debt(v)' = 0}

StepIsBacked == Unbacked' - Unbacked <= (BASE_INTEREST - 1) * Cardinality(Wiped)

\* What a step may leave unbacked: nothing, or a fraction when it wipes out a debt.
Allowed(extra) ==
    \/ extra = 0
    \/ extra = BASE_INTEREST - 1 /\ \E v \in VaultIDs : Debt(v) > 0 /\ Debt(v)' = 0

LEMMA AllowedIsCounted ==
    ASSUME NEW extra, Allowed(extra)
    PROVE  extra \in Nat /\ extra <= (BASE_INTEREST - 1) * Cardinality(Wiped)
<1>1. IsFiniteSet(Wiped)
  <2>1. IsFiniteSet(VaultIDs)
    BY OwnershipAssumption, FS_Interval DEF VaultIDs
  <2> QED
    BY <2>1, FS_Subset DEF Wiped
<1>2. Cardinality(Wiped) \in Nat /\ BASE_INTEREST - 1 \in Nat
  BY <1>1, FS_CardinalityType, BasesAssumption
<1>3. CASE extra = 0
  BY <1>2, <1>3, ProductIsNat
<1>4. CASE extra # 0
  <2>1. extra = BASE_INTEREST - 1 /\ Wiped # {}
    BY <1>4 DEF Allowed, Wiped
  <2>2. Cardinality(Wiped) >= 1
    BY <1>1, <1>2, <2>1, FS_EmptySet
  <2> HIDE DEF Wiped
  <2>3. (BASE_INTEREST - 1) * 1 <= (BASE_INTEREST - 1) * Cardinality(Wiped)
    BY <1>2, <2>2, ProductMonotone
  <2> QED
    BY <1>2, <2>1, <2>3
<1> QED
  BY <1>3, <1>4

(***************************************************************************)
(* A step is backed when what accrues is less than the interest on the     *)
(* debts, and what it gives besides is less than the debt that it adds.    *)
(***************************************************************************)
LEMMA BackedStep ==
    ASSUME ConfigInv, LedgerInv, ConfigInv', LedgerInv',
           NEW accrued \in Nat, NEW given \in Int, NEW added \in Int, NEW extra, Allowed(extra),
           BASE_INTEREST * accrued
              <= totalNormalizedDebt * (interestAccumulator' - interestAccumulator),
           totalNormalizedDebt' = totalNormalizedDebt + added,
           Net' <= Net + accrued + given,
           BASE_INTEREST * given <= added * interestAccumulator' + extra
    PROVE  StepIsBacked
<1> DEFINE T  == totalNormalizedDebt
           I  == interestAccumulator
           J  == interestAccumulator'
           N  == Net
           N2 == Net'
<1>1. /\ N \in Int /\ Unbacked = BASE_INTEREST * N - T * I
      /\ N2 \in Int /\ Unbacked' = BASE_INTEREST * N2 - T' * J
  BY UnbackedIsNet, UnbackedIsNetAfter
<1>2. T \in Nat /\ I \in Nat /\ J \in Nat
  BY MoneyTypes DEF LedgerInv, InterestInv
<1>3. extra \in Nat /\ extra <= (BASE_INTEREST - 1) * Cardinality(Wiped)
  BY AllowedIsCounted
<1>4. T' * J = T * J + added * J
  BY <1>2
<1>5. BASE_INTEREST * accrued <= T * J - T * I
  BY <1>2
<1> HIDE DEF T, I, J, N, N2
<1>6. BASE_INTEREST * N2 <= BASE_INTEREST * N + BASE_INTEREST * accrued + BASE_INTEREST * given
  <2>1. N2 <= N + accrued + given
    BY DEF N, N2
  <2>2. BASE_INTEREST * N2 <= BASE_INTEREST * (N + accrued + given)
    BY <1>1, <2>1, BasesAssumption
  <2>3. BASE_INTEREST * (N + accrued + given)
           = BASE_INTEREST * N + BASE_INTEREST * accrued + BASE_INTEREST * given
    BY <1>1, BasesAssumption
  <2> QED
    BY <2>2, <2>3
<1>7. BASE_INTEREST * given <= added * J + extra
  BY DEF J
<1>8. /\ BASE_INTEREST * N \in Int /\ BASE_INTEREST * N2 \in Int /\ T * I \in Int /\ T * J \in Int
      /\ added * J \in Int /\ BASE_INTEREST * accrued \in Int /\ BASE_INTEREST * given \in Int
  BY <1>1, <1>2, BasesAssumption
<1>9. Unbacked' - Unbacked <= extra
  BY <1>1, <1>3, <1>4, <1>5, <1>6, <1>7, <1>8
<1>10. (BASE_INTEREST - 1) * Cardinality(Wiped) \in Int /\ Unbacked' \in Int /\ Unbacked \in Int
  <2>1. Cardinality(Wiped) \in Nat
    <3>1. IsFiniteSet(VaultIDs)
      BY OwnershipAssumption, FS_Interval DEF VaultIDs
    <3> QED
      BY <3>1, FS_Subset, FS_CardinalityType DEF Wiped
  <2>2. T' * J \in Int
    BY <1>4, <1>8
  <2> QED
    BY <1>1, <1>8, <2>1, <2>2, BasesAssumption
<1> QED
  <2> DEFINE limit == (BASE_INTEREST - 1) * Cardinality(Wiped)
             before == Unbacked
             after  == Unbacked'
  <2>1. extra <= limit /\ extra \in Nat
    BY <1>3
  <2>2. after - before <= extra
    BY <1>9
  <2>3. limit \in Int /\ after \in Int /\ before \in Int
    BY <1>10
  <2> HIDE DEF limit, before, after
  <2>4. after - before <= limit
    BY <2>1, <2>2, <2>3
  <2> QED
    BY <2>4 DEF StepIsBacked, limit, before, after

\* A step that gives nothing, adds no debt and accrues nothing.
LEMMA NeutralStep ==
    ASSUME ConfigInv, LedgerInv, ConfigInv', LedgerInv',
           UNCHANGED <<totalNormalizedDebt, interestAccumulator>>, Net' = Net
    PROVE  StepIsBacked
<1>1. Net \in Int /\ totalNormalizedDebt \in Nat /\ interestAccumulator \in Nat
  BY UnbackedIsNet, MoneyTypes
<1>2. /\ BASE_INTEREST * 0 <= totalNormalizedDebt * (interestAccumulator' - interestAccumulator)
      /\ totalNormalizedDebt' = totalNormalizedDebt + 0
      /\ Net' <= Net + 0 + 0
      /\ BASE_INTEREST * 0 <= 0 * interestAccumulator' + 0
  BY <1>1, BasesAssumption
<1> QED
  BY <1>2, BackedStep DEF Allowed

LEMMA NothingGiven ==
    ASSUME NEW a \in Int, NEW b \in Int
    PROVE  a * 0 <= 0 * b + 0
  OBVIOUS

\* A step that only accrues.
LEMMA AccruingStep ==
    ASSUME ConfigInv, LedgerInv, ConfigInv', LedgerInv',
           UNCHANGED totalNormalizedDebt, NEW accrued \in Nat, Net' = Net + accrued,
           BASE_INTEREST * accrued
              <= totalNormalizedDebt * (interestAccumulator' - interestAccumulator)
    PROVE  StepIsBacked
<1>1. Net \in Int /\ totalNormalizedDebt \in Nat
  BY UnbackedIsNet, MoneyTypes
<1>2. interestAccumulator' \in Nat
  BY DEF LedgerInv, InterestInv
<1>3. BASE_INTEREST * 0 <= 0 * interestAccumulator' + 0
  <2> DEFINE J == interestAccumulator'
  <2>1. J \in Int /\ BASE_INTEREST \in Int
    BY <1>2, BasesAssumption
  <2> HIDE DEF J
  <2>2. BASE_INTEREST * 0 <= 0 * J + 0
    BY <2>1, NothingGiven, Zenon
  <2> QED
    BY <2>2 DEF J
<1>4. /\ totalNormalizedDebt' = totalNormalizedDebt + 0 /\ Net' <= Net + accrued + 0
      /\ BASE_INTEREST * 0 <= 0 * interestAccumulator' + 0
  BY <1>1, <1>3
<1> QED
  BY <1>4, BackedStep DEF Allowed

\* The steps that touch no amount.
LEMMA UntouchedIsBacked ==
    ASSUME ConfigInv, LedgerInv, ConfigInv', LedgerInv',
           UNCHANGED <<debtVars, accrualVars, surplus, badDebt, treasury, moneyVars, foreignDebt>>,
           \/ UNCHANGED tx /\ (~Idle => UNCHANGED params)
           \/ /\ tx.phase # "liquidating" /\ tx'.phase # "liquidating"
              /\ tx'.stableToGive = tx.stableToGive
              /\ tx'.stableToReceive = tx.stableToReceive
              /\ tx'.badDebt = tx.badDebt
    PROVE  StepIsBacked
<1>1. Pending' = Pending
  <2>1. CASE UNCHANGED tx /\ (~Idle => UNCHANGED params)
    BY <2>1 DEF Pending, Surcharge, Idle
  <2>2. CASE tx.phase # "liquidating" /\ tx'.phase # "liquidating"
    BY <2>2 DEF Pending
  <2> QED
    BY <2>1, <2>2
<1>2. Net' = Net
  BY <1>1 DEF Net, Claims, Losses, moneyVars
<1> QED
  BY <1>2, NeutralStep DEF debtVars, accrualVars

(***************************************************************************)
(* Interest: what the surplus earns is at most what the debts grow by.     *)
(***************************************************************************)
Accrued(accrued, income) ==
    /\ accrued \in Nat
    /\ surplus' = surplus + accrued + income
    /\ BASE_INTEREST * accrued
          <= totalNormalizedDebt * (interestAccumulator' - interestAccumulator)

LEMMA AccrualIsBacked ==
    ASSUME ConfigInv, LedgerInv, NEW income \in Int, AccrueAndEarn(income)
    PROVE  Accrued(InterestAccrued, income)
<1> DEFINE interest == totalNormalizedDebt * (NewAccumulator - interestAccumulator)
<1>1. NewAccumulator - interestAccumulator \in Nat
  BY NewAccumulatorGrows DEF LedgerInv, InterestInv
<1>2. interest \in Nat
  BY <1>1, MoneyTypes, ProductIsNat
<1> HIDE DEF interest
<1>3. (interest \div BASE_INTEREST) * BASE_INTEREST <= interest /\ interest \div BASE_INTEREST \in Nat
  BY <1>2, BasesAssumption, DivisionTruncates, DivisionIsNat
<1>4. InterestAccrued = interest \div BASE_INTEREST
  BY DEF InterestAccrued, interest
<1>5. BASE_INTEREST * InterestAccrued <= interest /\ InterestAccrued \in Nat
  BY <1>3, <1>4, BasesAssumption
<1> QED
  BY <1>5, MoneyTypes DEF Accrued, AccrueAndEarn, interest

LEMMA AccrualOnceIsBacked ==
    ASSUME ConfigInv, LedgerInv, FreshInv, NEW income \in Int, AccrueOnce(income)
    PROVE  /\ interestAccumulator' = Acc
           /\ \E accrued \in Nat : Accrued(accrued, income)
<1>1. CASE tx.acc = 0
  <2>1. AccrueAndEarn(income)
    BY <1>1 DEF AccrueOnce
  <2>2. Accrued(InterestAccrued, income)
    BY <2>1, AccrualIsBacked
  <2> QED
    BY <1>1, <2>1, <2>2 DEF AccrueAndEarn, Acc, Accrued
<1>2. CASE tx.acc # 0
  <2>1. surplus' = surplus + income /\ interestAccumulator' = interestAccumulator
    BY <1>2 DEF AccrueOnce, accrualVars
  <2>2. Acc = interestAccumulator
    BY <1>2 DEF Acc, FreshInv, CachedAccumulatorIsFresh
  <2>3. Accrued(0, income)
    BY <2>1, MoneyTypes, BasesAssumption DEF Accrued
  <2> QED
    BY <2>1, <2>2, <2>3
<1> QED
  BY <1>1, <1>2

-----------------------------------------------------------------------------
\* Backing: the actions of angle()

\* What an action of angle() does to the amounts of stablecoins of its call.
LEMMA ProceedMoney ==
    ASSUME TxInv, NEW c, Proceed(c), "badDebt" \notin DOMAIN c,
           "phase" \in DOMAIN c => c.phase \in {"running", "callback"}
    PROVE  /\ tx.phase = "running" /\ tx'.phase \in {"running", "callback"}
           /\ tx'.badDebt = tx.badDebt
           /\ tx'.stableToGive =
                 IF "stableToGive" \in DOMAIN c THEN c.stableToGive ELSE tx.stableToGive
           /\ tx'.stableToReceive =
                 IF "stableToReceive" \in DOMAIN c THEN c.stableToReceive ELSE tx.stableToReceive
<1>1. {"phase", "badDebt", "stableToGive", "stableToReceive"} \subseteq DOMAIN tx
  BY DEF TxInv, TxType
<1>2. tx' = [f \in DOMAIN tx |->
                 IF f = "actions" THEN tx.actions + 1
                 ELSE IF f \in DOMAIN c THEN c[f] ELSE tx[f]]
  BY DEF Proceed
<1> QED
  BY <1>1, <1>2, ProceedPhase DEF Proceed

\* The amounts that an action moves: income to surplus, to give, to receive, to others.
LEMMA NetOfAction ==
    ASSUME ConfigInv, LedgerInv, NEW accrued \in Nat, NEW income \in Int, NEW gives \in Int,
           NEW takes \in Int, NEW moved \in Int,
           Accrued(accrued, income), UNCHANGED <<badDebt, treasury, moneyVars>>,
           tx.phase # "liquidating", tx'.phase # "liquidating",
           tx'.badDebt = tx.badDebt,
           tx'.stableToGive = tx.stableToGive + gives,
           tx'.stableToReceive = tx.stableToReceive + takes,
           foreignDebt' = foreignDebt - moved
    PROVE  Net' = Net + accrued + (income + gives + moved - takes)
  BY MoneyTypes DEF Accrued, Net, Claims, Losses, Pending, moneyVars

LEMMA RepaymentIsPart ==
    ASSUME NEW n \in Nat, NEW amount \in Nat, NEW acc \in Nat \ {0}
    PROVE  Repayment(n, amount, acc).stable \in 0..amount
  BY DebtValueIsNat DEF Repayment

(***************************************************************************)
(* A debt repaid is paid for: what leaves the debts of the vaults is worth *)
(* what is paid, and at most a fraction more when the debt is wiped out.   *)
(***************************************************************************)
LEMMA RepaidIsBacked ==
    ASSUME ConfigInv, LedgerInv, ConfigInv', LedgerInv',
           NEW v \in VaultIDs, NEW amount \in Nat, NEW acc \in Nat \ {0},
           interestAccumulator' = acc,
           NEW accrued \in Nat,
           BASE_INTEREST * accrued
              <= totalNormalizedDebt * (interestAccumulator' - interestAccumulator),
           Debt(v)' = Debt(v) - Repayment(Debt(v), amount, acc).change,
           totalNormalizedDebt' = totalNormalizedDebt - Repayment(Debt(v), amount, acc).change,
           NEW value \in Nat, value >= Repayment(Debt(v), amount, acc).stable,
           Net' <= Net + accrued - value
    PROVE  StepIsBacked
<1> DEFINE n      == Debt(v)
           repaid == Repayment(Debt(v), amount, acc)
           change == repaid.change
           stable == repaid.stable
<1>1. n \in Nat
  BY TotalIsNat DEF LedgerInv
<1>2. change \in 0..n /\ stable \in Nat
  BY <1>1, RepaymentWithinDebt
<1>3. \/ change * acc <= stable * BASE_INTEREST
      \/ change = n /\ change * acc < stable * BASE_INTEREST + BASE_INTEREST
  BY <1>1, RepaymentPaysForItself
<1>4. Net \in Int /\ totalNormalizedDebt \in Nat
  BY UnbackedIsNet, MoneyTypes
<1>5. Debt(v)' = n - change /\ totalNormalizedDebt' = totalNormalizedDebt - change /\ value >= stable
  OBVIOUS
<1>6. Net' <= Net + accrued + (0 - value) /\ Net' \in Int
  BY <1>4, UnbackedIsNetAfter
<1> HIDE DEF n, change, stable
<1>7. PICK extra \in Nat : Allowed(extra) /\ change * acc <= stable * BASE_INTEREST + extra
  <2>1. CASE change * acc <= stable * BASE_INTEREST
    <3>1. change * acc <= stable * BASE_INTEREST + 0
      BY <2>1, <1>2, BasesAssumption
    <3> QED
      BY <3>1 DEF Allowed
  <2>2. CASE ~(change * acc <= stable * BASE_INTEREST)
    <3>1. change = n /\ change * acc < stable * BASE_INTEREST + BASE_INTEREST
      BY <1>3, <2>2
    <3>2. n # 0
      <4>1. ASSUME n = 0 PROVE FALSE
        <5>1. change * acc = 0 /\ stable * BASE_INTEREST \in Nat
          BY <1>2, <3>1, <4>1, BasesAssumption
        <5> QED
          BY <2>2, <5>1
      <4> QED
        BY <4>1
    <3>3. Debt(v) > 0 /\ Debt(v)' = 0
      BY <1>1, <1>5, <3>1, <3>2 DEF n
    <3>4. Allowed(BASE_INTEREST - 1)
      BY <3>3 DEF Allowed
    <3>5. change * acc <= stable * BASE_INTEREST + (BASE_INTEREST - 1)
      <4>1. change * acc \in Nat /\ stable * BASE_INTEREST \in Nat
        BY <1>1, <1>2, BasesAssumption
      <4> QED
        BY <3>1, <4>1, BasesAssumption
    <3> QED
      BY <3>4, <3>5, BasesAssumption
  <2> QED
    BY <2>1, <2>2
<1>8. BASE_INTEREST * (0 - value) <= (0 - change) * interestAccumulator' + extra
  <2>1. stable * BASE_INTEREST <= value * BASE_INTEREST
    BY <1>2, <1>5, BasesAssumption
  <2>2. BASE_INTEREST * (0 - value) = 0 - value * BASE_INTEREST
    BY BasesAssumption
  <2>3. (0 - change) * interestAccumulator' = 0 - change * acc
    BY <1>1, <1>2
  <2>4. /\ change * acc \in Nat /\ stable * BASE_INTEREST \in Nat
        /\ value * BASE_INTEREST \in Nat
    BY <1>1, <1>2, BasesAssumption
  <2> QED
    BY <1>7, <2>1, <2>2, <2>3, <2>4
<1>9. totalNormalizedDebt' = totalNormalizedDebt + (0 - change) /\ 0 - change \in Int
  BY <1>1, <1>2, <1>4, <1>5
<1> QED
  BY <1>6, <1>7, <1>8, <1>9, BackedStep

\* A debt increase issues at most what it adds to the debts.
LEMMA IssuedIsBacked ==
    ASSUME ConfigInv, LedgerInv, NEW amount \in Nat
    PROVE  BASE_INTEREST * Issued(amount) <= Normalized(amount, Acc) * Acc
<1>1. Normalized(amount, Acc) \in Nat /\ Acc \in Nat \ {0}
  BY IssuedIsNat, AccIsPositive DEF LedgerInv
<1> DEFINE owed == Normalized(amount, Acc) * Acc
<1>2. owed \in Nat
  BY <1>1
<1>3. Issued(amount) = owed \div BASE_INTEREST
  BY DEF Issued, DebtValue
<1> HIDE DEF owed
<1>4. (owed \div BASE_INTEREST) * BASE_INTEREST <= owed /\ owed \div BASE_INTEREST \in Nat
  BY <1>2, BasesAssumption, DivisionTruncates, DivisionIsNat
<1>5. Issued(amount) * BASE_INTEREST = BASE_INTEREST * Issued(amount)
  BY <1>3, <1>4, BasesAssumption
<1> QED
  BY <1>3, <1>4, <1>5 DEF owed

LEMMA RemoveCollateralIsBacked ==
    ASSUME ConfigInv, LedgerInv, FreshInv, ConfigInv', LedgerInv',
           NEW v, NEW amount, RemoveCollateral(v, amount)
    PROVE  StepIsBacked
<1> USE DEF LedgerInv, RemoveCollateral
<1>1. PICK accrued \in Nat : Accrued(accrued, 0)
  BY AccrualOnceIsBacked
<1>2. /\ tx.phase = "running" /\ tx'.phase \in {"running", "callback"}
      /\ tx'.badDebt = tx.badDebt /\ tx'.stableToGive = tx.stableToGive
      /\ tx'.stableToReceive = tx.stableToReceive
  BY ProceedMoney
<1>3. /\ tx'.stableToGive = tx.stableToGive + 0 /\ tx'.stableToReceive = tx.stableToReceive + 0
      /\ foreignDebt' = foreignDebt - 0
  BY <1>2, MoneyTypes
<1>4. Net' = Net + accrued + (0 + 0 + 0 - 0)
  BY <1>1, <1>2, <1>3, NetOfAction
<1>5. /\ totalNormalizedDebt' = totalNormalizedDebt + 0 /\ Net' <= Net + accrued + 0
      /\ BASE_INTEREST * 0 <= 0 * interestAccumulator' + 0
  BY <1>4, MoneyTypes, UnbackedIsNet, BasesAssumption DEF InterestInv
<1> QED
  BY <1>1, <1>5, BackedStep DEF Allowed, Accrued

\* The debt increases that issue stablecoins: here or to repay another VaultManager.
LEMMA DebtIncreaseIsBacked ==
    ASSUME ConfigInv, LedgerInv, FreshInv, ConfigInv', LedgerInv', NEW amount \in Nat,
           NEW accrued \in Nat, NEW income, Accrued(accrued, income),
           interestAccumulator' = Acc,
           totalNormalizedDebt' = totalNormalizedDebt + Normalized(amount, Acc),
           Net' <= Net + accrued + Issued(amount)
    PROVE  StepIsBacked
<1>1. Normalized(amount, Acc) \in Nat /\ Issued(amount) \in Nat /\ Acc \in Nat \ {0}
  BY IssuedIsNat, AccIsPositive DEF LedgerInv
<1>2. BASE_INTEREST * Issued(amount) <= Normalized(amount, Acc) * interestAccumulator' + 0
  <2>1. Normalized(amount, Acc) * interestAccumulator' \in Nat
    BY <1>1
  <2> QED
    BY <2>1, IssuedIsBacked
<1> QED
  BY <1>1, <1>2, BackedStep DEF Allowed, Accrued

LEMMA BorrowIsBacked ==
    ASSUME ConfigInv, LedgerInv, FreshInv, ConfigInv', LedgerInv',
           NEW v, NEW amount \in Nat, Borrow(v, amount)
    PROVE  StepIsBacked
<1> DEFINE fee == (params.borrowFee * Issued(amount)) \div BASE_PARAMS
<1> USE DEF LedgerInv, Borrow
<1>1. Normalized(amount, Acc) \in Nat /\ Issued(amount) \in Nat /\ Acc \in Nat \ {0}
  BY IssuedIsNat, AccIsPositive
<1>2. fee \in Int
  <2>1. params.borrowFee * Issued(amount) \in Nat
    BY <1>1, ProductIsNat DEF ConfigInv, ParamsType
  <2> QED
    BY <2>1, BasesAssumption, DivisionIsNat
<1>3. /\ tx.phase = "running" /\ tx'.phase \in {"running", "callback"}
      /\ tx'.badDebt = tx.badDebt
      /\ tx'.stableToGive = tx.stableToGive + Issued(amount) - fee
      /\ tx'.stableToReceive = tx.stableToReceive
  BY ProceedMoney
<1>4. AccrueOnce(fee)
  OBVIOUS
<1> HIDE DEF fee
<1>5. PICK accrued \in Nat : Accrued(accrued, fee) /\ interestAccumulator' = Acc
  BY <1>2, <1>4, AccrualOnceIsBacked
<1>6. /\ tx'.stableToGive = tx.stableToGive + (Issued(amount) - fee)
      /\ tx'.stableToReceive = tx.stableToReceive + 0
      /\ foreignDebt' = foreignDebt - 0
  BY <1>1, <1>2, <1>3, MoneyTypes
<1>7. Net' = Net + accrued + (fee + (Issued(amount) - fee) + 0 - 0)
  <2>1. Issued(amount) - fee \in Int
    BY <1>1, <1>2
  <2> QED
    BY <1>2, <1>3, <1>5, <1>6, <2>1, NetOfAction
<1>8. Net' <= Net + accrued + Issued(amount)
  BY <1>1, <1>2, <1>7, UnbackedIsNet
<1> QED
  BY <1>5, <1>8, DebtIncreaseIsBacked

LEMMA GetDebtInRemoteIsBacked ==
    ASSUME ConfigInv, LedgerInv, FreshInv, ConfigInv', LedgerInv',
           NEW src, NEW amount \in Nat, NEW fake \in BOOLEAN, GetDebtInRemote(src, amount, fake)
    PROVE  StepIsBacked
<1> DEFINE moved == IF fake THEN 0 ELSE Issued(amount)
<1> USE DEF LedgerInv, GetDebtInRemote
<1>1. Normalized(amount, Acc) \in Nat /\ Issued(amount) \in Nat /\ Acc \in Nat \ {0}
  BY IssuedIsNat, AccIsPositive
<1>2. /\ tx.phase = "running" /\ tx'.phase \in {"running", "callback"}
      /\ tx'.badDebt = tx.badDebt /\ tx'.stableToGive = tx.stableToGive
      /\ tx'.stableToReceive = tx.stableToReceive
  BY ProceedMoney
<1>3. PICK accrued \in Nat : Accrued(accrued, 0) /\ interestAccumulator' = Acc
  BY AccrualOnceIsBacked
<1>4. /\ tx'.stableToGive = tx.stableToGive + 0 /\ tx'.stableToReceive = tx.stableToReceive + 0
      /\ foreignDebt' = foreignDebt - moved /\ moved \in 0..Issued(amount)
  BY <1>1, <1>2, MoneyTypes
<1> HIDE DEF moved
<1>5. Net' = Net + accrued + (0 + 0 + moved - 0)
  BY <1>2, <1>3, <1>4, NetOfAction
<1>6. Net' <= Net + accrued + Issued(amount)
  BY <1>1, <1>4, <1>5, UnbackedIsNet
<1> QED
  BY <1>3, <1>6, DebtIncreaseIsBacked

LEMMA RepayDebtIsBacked ==
    ASSUME ConfigInv, LedgerInv, FreshInv, ConfigInv', LedgerInv',
           NEW v \in VaultIDs, NEW amount \in Nat, RepayDebt(v, amount)
    PROVE  StepIsBacked
<1> DEFINE repaid  == Repayment(Debt(v), amount, Acc)
           stable  == repaid.stable
           withFee == PlusRepayFee(stable, params)
<1> USE DEF LedgerInv, RepayDebt
<1>1. Debt(v) \in Nat /\ Acc \in Nat \ {0}
  BY TotalIsNat, AccIsPositive
<1>2. stable \in Nat /\ repaid.change \in 0..Debt(v)
  BY <1>1, RepaymentWithinDebt
<1>3. withFee \in Nat
  BY <1>2, RepayFeeIsNat DEF ConfigInv, ParamsType
<1>4. /\ tx.phase = "running" /\ tx'.phase \in {"running", "callback"}
      /\ tx'.badDebt = tx.badDebt /\ tx'.stableToGive = tx.stableToGive
      /\ tx'.stableToReceive = tx.stableToReceive + withFee
  BY ProceedMoney
<1>5. AccrueOnce(withFee - stable)
  OBVIOUS
<1>6. Debt(v)' = Debt(v) - repaid.change
  BY DEF Debt, DebtsInv, VaultType
<1>7. totalNormalizedDebt' = totalNormalizedDebt - repaid.change
  OBVIOUS
<1> HIDE DEF withFee
<1>8. PICK accrued \in Nat : Accrued(accrued, withFee - stable) /\ interestAccumulator' = Acc
  BY <1>2, <1>3, <1>5, AccrualOnceIsBacked
<1>9. tx'.stableToGive = tx.stableToGive + 0 /\ foreignDebt' = foreignDebt - 0
  BY <1>4, MoneyTypes
<1>10. Net' = Net + accrued + ((withFee - stable) + 0 + 0 - withFee)
  <2>1. withFee - stable \in Int
    BY <1>2, <1>3
  <2> QED
    BY <1>3, <1>4, <1>8, <1>9, <2>1, NetOfAction
<1>11. Net' <= Net + accrued - stable
  BY <1>2, <1>3, <1>10, UnbackedIsNet
<1> QED
  BY <1>1, <1>2, <1>6, <1>7, <1>8, <1>11, RepaidIsBacked DEF Accrued

\* Closing a vault repays its whole debt.
LEMMA WholeRepayment ==
    ASSUME NEW n \in Nat, NEW acc \in Nat \ {0}, NEW amount \in Nat, amount >= DebtValue(n, acc)
    PROVE  Repayment(n, amount, acc) = [stable |-> DebtValue(n, acc), change |-> n]
  BY DEF Repayment

LEMMA CloseVaultIsBacked ==
    ASSUME ConfigInv, LedgerInv, FreshInv, ConfigInv', LedgerInv', NEW v, CloseVault(v)
    PROVE  StepIsBacked
<1> DEFINE debt    == DebtValue(Debt(v), Acc)
           withFee == PlusRepayFee(debt, params)
           repaid  == Repayment(Debt(v), debt, Acc)
<1> USE DEF LedgerInv, CloseVault
<1>0. v \in VaultIDs
  BY DEF IsApprovedOrOwner, Exists
<1>1. Debt(v) \in Nat /\ Acc \in Nat \ {0}
  BY <1>0, TotalIsNat, AccIsPositive
<1>2. debt \in Nat
  BY <1>1, DebtValueIsNat
<1>3. withFee \in Nat
  BY <1>2, RepayFeeIsNat DEF ConfigInv, ParamsType
<1>4. /\ tx.phase = "running" /\ tx'.phase \in {"running", "callback"}
      /\ tx'.badDebt = tx.badDebt /\ tx'.stableToGive = tx.stableToGive
      /\ tx'.stableToReceive = tx.stableToReceive + withFee
  BY ProceedMoney
<1>5. AccrueOnce(withFee - debt)
  OBVIOUS
<1>6. repaid.stable = debt /\ repaid.change = Debt(v)
  <2> HIDE DEF debt
  <2> QED
    BY <1>1, <1>2, WholeRepayment DEF debt
<1>7. Debt(v)' = Debt(v) - repaid.change
  BY <1>0, <1>1, <1>6 DEF Debt, DebtsInv, NoVault
<1>8. totalNormalizedDebt' = totalNormalizedDebt - repaid.change
  BY <1>6
<1> HIDE DEF withFee, debt
<1>9. PICK accrued \in Nat : Accrued(accrued, withFee - debt) /\ interestAccumulator' = Acc
  BY <1>2, <1>3, <1>5, AccrualOnceIsBacked
<1>10. tx'.stableToGive = tx.stableToGive + 0 /\ foreignDebt' = foreignDebt - 0
  BY <1>4, MoneyTypes
<1>11. Net' = Net + accrued + ((withFee - debt) + 0 + 0 - withFee)
  <2>1. withFee - debt \in Int
    BY <1>2, <1>3
  <2> QED
    BY <1>3, <1>4, <1>9, <1>10, <2>1, NetOfAction
<1>12. Net' <= Net + accrued - debt
  BY <1>2, <1>3, <1>11, UnbackedIsNet
<1> QED
  BY <1>0, <1>1, <1>2, <1>6, <1>7, <1>8, <1>9, <1>12, RepaidIsBacked DEF Accrued

(***************************************************************************)
(* A debt moved inside the contract: what the source's grows by, rounded   *)
(* down, is at most what the destination's loses, or all it had.           *)
(***************************************************************************)
LEMMA GetDebtInLocalIsBacked ==
    ASSUME ConfigInv, LedgerInv, FreshInv, ConfigInv', LedgerInv',
           NEW src, NEW dst \in VaultIDs, NEW amount \in Nat, GetDebtInLocal(src, dst, amount)
    PROVE  StepIsBacked
<1> DEFINE n        == Normalized(amount, Acc)
           indebted == [vaultData EXCEPT ![src].normalizedDebt = @ + n]
           m        == indebted[dst].normalizedDebt
           repaid   == Repayment(m, Issued(amount), Acc)
           change   == repaid.change
           stable   == repaid.stable
<1> USE DEF LedgerInv, GetDebtInLocal
<1>1. src \in VaultIDs
  BY DEF CanIncreaseDebt, IsApprovedOrOwner, Exists
<1>2. n \in Nat /\ Issued(amount) \in Nat /\ Acc \in Nat \ {0}
  BY IssuedIsNat, AccIsPositive
<1>3. Debt(dst) \in Nat /\ m = Debt(dst) + (IF src = dst THEN n ELSE 0)
  BY <1>1, <1>2, TotalIsNat DEF Debt, DebtsInv, VaultType
<1>4. Debt(dst)' = m - change /\ totalNormalizedDebt' = totalNormalizedDebt + n - change
  BY <1>1, <1>2 DEF Debt, DebtsInv, VaultType
<1>5. /\ tx.phase = "running" /\ tx'.phase \in {"running", "callback"}
      /\ tx'.badDebt = tx.badDebt /\ tx'.stableToGive = tx.stableToGive
      /\ tx'.stableToReceive = tx.stableToReceive
  BY ProceedMoney
<1>6. PICK accrued \in Nat : Accrued(accrued, 0) /\ interestAccumulator' = Acc
  BY AccrualOnceIsBacked
<1>7. /\ tx'.stableToGive = tx.stableToGive + 0 /\ tx'.stableToReceive = tx.stableToReceive + 0
      /\ foreignDebt' = foreignDebt - 0
  BY <1>5, MoneyTypes
<1>8. Net' = Net + accrued + (0 + 0 + 0 - 0)
  BY <1>5, <1>6, <1>7, NetOfAction
<1>9. BASE_INTEREST * Issued(amount) <= n * Acc
  BY IssuedIsBacked
<1> HIDE DEF indebted, n, m
<1>10. m \in Nat
  BY <1>2, <1>3
<1>11. /\ change \in 0..m /\ stable \in 0..Issued(amount)
       /\ \/ change * Acc <= stable * BASE_INTEREST
          \/ change = m /\ change * Acc < stable * BASE_INTEREST + BASE_INTEREST
  BY <1>2, <1>10, RepaymentWithinDebt, RepaymentPaysForItself, RepaymentIsPart
<1> HIDE DEF repaid
<1>12. stable * BASE_INTEREST <= n * Acc
  <2>1. stable * BASE_INTEREST <= Issued(amount) * BASE_INTEREST
    BY <1>2, <1>11, BasesAssumption
  <2>2. /\ stable * BASE_INTEREST \in Nat /\ Issued(amount) * BASE_INTEREST \in Nat
        /\ Issued(amount) * BASE_INTEREST = BASE_INTEREST * Issued(amount)
        /\ n * Acc \in Nat
    BY <1>2, <1>11, BasesAssumption
  <2> QED
    BY <1>9, <2>1, <2>2
<1>13. PICK extra \in Nat : Allowed(extra) /\ change * Acc <= n * Acc + extra
  <2>1. /\ change * Acc \in Nat /\ n * Acc \in Nat /\ stable * BASE_INTEREST \in Nat
    BY <1>2, <1>10, <1>11, BasesAssumption
  <2>2. CASE change * Acc <= n * Acc
    <3>1. change * Acc <= n * Acc + 0
      BY <2>1, <2>2
    <3> QED
      BY <3>1 DEF Allowed
  <2>3. CASE ~(change * Acc <= n * Acc)
    <3>1. change = m /\ change * Acc < n * Acc + BASE_INTEREST
      BY <1>11, <1>12, <2>1, <2>3, BasesAssumption
    <3>2. Debt(dst) # 0
      <4>1. ASSUME Debt(dst) = 0 PROVE FALSE
        <5>1. change <= n
          BY <1>2, <1>3, <3>1, <4>1
        <5>2. change * Acc <= n * Acc
          BY <1>2, <1>10, <1>11, <5>1
        <5> QED
          BY <2>3, <5>2
      <4> QED
        BY <4>1
    <3>3. Debt(dst) > 0 /\ Debt(dst)' = 0
      BY <1>3, <1>4, <1>10, <3>1, <3>2
    <3>4. Allowed(BASE_INTEREST - 1)
      BY <3>3 DEF Allowed
    <3>5. change * Acc <= n * Acc + (BASE_INTEREST - 1)
      BY <2>1, <3>1, BasesAssumption
    <3> QED
      BY <3>4, <3>5, BasesAssumption
  <2> QED
    BY <2>2, <2>3
<1>14. BASE_INTEREST * 0 <= (n - change) * interestAccumulator' + extra
  <2>1. (n - change) * interestAccumulator' = n * Acc - change * Acc
    BY <1>2, <1>6, <1>10, <1>11
  <2>2. n * Acc \in Nat /\ change * Acc \in Nat
    BY <1>2, <1>10, <1>11
  <2> QED
    BY <1>13, <2>1, <2>2, BasesAssumption
<1>15. /\ totalNormalizedDebt' = totalNormalizedDebt + (n - change) /\ n - change \in Int
       /\ Net' <= Net + accrued + 0
  BY <1>2, <1>4, <1>8, <1>10, <1>11, MoneyTypes, UnbackedIsNet
<1> QED
  BY <1>6, <1>13, <1>14, <1>15, BackedStep DEF Accrued

LEMMA AngleStepIsBacked ==
    ASSUME ConfigInv, LedgerInv, FreshInv, ConfigInv', LedgerInv', AngleStep
    PROVE  StepIsBacked
<1>1. StableAmounts \subseteq Nat
  BY ConfigAssumption
<1>2. ASSUME NEW to, CreateVaultInCall(to) PROVE StepIsBacked
  <2>1. /\ tx.phase = "running" /\ tx'.phase \in {"running", "callback"}
        /\ tx'.badDebt = tx.badDebt /\ tx'.stableToGive = tx.stableToGive
        /\ tx'.stableToReceive = tx.stableToReceive
    BY <1>2, ProceedMoney DEF CreateVaultInCall, LedgerInv
  <2> QED
    BY <1>2, <2>1, UntouchedIsBacked DEF CreateVaultInCall
<1>3. ASSUME NEW v, NEW amount, AddCollateral(v, amount) PROVE StepIsBacked
  <2>1. /\ tx.phase = "running" /\ tx'.phase \in {"running", "callback"}
        /\ tx'.badDebt = tx.badDebt /\ tx'.stableToGive = tx.stableToGive
        /\ tx'.stableToReceive = tx.stableToReceive
    BY <1>3, ProceedMoney DEF AddCollateral, LedgerInv
  <2>2. Net' = Net
    BY <1>3, <2>1 DEF AddCollateral, Net, Claims, Losses, Pending, moneyVars
  <2> QED
    BY <1>3, <2>2, NeutralStep DEF AddCollateral, accrualVars
<1> QED
  BY <1>1, <1>2, <1>3, RemoveCollateralIsBacked, RepayDebtIsBacked, BorrowIsBacked,
     CloseVaultIsBacked, GetDebtInLocalIsBacked, GetDebtInRemoteIsBacked DEF AngleStep

-----------------------------------------------------------------------------
\* Backing: liquidations, settlement and the rest

(***************************************************************************)
(* The surcharge on what a liquidator has paid in all grows with each      *)
(* payment by at most what the payment does not take off the debt.         *)
(***************************************************************************)
LEMMA SurchargeGrows ==
    ASSUME ConfigInv, NEW a \in Nat, NEW b \in Nat
    PROVE  Surcharge(a + b) + Reimbursed(b) <= Surcharge(a) + b
<1> DEFINE LS == params.liquidationSurcharge
           k  == BASE_PARAMS - LS
           x  == ((a + b) * k) \div BASE_PARAMS
           y  == (a * k) \div BASE_PARAMS
           z  == (b * LS) \div BASE_PARAMS
<1>1. LS \in Nat /\ k \in Nat /\ LS + k = BASE_PARAMS
  BY BasesAssumption DEF ConfigInv, ParamsType, ParamsConsistent
<1>2. Surcharge(a + b) = x /\ Surcharge(a) = y /\ Reimbursed(b) = z
  BY DEF Surcharge, Reimbursed
<1> HIDE DEF LS, k
<1>3. /\ x \in Nat /\ x * BASE_PARAMS <= (a + b) * k
      /\ y \in Nat /\ a * k < y * BASE_PARAMS + BASE_PARAMS
      /\ z \in Nat /\ z * BASE_PARAMS <= b * LS
  BY <1>1, BasesAssumption, ProductIsNat, DivisionIsNat, DivisionTruncates
<1> HIDE DEF x, y, z
<1>4. (a + b) * k + b * LS = a * k + b * BASE_PARAMS
  <2>1. b * BASE_PARAMS = b * (LS + k)
    BY <1>1
  <2> QED
    BY <1>1, <2>1
<1>5. (x + z) * BASE_PARAMS < (y + b + 1) * BASE_PARAMS
  <2>1. /\ (x + z) * BASE_PARAMS = x * BASE_PARAMS + z * BASE_PARAMS
        /\ (y + b + 1) * BASE_PARAMS = y * BASE_PARAMS + b * BASE_PARAMS + BASE_PARAMS
    BY <1>3, BasesAssumption
  <2>2. /\ x * BASE_PARAMS \in Nat /\ y * BASE_PARAMS \in Nat /\ z * BASE_PARAMS \in Nat
        /\ b * BASE_PARAMS \in Nat /\ (a + b) * k \in Nat /\ b * LS \in Nat /\ a * k \in Nat
    BY <1>1, <1>3, BasesAssumption
  <2> QED
    BY <1>3, <1>4, <2>1, <2>2, BasesAssumption
<1>6. x + z < y + b + 1
  <2>1. x + z \in Nat /\ y + b + 1 \in Nat
    BY <1>3
  <2> QED
    BY <1>5, <2>1, BasesAssumption, CancelFactor
<1> QED
  BY <1>2, <1>3, <1>6

\* What a liquidator pays, less the surcharge and the loss, is all that leaves Net.
LEMMA NetOfLiquidation ==
    ASSUME ConfigInv, LedgerInv, ConfigInv', tx.phase = "liquidating", NEW collateral,
           NEW paid \in Nat, NEW loss \in Nat, tx' = LiquidatorData(collateral, paid, loss),
           UNCHANGED <<surplus, badDebt, govVars, treasury, moneyVars, foreignDebt>>
    PROVE  Net' <= Net - (Reimbursed(paid) + loss)
<1>1. /\ tx'.phase = "liquidating" /\ tx'.stableToGive = tx.stableToGive
      /\ tx'.stableToReceive = tx.stableToReceive + paid
      /\ tx'.badDebt = tx.badDebt + loss
  BY DEF LiquidatorData, LedgerInv, TxInv, TxType
<1>2. Pending' = Surcharge(tx.stableToReceive + paid) /\ Pending = Surcharge(tx.stableToReceive)
  BY <1>1 DEF Pending, Surcharge, govVars
<1>3. tx.stableToReceive \in Nat /\ tx.stableToReceive + paid \in Nat
  BY MoneyTypes
<1>4. /\ Surcharge(tx.stableToReceive + paid) \in Nat /\ Surcharge(tx.stableToReceive) \in Nat
      /\ Reimbursed(paid) \in Nat
  BY <1>3, SurchargeIsNat, ReimbursedIsNat
<1>5. Pending' + Reimbursed(paid) <= Pending + paid
  BY <1>2, <1>3, SurchargeGrows
<1>6. Claims' = Claims - paid /\ Losses' = Losses + loss /\ Claims \in Int /\ Losses \in Int
  BY <1>1, MoneyTypes DEF Claims, Losses, moneyVars
<1> QED
  BY <1>2, <1>4, <1>5, <1>6 DEF Net

LEMMA LiquidateVaultIsBacked ==
    ASSUME ConfigInv, LedgerInv, FreshInv, ConfigInv', LedgerInv',
           NEW v \in VaultIDs, NEW amount \in Nat, LiquidateVault(v, amount)
    PROVE  StepIsBacked
<1> DEFINE offer == LiquidationOffer(vaultData[v], oracleValue, tx.acc, params)
           paid  == LiquidationPayment(amount, offer)
           released == CollateralReleased(paid, vaultData[v], oracleValue, tx.acc, params)
           debt  == DebtValue(Debt(v), tx.acc)
<1>1. /\ tx.phase = "liquidating"
      /\ UNCHANGED <<accrualVars, surplus, badDebt, govVars, treasury, moneyVars, foreignDebt>>
      /\ IF vaultData[v].collateralAmount <= released
         THEN SeizeVault(v, paid) ELSE SellCollateral(v, paid, released)
  BY DEF LiquidateVault
<1>2. paid \in Nat /\ released \in Nat
  BY LiquidationAmounts DEF LiquidateVault, LedgerInv
<1> HIDE DEF paid, released
<1>3. Reimbursed(paid) \in Nat
  BY <1>2, ReimbursedIsNat
<1>4. tx.acc \in Nat \ {0} /\ interestAccumulator' = tx.acc /\ interestAccumulator = tx.acc
  BY <1>1 DEF LedgerInv, TxInv, TxType, FreshInv, CachedAccumulatorIsFresh, accrualVars
<1>5. Debt(v) \in Nat /\ debt \in Nat
  <2>1. Debt(v) \in Nat
    BY TotalIsNat DEF LedgerInv
  <2> QED
    BY <1>4, <2>1, DebtValueIsNat
<1>6. BASE_INTEREST * 0 <= totalNormalizedDebt * (interestAccumulator' - interestAccumulator)
  <2>1. interestAccumulator' - interestAccumulator = 0 /\ totalNormalizedDebt \in Nat
    BY <1>4, MoneyTypes
  <2> QED
    BY <2>1, BasesAssumption
<1>7. Net \in Int /\ Net' \in Int
  BY UnbackedIsNet, UnbackedIsNetAfter
<1>8. CASE SeizeVault(v, paid)
  <2> DEFINE loss   == Excess(debt, Reimbursed(paid))
             repaid == Repayment(Debt(v), debt, tx.acc)
  <2>1. loss \in Nat /\ Reimbursed(paid) + loss >= debt
    BY <1>3, <1>5 DEF Excess
  <2>2. tx' = LiquidatorData(vaultData[v].collateralAmount, paid, loss)
    BY <1>8 DEF SeizeVault, LiquidatorData
  <2>3. repaid.stable = debt /\ repaid.change = Debt(v)
    <3> HIDE DEF debt
    <3> QED
      BY <1>4, <1>5, WholeRepayment DEF debt
  <2>4. Debt(v)' = Debt(v) - repaid.change
    BY <1>5, <1>8, <2>3 DEF SeizeVault, Debt, LedgerInv, DebtsInv, NoVault
  <2>5. totalNormalizedDebt' = totalNormalizedDebt - repaid.change
    BY <1>8, <2>3 DEF SeizeVault
  <2> HIDE DEF loss, debt
  <2>6. Net' <= Net - (Reimbursed(paid) + loss)
    BY <1>1, <1>2, <2>1, <2>2, NetOfLiquidation
  <2>7. Net' <= Net + 0 - debt
    BY <1>3, <1>5, <1>7, <2>1, <2>6
  <2> QED
    BY <1>4, <1>5, <1>6, <2>3, <2>4, <2>5, <2>7, RepaidIsBacked
<1>9. CASE SellCollateral(v, paid, released)
  <2> DEFINE repaid == Repayment(Debt(v), Reimbursed(paid), tx.acc)
  <2>1. tx' = LiquidatorData(released, paid, 0)
    <3>1. tx.badDebt + 0 = tx.badDebt
      BY MoneyTypes
    <3> QED
      BY <1>9, <3>1 DEF SellCollateral, LiquidatorData, LedgerInv, TxInv, TxType
  <2>2. Debt(v)' = Debt(v) - repaid.change
    BY <1>9 DEF SellCollateral, Debt, LedgerInv, DebtsInv, VaultType
  <2>3. totalNormalizedDebt' = totalNormalizedDebt - repaid.change
    BY <1>9 DEF SellCollateral
  <2>4. repaid.stable \in 0..Reimbursed(paid)
    BY <1>3, <1>4, <1>5, RepaymentIsPart
  <2>5. Net' <= Net - (Reimbursed(paid) + 0)
    BY <1>1, <1>2, <2>1, NetOfLiquidation
  <2>6. Net' <= Net + 0 - Reimbursed(paid)
    BY <1>3, <1>7, <2>5
  <2> QED
    BY <1>3, <1>4, <1>6, <2>2, <2>3, <2>4, <2>6, RepaidIsBacked
<1> QED
  BY <1>1, <1>8, <1>9

\* What a call gives and receives is netted, what it loses is recorded.
LEMMA SettlementIsBacked ==
    ASSUME ConfigInv, LedgerInv, SettledInv, ConfigInv', LedgerInv', NEW swap \in BOOLEAN,
           EndAngle(swap) \/ EndLiquidation(swap)
    PROVE  StepIsBacked
<1>1. PayOut(swap) /\ UNCHANGED <<debtVars, accrualVars, treasury, foreignDebt>>
  BY DEF EndAngle, EndLiquidation
<1>2. /\ tx'.phase # "liquidating" /\ tx'.stableToGive = 0 /\ tx'.badDebt = 0
      /\ tx'.stableToReceive = StableIn
      /\ circulating' = circulating + StableOut
  BY <1>1 DEF PayOut, LedgerInv, TxInv, TxType
<1>3. /\ StableOut \in Nat /\ StableIn \in Nat
      /\ StableOut - StableIn = tx.stableToGive - tx.stableToReceive
  BY MoneyTypes DEF StableOut, StableIn, Excess
<1>4. CASE EndAngle(swap)
  <2>1. tx.phase # "liquidating" /\ tx.badDebt = 0 /\ UNCHANGED <<surplus, badDebt>>
    BY <1>4 DEF EndAngle, SettledInv
  <2>2. Net' = Net
    BY <1>1, <1>2, <1>3, <2>1, MoneyTypes DEF Net, Claims, Losses, Pending
  <2> QED
    BY <1>1, <2>2, NeutralStep DEF debtVars, accrualVars
<1>5. CASE EndLiquidation(swap)
  <2>1. /\ tx.phase = "liquidating" /\ surplus' = surplus + Pending
        /\ badDebt' = badDebt + tx.badDebt
    BY <1>5 DEF EndLiquidation, Pending, Surcharge
  <2>2. Pending' = 0
    BY <1>2 DEF Pending
  <2>3. Net' = Net
    BY <1>1, <1>2, <1>3, <2>1, <2>2, MoneyTypes DEF Net, Claims, Losses
  <2> QED
    BY <1>1, <2>3, NeutralStep DEF debtVars, accrualVars
<1> QED
  BY <1>4, <1>5

LEMMA CollectIsBacked ==
    ASSUME ConfigInv, LedgerInv, SettledInv, ConfigInv', LedgerInv', Collect
    PROVE  StepIsBacked
<1>1. /\ tx.phase # "liquidating" /\ tx.stableToGive = 0 /\ tx.badDebt = 0
      /\ tx' = NoTx /\ circulating' = circulating - tx.stableToReceive
      /\ UNCHANGED <<debtVars, accrualVars, surplus, badDebt, treasury, foreignDebt>>
  BY DEF Collect, SettledInv
<1>2. Net' = Net
  BY <1>1, MoneyTypes DEF Net, Claims, Losses, Pending, NoTx
<1> QED
  BY <1>1, <1>2, NeutralStep DEF debtVars, accrualVars

\* A call starts with nothing; liquidate() accrues first.
LEMMA BeginIsBacked ==
    ASSUME ConfigInv, LedgerInv, ConfigInv', LedgerInv', NEW sender, NEW to,
           BeginAngle(sender) \/ BeginLiquidation(sender, to)
    PROVE  StepIsBacked
<1>1. /\ tx = NoTx
      /\ tx'.stableToGive = 0 /\ tx'.stableToReceive = 0 /\ tx'.badDebt = 0
  BY DEF BeginAngle, BeginLiquidation, Begin, NoTx, LedgerInv, SavedInv
<1>2. Pending = 0 /\ Pending' = 0
  <2>1. Surcharge(0)' = 0
    <3>1. Surcharge(0)' = (0 * (BASE_PARAMS - params'.liquidationSurcharge)) \div BASE_PARAMS
      BY DEF Surcharge
    <3>2. params'.liquidationSurcharge \in Nat
      BY DEF ConfigInv, ParamsType
    <3>3. 0 * (BASE_PARAMS - params'.liquidationSurcharge) = 0 /\ 0 \div BASE_PARAMS = 0
      BY <3>2, BasesAssumption
    <3> QED
      BY <3>1, <3>3
  <2> QED
    BY <1>1, <2>1 DEF Pending, NoTx, Surcharge
<1>3. CASE BeginAngle(sender)
  <2>1. Net' = Net
    BY <1>1, <1>2, <1>3 DEF BeginAngle, Net, Claims, Losses, NoTx, moneyVars
  <2> QED
    BY <1>3, <2>1, NeutralStep DEF BeginAngle, debtVars, accrualVars
<1>4. CASE BeginLiquidation(sender, to)
  <2>1. Accrued(InterestAccrued, 0)
    BY <1>4, AccrualIsBacked DEF BeginLiquidation
  <2>2. Net' = Net + InterestAccrued
    BY <1>1, <1>2, <1>4, <2>1, MoneyTypes
       DEF BeginLiquidation, Accrued, Net, Claims, Losses, NoTx, moneyVars
  <2> QED
    BY <1>4, <2>1, <2>2, AccruingStep DEF BeginLiquidation, debtVars, Accrued
<1> QED
  BY <1>3, <1>4

LEMMA GetDebtOutIsBacked ==
    ASSUME ConfigInv, LedgerInv, ConfigInv', LedgerInv', NEW v \in VaultIDs, NEW amount \in Nat,
           NEW fees \in (0..BASE_PARAMS) \X (0..BASE_PARAMS), GetDebtOut(v, amount, fees)
    PROVE  StepIsBacked
<1> DEFINE lessFee == LessFees(amount, fees)
           repaid  == Repayment(Debt(v), lessFee, NewAccumulator)
<1> USE DEF LedgerInv, GetDebtOut
<1>1. lessFee \in 0..amount
  BY LessFeesIsPart
<1>2. AccrueAndEarn(amount - lessFee) /\ foreignDebt' = foreignDebt + amount
  OBVIOUS
<1>3. Debt(v)' = Debt(v) - repaid.change
  BY DEF Debt, DebtsInv, VaultType
<1>4. totalNormalizedDebt' = totalNormalizedDebt - repaid.change
  OBVIOUS
<1>5. /\ UNCHANGED <<badDebt, treasury, moneyVars, tx>> /\ tx.phase # "liquidating"
  BY DEF Outside
<1> HIDE DEF lessFee
<1>6. Accrued(InterestAccrued, amount - lessFee)
  BY <1>1, <1>2, AccrualIsBacked
<1>7. interestAccumulator' = NewAccumulator /\ NewAccumulator \in Nat \ {0}
  BY <1>2, NewAccumulatorGrows DEF AccrueAndEarn
<1>8. Net' = Net + InterestAccrued - lessFee
  BY <1>1, <1>2, <1>5, <1>6, MoneyTypes DEF Accrued, Net, Claims, Losses, Pending, moneyVars
<1>9. Debt(v) \in Nat /\ lessFee \in Nat /\ repaid.stable \in 0..lessFee
  BY <1>1, <1>7, TotalIsNat, RepaymentIsPart
<1>10. Net' <= Net + InterestAccrued - lessFee /\ InterestAccrued \in Nat
  BY <1>6, <1>8, <1>9, UnbackedIsNet DEF Accrued
<1>11. BASE_INTEREST * InterestAccrued
         <= totalNormalizedDebt * (interestAccumulator' - interestAccumulator)
  BY <1>6 DEF Accrued
<1> QED
  BY <1>3, <1>4, <1>7, <1>9, <1>10, <1>11, RepaidIsBacked

LEMMA AccrueInterestToTreasuryIsBacked ==
    ASSUME ConfigInv, LedgerInv, ConfigInv', LedgerInv', AccrueInterestToTreasury
    PROVE  StepIsBacked
<1> DEFINE earned == surplus + InterestAccrued
           interest == totalNormalizedDebt * (NewAccumulator - interestAccumulator)
<1> USE DEF AccrueInterestToTreasury
<1>1. InterestAccrued \in Nat /\ BASE_INTEREST * InterestAccrued <= interest
  <2>1. NewAccumulator - interestAccumulator \in Nat
    BY NewAccumulatorGrows DEF LedgerInv, InterestInv
  <2>2. interest \in Nat
    BY <2>1, MoneyTypes, ProductIsNat
  <2>3. InterestAccrued = interest \div BASE_INTEREST
    BY DEF InterestAccrued
  <2> HIDE DEF interest
  <2>4. (interest \div BASE_INTEREST) * BASE_INTEREST <= interest
        /\ interest \div BASE_INTEREST \in Nat
    BY <2>2, BasesAssumption, DivisionTruncates, DivisionIsNat
  <2> QED
    BY <2>3, <2>4, BasesAssumption
<1>2. interestAccumulator' = NewAccumulator
  OBVIOUS
<1>3. /\ surplus' = 0 /\ badDebt' = 0
      /\ treasury'.minted = treasury.minted + Excess(earned, badDebt)
      /\ treasury'.badDebt = treasury.badDebt + Excess(badDebt, earned)
      /\ UNCHANGED <<circulating, foreignDebt, tx, totalNormalizedDebt>>
      /\ tx.phase # "liquidating"
  BY MoneyTypes DEF moneyVars, debtVars, Outside
<1>4. Net' = Net + InterestAccrued
  <2>1. earned \in Nat /\ earned = surplus + InterestAccrued
    BY <1>1, MoneyTypes
  <2> HIDE DEF earned
  <2>2. /\ Excess(earned, badDebt) \in Nat /\ Excess(badDebt, earned) \in Nat
        /\ Excess(earned, badDebt) - Excess(badDebt, earned) = earned - badDebt
    BY <2>1, MoneyTypes DEF Excess
  <2>3. /\ Claims' = Claims - surplus + Excess(earned, badDebt)
        /\ Losses' = Losses - badDebt + Excess(badDebt, earned)
        /\ Claims \in Int /\ Losses \in Int
    BY <1>3, <2>2, MoneyTypes DEF Claims, Losses
  <2>4. Pending = 0 /\ Pending' = 0
    BY <1>3 DEF Pending
  <2> QED
    BY <1>1, <2>1, <2>2, <2>3, <2>4, MoneyTypes DEF Net
<1> QED
  BY <1>1, <1>2, <1>3, <1>4, AccruingStep

LEMMA SetUint64IsBacked ==
    ASSUME ConfigInv, LedgerInv, ConfigInv', LedgerInv', NEW what, NEW value,
           SetUint64(what, value)
    PROVE  StepIsBacked
<1>1. tx.phase # "liquidating" /\ UNCHANGED tx
  BY DEF SetUint64, Idle
<1>2. CASE what = "IR"
  <2>1. Accrued(InterestAccrued, 0)
    BY <1>2, AccrualIsBacked DEF SetUint64
  <2>2. Net' = Net + InterestAccrued
    BY <1>1, <2>1, MoneyTypes DEF SetUint64, Accrued, Net, Claims, Losses, Pending, moneyVars
  <2> QED
    BY <2>1, <2>2, AccruingStep DEF SetUint64, debtVars, Accrued
<1>3. CASE what # "IR"
  BY <1>1, <1>3, UntouchedIsBacked DEF SetUint64, Idle
<1> QED
  BY <1>2, <1>3

LEMMA SettledStep == LedgerInv /\ SettledInv /\ [Next]_vars => SettledInv'
<1> SUFFICES ASSUME LedgerInv, SettledInv, [Next]_vars PROVE SettledInv'
  OBVIOUS
<1> USE DEF SettledInv
<1>1. CASE AngleStep
  <2>1. tx'.phase \in {"running", "callback"}
    BY <1>1, AngleStepProceeds
  <2>2. tx.phase = "running" /\ tx'.badDebt = tx.badDebt
    BY <1>1, ProceedMoney
       DEF AngleStep, CreateVaultInCall, AddCollateral, RemoveCollateral, RepayDebt, Borrow,
           CloseVault, GetDebtInLocal, GetDebtInRemote, LedgerInv
  <2> QED
    BY <2>1, <2>2
<1>2. CASE \/ \E sender \in Users : BeginAngle(sender)
           \/ \E sender, to \in Users : BeginLiquidation(sender, to)
  BY <1>2 DEF BeginAngle, BeginLiquidation, Begin, NoTx
<1>3. CASE \E v \in VaultIDs, amount \in StableAmounts : LiquidateVault(v, amount)
  <2>1. tx.phase = "liquidating" /\ tx \in TxType
    BY <1>3 DEF LiquidateVault, LedgerInv, TxInv
  <2>2. tx'.phase = tx.phase
    BY <1>3, <2>1 DEF LiquidateVault, SeizeVault, SellCollateral, TxType
  <2> QED
    BY <2>1, <2>2
<1>4. CASE \E swap \in BOOLEAN : EndAngle(swap) \/ EndLiquidation(swap)
  BY <1>4 DEF EndAngle, EndLiquidation, PayOut, LedgerInv, TxInv, TxType
<1>5. CASE CallbackReturns
  BY <1>5 DEF CallbackReturns, LedgerInv, TxInv, TxType
<1>6. CASE Collect \/ Revert
  BY <1>6 DEF Collect, Revert, NoTx
<1>7. CASE \/ \E to \in Users : CreateVault(to)
           \/ MoveOwnership
           \/ \E v \in VaultIDs, amount \in StableAmounts, fees \in RemoteFees :
                 GetDebtOut(v, amount, fees)
           \/ AccrueInterestToTreasury
           \/ \E what \in ParamNames : \E value \in ParamChoices[what] :
                 what \notin {"ceiling", "boost", "dusts"} /\ SetUint64(what, value)
           \/ Administer
           \/ Tick
           \/ \E price \in Prices : PriceMoves(price)
           \/ UNCHANGED vars
  <2>1. UNCHANGED tx
    BY <1>7 DEF CreateVault, MoveOwnership, GetDebtOut, AccrueInterestToTreasury, SetUint64,
                Administer, Tick, PriceMoves, vars
  <2> QED
    BY <2>1
<1> QED
  BY <1>1, <1>2, <1>3, <1>4, <1>5, <1>6, <1>7 DEF Next

LEMMA OthersAreBacked ==
    ASSUME ConfigInv, LedgerInv, ConfigInv', LedgerInv',
           \/ CallbackReturns
           \/ \E to \in Users : CreateVault(to)
           \/ MoveOwnership
           \/ Administer
           \/ Tick
           \/ \E price \in Prices : PriceMoves(price)
           \/ UNCHANGED vars
    PROVE  StepIsBacked
<1>1. UNCHANGED <<debtVars, accrualVars, surplus, badDebt, treasury, moneyVars, foreignDebt>>
  BY DEF CallbackReturns, CreateVault, MoveOwnership, Administer, Tick, PriceMoves, vars
<1>2. CASE CallbackReturns
  <2>1. /\ tx.phase # "liquidating" /\ tx'.phase # "liquidating"
        /\ tx'.stableToGive = tx.stableToGive
        /\ tx'.stableToReceive = tx.stableToReceive
        /\ tx'.badDebt = tx.badDebt
    BY <1>2 DEF CallbackReturns, LedgerInv, TxInv, TxType
  <2> QED
    BY <1>1, <2>1, UntouchedIsBacked
<1>3. CASE ~CallbackReturns
  <2>1. UNCHANGED tx /\ (~Idle => UNCHANGED params)
    BY <1>3 DEF CreateVault, MoveOwnership, Administer, Tick, PriceMoves, vars, govVars
  <2> QED
    BY <1>1, <2>1, UntouchedIsBacked
<1> QED
  BY <1>2, <1>3

LEMMA RevertRestores ==
    ASSUME LedgerInv, Revert
    PROVE  ~Idle /\ Snapshot' = saved
<1>1. ~Idle /\ saved \in SnapshotType
  BY DEF Revert, LedgerInv, SavedInv
<1>2. saved = [vaultData |-> saved.vaultData, totalNormalizedDebt |-> saved.totalNormalizedDebt,
               interestAccumulator |-> saved.interestAccumulator,
               lastInterestAccumulatorUpdated |-> saved.lastInterestAccumulatorUpdated,
               surplus |-> saved.surplus, badDebt |-> saved.badDebt,
               treasury |-> saved.treasury, custody |-> saved.custody,
               circulating |-> saved.circulating, foreignDebt |-> saved.foreignDebt,
               vaultIDCount |-> saved.vaultIDCount, owners |-> saved.owners,
               balances |-> saved.balances, vaultApprovals |-> saved.vaultApprovals,
               operatorApprovals |-> saved.operatorApprovals]
  BY <1>1 DEF SnapshotType
<1> QED
  BY <1>1, <1>2 DEF Revert, Snapshot

LEMMA BackingStep ==
    ASSUME ConfigInv, LedgerInv, FreshInv, SettledInv, ConfigInv', LedgerInv', [Next]_vars
    PROVE  (~Idle /\ Snapshot' = saved) \/ StepIsBacked
<1>1. StableAmounts \subseteq Nat /\ RemoteFees \subseteq (0..BASE_PARAMS) \X (0..BASE_PARAMS)
  BY ConfigAssumption
<1>2. CASE AngleStep
  BY <1>2, AngleStepIsBacked
<1>3. CASE \/ \E sender \in Users : BeginAngle(sender)
           \/ \E sender, to \in Users : BeginLiquidation(sender, to)
  BY <1>3, BeginIsBacked
<1>4. CASE \E swap \in BOOLEAN : EndAngle(swap) \/ EndLiquidation(swap)
  BY <1>4, SettlementIsBacked
<1>5. CASE \E v \in VaultIDs, amount \in StableAmounts : LiquidateVault(v, amount)
  BY <1>1, <1>5, LiquidateVaultIsBacked
<1>6. CASE Collect
  BY <1>6, CollectIsBacked
<1>7. CASE Revert
  BY <1>7, RevertRestores
<1>8. CASE \E v \in VaultIDs, amount \in StableAmounts, fees \in RemoteFees :
              GetDebtOut(v, amount, fees)
  BY <1>1, <1>8, GetDebtOutIsBacked
<1>9. CASE AccrueInterestToTreasury
  BY <1>9, AccrueInterestToTreasuryIsBacked
<1>10. CASE \E what \in ParamNames : \E value \in ParamChoices[what] :
               what \notin {"ceiling", "boost", "dusts"} /\ SetUint64(what, value)
  BY <1>10, SetUint64IsBacked
<1>11. CASE \/ CallbackReturns
            \/ \E to \in Users : CreateVault(to)
            \/ MoveOwnership
            \/ Administer
            \/ Tick
            \/ \E price \in Prices : PriceMoves(price)
            \/ UNCHANGED vars
  BY <1>11, OthersAreBacked
<1> QED
  BY <1>2, <1>3, <1>4, <1>5, <1>6, <1>7, <1>8, <1>9, <1>10, <1>11 DEF Next

(***************************************************************************)
(* No step of any call, callback, liquidation, settlement, accrual or debt *)
(* transfer issues more stablecoins than the debt that it records, or      *)
(* forgets more debt than it is paid: all truncations are against the      *)
(* user, but for less than a stablecoin for each debt wiped out            *)
(* (VaultManager.sol:535, 566, 651, 744).                                  *)
(***************************************************************************)
THEOREM StepsAreAlwaysBacked == Spec => EveryStepIsBacked
<1>1. ASSUME ConfigInv, LedgerInv, FreshInv, SettledInv, ConfigInv', LedgerInv', [Next]_vars
      PROVE  [\/ ~Idle /\ Snapshot' = saved
              \/ Unbacked' - Unbacked <=
                   (BASE_INTEREST - 1)
                      * Cardinality({v \in VaultIDs : Debt(v) > 0 /\ Debt(v)' = 0})]_vars
  BY <1>1, BackingStep DEF StepIsBacked, Wiped
<1>2. Init => SettledInv
  BY DEF Init, Unused, NoTx, SettledInv
<1> QED
  BY <1>1, <1>2, ConfigInit, ConfigStep, LedgerInit, LedgerStep, FreshInit, FreshStep,
     SettledStep, PTL DEF Spec, EveryStepIsBacked

-----------------------------------------------------------------------------
(***************************************************************************)
(* Dust                                                                    *)
(*                                                                         *)
(* A debt is compared with the dust when it is opened, before it is        *)
(* rounded, and when a repayment leaves part of it.  What a unit of        *)
(* normalized debt is worth, at least a stablecoin and never less than     *)
(* before, makes of the first test the weaker one, and the bound that no   *)
(* vault goes below.                                                       *)
(***************************************************************************)

\* More time, more interest, whatever the expansion leaves out.
LEMMA AccumulatorGrowsWithTime ==
    ASSUME NEW acc \in Nat, NEW rate \in Nat, NEW exp \in Nat, NEW later \in Nat, exp <= later
    PROVE  CurrentAccumulator(acc, rate, exp) <= CurrentAccumulator(acc, rate, later)
<1>1. CASE exp = 0 \/ rate = 0
  <2>1. CurrentAccumulator(acc, rate, exp) = acc
    BY <1>1 DEF CurrentAccumulator
  <2> QED
    BY <2>1, AccumulatorNeverDecreases
<1>2. CASE ~(exp = 0 \/ rate = 0)
  <2> DEFINE minusTwo(e) == IF e > 2 THEN e - 2 ELSE 0
             powerTwo    == (rate * rate + HALF_BASE_INTEREST) \div BASE_INTEREST
             powerThree  == (powerTwo * rate + HALF_BASE_INTEREST) \div BASE_INTEREST
             pairs(e)    == e * (e - 1)
             second(e)   == (pairs(e) * powerTwo) \div 2
             third(e)    == (pairs(e) * minusTwo(e) * powerThree) \div 6
             factor(e)   == BASE_INTEREST + rate * e + second(e) + third(e)
  <2>1. \A e \in {exp, later} :
           CurrentAccumulator(acc, rate, e) = (acc * factor(e)) \div BASE_INTEREST
    BY <1>2 DEF CurrentAccumulator
  <2>2. powerTwo \in Nat /\ powerThree \in Nat
    <3>1. HALF_BASE_INTEREST \in Nat
      BY BasesAssumption, DivisionIsNat DEF HALF_BASE_INTEREST
    <3>2. powerTwo \in Nat
      BY <3>1, BasesAssumption, ProductIsNat, DivisionIsNat
    <3> HIDE DEF powerTwo
    <3> QED
      BY <3>1, <3>2, BasesAssumption, ProductIsNat, DivisionIsNat
  <2>3. /\ minusTwo(exp) \in Nat /\ minusTwo(later) \in Nat
        /\ minusTwo(exp) <= minusTwo(later)
    OBVIOUS
  <2> HIDE DEF minusTwo, powerTwo, powerThree
  <2>4. pairs(exp) \in Nat /\ pairs(later) \in Nat /\ pairs(exp) <= pairs(later)
    <3>1. exp - 1 \in Nat /\ later - 1 \in Nat /\ exp - 1 <= later - 1
      BY <1>2
    <3>2. exp * (exp - 1) <= exp * (later - 1)
      BY <3>1, ProductMonotone
    <3>3. (later - 1) * exp <= (later - 1) * later
      BY <3>1, ProductMonotone
    <3>4. exp * (later - 1) = (later - 1) * exp /\ (later - 1) * later = later * (later - 1)
      BY <3>1
    <3>5. exp * (exp - 1) \in Nat /\ exp * (later - 1) \in Nat /\ later * (later - 1) \in Nat
      BY <3>1, ProductIsNat
    <3> QED
      BY <3>2, <3>3, <3>4, <3>5
  <2> HIDE DEF pairs
  <2>5. second(exp) \in Nat /\ second(later) \in Nat /\ second(exp) <= second(later)
    <3>1. /\ pairs(exp) * powerTwo \in Nat /\ pairs(later) * powerTwo \in Nat
          /\ pairs(exp) * powerTwo <= pairs(later) * powerTwo
      <4>1. powerTwo * pairs(exp) <= powerTwo * pairs(later)
        BY <2>2, <2>4, ProductMonotone
      <4> QED
        BY <2>2, <2>4, <4>1, ProductIsNat
    <3> QED
      BY <3>1, DivisionIsNat, DivisionMonotone
  <2>6. third(exp) \in Nat /\ third(later) \in Nat /\ third(exp) <= third(later)
    <3> DEFINE a == pairs(exp)
               b == pairs(later)
               c == minusTwo(exp)
               d == minusTwo(later)
    <3>1. a * c \in Nat /\ b * d \in Nat /\ a * c <= b * d
      <4> HIDE DEF a, b, c, d
      <4>1. a \in Nat /\ b \in Nat /\ c \in Nat /\ d \in Nat /\ a <= b /\ c <= d
        BY <2>3, <2>4 DEF a, b, c, d
      <4>2. a * c <= a * d
        BY <4>1, ProductMonotone
      <4>3. d * a <= d * b
        BY <4>1, ProductMonotone
      <4>4. a * d = d * a /\ b * d = d * b
        BY <4>1
      <4>5. a * c \in Nat /\ a * d \in Nat /\ b * d \in Nat
        BY <4>1, ProductIsNat
      <4> QED
        BY <4>2, <4>3, <4>4, <4>5
    <3> DEFINE ac == a * c
               bd == b * d
    <3>2. ac \in Nat /\ bd \in Nat /\ ac <= bd
      BY <3>1
    <3>3. third(exp) = (ac * powerThree) \div 6 /\ third(later) = (bd * powerThree) \div 6
      OBVIOUS
    <3> HIDE DEF ac, bd, third
    <3>4. /\ ac * powerThree \in Nat /\ bd * powerThree \in Nat
          /\ ac * powerThree <= bd * powerThree
      <4>1. powerThree * ac <= powerThree * bd
        BY <2>2, <3>2, ProductMonotone
      <4> QED
        BY <2>2, <3>2, <4>1, ProductIsNat
    <3> QED
      BY <3>3, <3>4, DivisionIsNat, DivisionMonotone
  <2> HIDE DEF second, third
  <2>7. rate * exp \in Nat /\ rate * later \in Nat /\ rate * exp <= rate * later
    BY ProductIsNat, ProductMonotone
  <2>8. factor(exp) \in Nat /\ factor(later) \in Nat /\ factor(exp) <= factor(later)
    BY <2>5, <2>6, <2>7, BasesAssumption
  <2> HIDE DEF factor
  <2>9. /\ acc * factor(exp) \in Nat /\ acc * factor(later) \in Nat
        /\ acc * factor(exp) <= acc * factor(later)
    BY <2>8, ProductIsNat, ProductMonotone
  <2> QED
    BY <2>1, <2>9, BasesAssumption, DivisionMonotone
<1> QED
  BY <1>1, <1>2

\* What a unit of normalized debt is worth: never less than when the contract began.
AccumulatorInv ==
    /\ interestAccumulator >= BASE_INTEREST
    /\ ~Idle => saved.interestAccumulator >= BASE_INTEREST

LEMMA UnitIsWorthMore ==
    ASSUME ConfigInv, LedgerInv, AccumulatorInv
    PROVE  NewAccumulator \in Nat /\ NewAccumulator >= BASE_INTEREST
  BY NewAccumulatorGrows, BasesAssumption DEF LedgerInv, InterestInv, AccumulatorInv

LEMMA AccumulatorStep ==
    ConfigInv /\ LedgerInv /\ FreshInv /\ AccumulatorInv /\ [Next]_vars => AccumulatorInv'
<1> SUFFICES ASSUME ConfigInv, LedgerInv, FreshInv, AccumulatorInv, [Next]_vars
             PROVE  AccumulatorInv'
  OBVIOUS
<1>1. ASSUME NoAccrual \/ Accrual, UNCHANGED saved, ~Idle' => ~Idle
      PROVE  AccumulatorInv'
  BY <1>1, UnitIsWorthMore DEF AccumulatorInv, NoAccrual, Accrual, accrualVars
<1>2. CASE AngleStep
  <2>1. (NoAccrual \/ Accrual) /\ InCall /\ ~Idle'
    BY <1>2, AngleStepAccrues
  <2> QED
    BY <1>1, <2>1 DEF InCall
<1>3. CASE \/ \E sender \in Users : BeginAngle(sender)
           \/ \E sender, to \in Users : BeginLiquidation(sender, to)
  <2>1. saved'.interestAccumulator = interestAccumulator
    <3>1. saved' = Snapshot
      BY <1>3 DEF BeginAngle, BeginLiquidation, Begin
    <3> QED
      BY <3>1 DEF Snapshot
  <2>2. interestAccumulator' \in {interestAccumulator, NewAccumulator}
    BY <1>3 DEF BeginAngle, BeginLiquidation, AccrueAndEarn, accrualVars
  <2> QED
    BY <2>1, <2>2, UnitIsWorthMore DEF AccumulatorInv
<1>4. CASE Collect \/ Revert
  BY <1>4 DEF Collect, Revert, AccumulatorInv, Idle, NoTx, accrualVars
<1>5. CASE \/ \E what \in ParamNames : \E value \in ParamChoices[what] :
                 what \notin {"ceiling", "boost", "dusts"} /\ SetUint64(what, value)
           \/ Administer
           \/ Tick
           \/ \E price \in Prices : PriceMoves(price)
  <2>1. Idle' /\ interestAccumulator' \in {interestAccumulator, NewAccumulator}
    BY <1>5 DEF SetUint64, AccrueAndEarn, Administer, Tick, PriceMoves, Idle, accrualVars
  <2> QED
    BY <2>1, UnitIsWorthMore DEF AccumulatorInv
<1>6. CASE \/ CallbackReturns
           \/ \E v \in VaultIDs, amount \in StableAmounts : LiquidateVault(v, amount)
           \/ \E swap \in BOOLEAN : EndAngle(swap) \/ EndLiquidation(swap)
           \/ \E to \in Users : CreateVault(to)
           \/ MoveOwnership
           \/ AccrueInterestToTreasury
           \/ \E v \in VaultIDs, amount \in StableAmounts, fees \in RemoteFees :
                 GetDebtOut(v, amount, fees)
           \/ UNCHANGED vars
  BY <1>1, <1>6, OtherStepsAccrue
<1> QED
  BY <1>2, <1>3, <1>4, <1>5, <1>6 DEF Next

LEMMA AccumulatorInit == Init => AccumulatorInv
  BY BasesAssumption DEF Init, Unused, NoTx, AccumulatorInv, Idle

-----------------------------------------------------------------------------
\* Dust: what a step does to the debt of v

\* It leaves it, wipes it out, adds to it, or leaves it above the bound.
TestedForDust(v) ==
    \/ Debt(v)' = Debt(v)
    \/ Debt(v)' = 0
    \/ Debt(v) > 0 /\ Debt(v)' >= Debt(v)
    \/ (Debt(v)' + 1) * NewAccumulator > (params.dust + 1) * BASE_INTEREST

LEMMA NextAccumulatorIsNat ==
    ASSUME ConfigInv', LedgerInv'
    PROVE  NewAccumulator' \in Nat
<1>1. /\ interestAccumulator' \in Nat /\ params' \in ParamsType
      /\ now' \in Nat /\ lastInterestAccumulatorUpdated' \in 0..now'
  BY DEF ConfigInv, LedgerInv, InterestInv
<1>2. now' - lastInterestAccumulatorUpdated' \in Nat
  <2>1. \A end \in Nat : \A start \in 0..end : end - start \in Nat
    OBVIOUS
  <2> QED
    BY <1>1, <2>1
<1>3. params'.interestRate \in Nat
  BY <1>1 DEF ParamsType
<1> QED
  BY <1>1, <1>2, <1>3, AccumulatorNeverDecreases DEF NewAccumulator

LEMMA TestedIsKept ==
    ASSUME ConfigInv, LedgerInv, ConfigInv', LedgerInv',
           params'.dust <= params.dust, NewAccumulator' >= NewAccumulator,
           NEW v \in VaultIDs, TestedForDust(v), Dusty(v)'
    PROVE  Dusty(v)
<1> DEFINE n == Debt(v)
           m == Debt(v)'
           acc == NewAccumulator
           later == NewAccumulator'
           bound == (params.dust + 1) * BASE_INTEREST
           lower == (params'.dust + 1) * BASE_INTEREST
<1>1. n \in Nat /\ m \in Nat
  <2>1. vaultData[v] \in VaultType /\ vaultData'[v] \in VaultType
    BY DEF LedgerInv, DebtsInv
  <2> QED
    BY <2>1 DEF Debt, VaultType
<1>2. acc \in Nat /\ later \in Nat /\ acc <= later
  BY NewAccumulatorGrows, NextAccumulatorIsNat DEF LedgerInv
<1>3. bound \in Nat /\ lower \in Nat /\ lower <= bound
  <2>1. params.dust \in Nat /\ params'.dust \in Nat
    BY DEF ConfigInv, ParamsType
  <2>2. BASE_INTEREST * (params'.dust + 1) <= BASE_INTEREST * (params.dust + 1)
    BY <2>1, BasesAssumption, ProductMonotone
  <2> QED
    BY <2>1, <2>2, BasesAssumption, ProductIsNat
<1>4. m > 0 /\ (m + 1) * later <= lower
  BY DEF Dusty
<1>5. TestedForDust(v) <=> \/ m = n
                           \/ m = 0
                           \/ n > 0 /\ m >= n
                           \/ (m + 1) * acc > bound
  BY DEF TestedForDust
<1>6. Dusty(v) <=> n > 0 /\ (n + 1) * acc <= bound
  BY DEF Dusty
<1> HIDE DEF n, m, acc, later, bound, lower
<1>7. (m + 1) * acc <= bound
  <2>1. (m + 1) * acc <= (m + 1) * later
    BY <1>1, <1>2, ProductMonotone
  <2>2. (m + 1) * acc \in Nat /\ (m + 1) * later \in Nat
    BY <1>1, <1>2, ProductIsNat
  <2> QED
    BY <1>3, <1>4, <2>1, <2>2
<1>8. n > 0 /\ n <= m
  <2>1. (m + 1) * acc \in Nat
    BY <1>1, <1>2, ProductIsNat
  <2> QED
    BY <1>1, <1>3, <1>4, <1>5, <1>7, <2>1
<1>9. (n + 1) * acc <= bound
  <2>1. acc * (n + 1) <= acc * (m + 1)
    BY <1>1, <1>2, <1>8, ProductMonotone
  <2>2. (n + 1) * acc \in Nat /\ (m + 1) * acc \in Nat
    BY <1>1, <1>2, ProductIsNat
  <2>3. acc * (n + 1) = (n + 1) * acc /\ acc * (m + 1) = (m + 1) * acc
    BY <1>1, <1>2
  <2> QED
    BY <1>3, <1>7, <2>1, <2>2, <2>3
<1> QED
  BY <1>6, <1>8, <1>9

\* The test of a repayment.
LEMMA LeftoverIsNotDusty ==
    ASSUME ConfigInv, NEW acc \in Nat, acc >= BASE_INTEREST, NEW n \in Nat,
           LeavesNoDust(n, acc, params)
    PROVE  n = 0 \/ (n + 1) * acc > (params.dust + 1) * BASE_INTEREST
<1>1. params.dust \in Nat
  BY DEF ConfigInv, ParamsType
<1>2. n = 0 \/ n * acc > params.dust * BASE_INTEREST
  BY DEF LeavesNoDust
<1>3. /\ (n + 1) * acc = n * acc + acc
      /\ (params.dust + 1) * BASE_INTEREST = params.dust * BASE_INTEREST + BASE_INTEREST
  BY <1>1, BasesAssumption
<1>4. n * acc \in Nat /\ params.dust * BASE_INTEREST \in Nat
  BY <1>1, BasesAssumption, ProductIsNat
<1> QED
  BY <1>2, <1>3, <1>4, BasesAssumption

\* The test of a first debt: what is recorded is less than a unit below what was asked for.
LEMMA OpeningIsNotDusty ==
    ASSUME ConfigInv, NEW acc \in Nat \ {0}, NEW amount \in Nat, amount > params.dust
    PROVE  (Normalized(amount, acc) + 1) * acc > (params.dust + 1) * BASE_INTEREST
<1>1. params.dust \in Nat /\ params.dust + 1 <= amount
  BY DEF ConfigInv, ParamsType
<1>2. amount * BASE_INTEREST \in Nat
  BY BasesAssumption, ProductIsNat
<1> DEFINE n == Normalized(amount, acc)
<1>3. n \in Nat /\ amount * BASE_INTEREST < n * acc + acc
  BY <1>2, NormalizedIsNat, DivisionTruncates DEF Normalized
<1> HIDE DEF n
<1>4. (n + 1) * acc = n * acc + acc /\ n * acc \in Nat
  BY <1>3, ProductIsNat
<1>5. /\ BASE_INTEREST * (params.dust + 1) <= BASE_INTEREST * amount
      /\ BASE_INTEREST * (params.dust + 1) = (params.dust + 1) * BASE_INTEREST
      /\ BASE_INTEREST * amount = amount * BASE_INTEREST
      /\ (params.dust + 1) * BASE_INTEREST \in Nat
  BY <1>1, BasesAssumption, ProductMonotone, ProductIsNat
<1>6. (n + 1) * acc > (params.dust + 1) * BASE_INTEREST
  BY <1>2, <1>3, <1>4, <1>5
<1> QED
  BY <1>6 DEF n

\* The accumulator of a call is the one that the property is about.
LEMMA AccIsCurrent ==
    ASSUME ConfigInv, LedgerInv, FreshInv
    PROVE  tx.acc \in {0, NewAccumulator} /\ Acc = NewAccumulator
<1>1. tx.acc # 0 => tx.acc = NewAccumulator
  <2>1. now - now = 0
    BY DEF ConfigInv
  <2> QED
    BY <2>1, SameBlock DEF FreshInv, CachedAccumulatorIsFresh, NewAccumulator
<1> QED
  BY <1>1 DEF Acc

\* A vault whose debt only grows, by n, after the test of a first debt.
LEMMA IncreaseIsTested ==
    ASSUME ConfigInv, LedgerInv, FreshInv, NEW v \in VaultIDs, NEW amount \in Nat,
           Debt(v) = 0 => amount > params.dust,
           Debt(v)' = Debt(v) + Normalized(amount, Acc)
    PROVE  TestedForDust(v)
<1>1. Acc \in Nat \ {0} /\ Acc = NewAccumulator
  BY AccIsPositive, AccIsCurrent DEF LedgerInv
<1>2. Debt(v) \in Nat /\ Normalized(amount, Acc) \in Nat
  BY <1>1, NormalizedIsNat DEF LedgerInv, DebtsInv, Debt, VaultType
<1>3. CASE Debt(v) = 0
  <2>1. Debt(v)' = Normalized(amount, NewAccumulator)
    BY <1>1, <1>2, <1>3
  <2>2. (Normalized(amount, NewAccumulator) + 1) * NewAccumulator
           > (params.dust + 1) * BASE_INTEREST
    BY <1>1, <1>3, OpeningIsNotDusty
  <2> QED
    BY <2>1, <2>2 DEF TestedForDust
<1>4. CASE Debt(v) # 0
  BY <1>2, <1>4 DEF TestedForDust
<1> QED
  BY <1>3, <1>4

\* A vault whose debt is what the test of a repayment accepts.
LEMMA LeftoverIsTested ==
    ASSUME ConfigInv, LedgerInv, LedgerInv', AccumulatorInv, NEW v \in VaultIDs,
           LeavesNoDust(Debt(v)', NewAccumulator, params)
    PROVE  TestedForDust(v)
<1>1. Debt(v)' \in Nat
  BY DEF LedgerInv, DebtsInv, Debt, VaultType
<1>2. NewAccumulator \in Nat /\ NewAccumulator >= BASE_INTEREST
  BY UnitIsWorthMore
<1> QED
  BY <1>1, <1>2, LeftoverIsNotDusty DEF TestedForDust

\* A repayment of v accepted by the test.
LEMMA RepaymentIsTested ==
    ASSUME ConfigInv, LedgerInv, LedgerInv', AccumulatorInv,
           NEW v \in VaultIDs, NEW change \in 0..Debt(v),
           LeavesNoDust(Debt(v) - change, NewAccumulator, params),
           vaultData' = [vaultData EXCEPT ![v].normalizedDebt = @ - change],
           NEW w \in VaultIDs
    PROVE  TestedForDust(w)
<1>1. CASE w = v
  <2>1. Debt(v)' = Debt(v) - change
    BY DEF Debt, LedgerInv, DebtsInv, VaultType
  <2> QED
    BY <1>1, <2>1, LeftoverIsTested
<1>2. CASE w # v
  BY <1>2 DEF Debt, LedgerInv, DebtsInv, TestedForDust
<1> QED
  BY <1>1, <1>2

LEMMA DebtIncreaseIsTested ==
    ASSUME ConfigInv, LedgerInv, FreshInv, NEW v, NEW amount \in Nat,
           Borrow(v, amount) \/ \E fake \in BOOLEAN : GetDebtInRemote(v, amount, fake),
           NEW w \in VaultIDs
    PROVE  TestedForDust(w)
<1>1. /\ v \in VaultIDs /\ (Debt(v) = 0 => amount > params.dust)
      /\ vaultData' = [vaultData EXCEPT ![v].normalizedDebt = @ + Normalized(amount, Acc)]
  BY DEF Borrow, GetDebtInRemote, CanIncreaseDebt, IsApprovedOrOwner, Exists
<1>2. CASE w = v
  <2>1. Debt(v)' = Debt(v) + Normalized(amount, Acc)
    BY <1>1 DEF Debt, LedgerInv, DebtsInv, VaultType
  <2> QED
    BY <1>1, <1>2, <2>1, IncreaseIsTested
<1>3. CASE w # v
  BY <1>1, <1>3 DEF Debt, LedgerInv, DebtsInv, TestedForDust
<1> QED
  BY <1>2, <1>3

\* A debt moved inside the contract, to the same vault or to another.
LEMMA GetDebtInLocalIsTested ==
    ASSUME ConfigInv, LedgerInv, FreshInv, LedgerInv', AccumulatorInv,
           NEW src, NEW dst \in VaultIDs, NEW amount \in Nat, GetDebtInLocal(src, dst, amount),
           NEW w \in VaultIDs
    PROVE  TestedForDust(w)
<1> DEFINE n == Normalized(amount, Acc)
           indebted == [vaultData EXCEPT ![src].normalizedDebt = @ + n]
           left == indebted[dst].normalizedDebt
                      - Repayment(indebted[dst].normalizedDebt, Issued(amount), Acc).change
<1>1. /\ src \in VaultIDs /\ (Debt(src) = 0 => amount > params.dust)
      /\ LeavesNoDust(left, NewAccumulator, params)
      /\ vaultData' = [indebted EXCEPT ![dst].normalizedDebt = left]
  BY AccIsCurrent DEF GetDebtInLocal, CanIncreaseDebt, IsApprovedOrOwner, Exists
<1> HIDE DEF n, left
<1>2. Debt(dst)' = left /\ (w # dst => Debt(w)' = indebted[w].normalizedDebt)
  <2>1. vaultData \in [VaultIDs -> VaultType]
    BY DEF LedgerInv, DebtsInv
  <2>2. indebted \in [VaultIDs -> {indebted[v] : v \in VaultIDs}]
    BY <2>1
  <2>3. DOMAIN indebted[dst] = {"collateralAmount", "normalizedDebt"}
    BY <1>1, <2>1 DEF VaultType
  <2> QED
    BY <1>1, <2>1, <2>2, <2>3 DEF Debt
<1>3. CASE w = dst
  BY <1>1, <1>2, <1>3, LeftoverIsTested
<1>4. CASE w # dst /\ w = src
  <2>1. Debt(w)' = Debt(src) + n
    BY <1>1, <1>2, <1>4 DEF Debt, LedgerInv, DebtsInv, VaultType
  <2> QED
    BY <1>1, <1>4, <2>1, IncreaseIsTested DEF n
<1>5. CASE w # dst /\ w # src
  <2>1. Debt(w)' = Debt(w)
    BY <1>1, <1>2, <1>5 DEF Debt, LedgerInv, DebtsInv
  <2> QED
    BY <2>1 DEF TestedForDust
<1> QED
  BY <1>3, <1>4, <1>5

LEMMA AngleStepIsTested ==
    ASSUME ConfigInv, LedgerInv, FreshInv, LedgerInv', AccumulatorInv, AngleStep,
           NEW w \in VaultIDs
    PROVE  TestedForDust(w)
<1>1. CollateralAmounts \subseteq Nat /\ StableAmounts \subseteq Nat
  BY ConfigAssumption
<1>2. ASSUME NEW to \in Users, CreateVaultInCall(to) PROVE TestedForDust(w)
  BY <1>2 DEF CreateVaultInCall, debtVars, Debt, TestedForDust
<1>3. ASSUME NEW v, NEW amount \in Nat, AddCollateral(v, amount) PROVE TestedForDust(w)
  <2>1. vaultData' = [vaultData EXCEPT ![v].collateralAmount = @ + amount] /\ v \in VaultIDs
    BY <1>3 DEF AddCollateral, Exists
  <2>2. Debt(w)' = Debt(w)
    BY <2>1 DEF Debt, LedgerInv, DebtsInv, VaultType
  <2> QED
    BY <2>2 DEF TestedForDust
<1>4. ASSUME NEW v, NEW amount \in Nat, RemoveCollateral(v, amount) PROVE TestedForDust(w)
  <2>1. /\ v \in VaultIDs
        /\ vaultData' = [vaultData EXCEPT
                            ![v] = [vaultData[v] EXCEPT !.collateralAmount = @ - amount]]
    BY <1>4 DEF RemoveCollateral, IsApprovedOrOwner, Exists
  <2>2. Debt(w)' = Debt(w)
    BY <2>1 DEF Debt, LedgerInv, DebtsInv, VaultType
  <2> QED
    BY <2>2 DEF TestedForDust
<1>5. ASSUME NEW v \in VaultIDs, NEW amount \in Nat, RepayDebt(v, amount)
      PROVE  TestedForDust(w)
  <2> DEFINE change == Repayment(Debt(v), amount, Acc).change
  <2>1. /\ LeavesNoDust(Debt(v) - change, NewAccumulator, params)
        /\ vaultData' = [vaultData EXCEPT ![v].normalizedDebt = @ - change]
    BY <1>5, AccIsCurrent DEF RepayDebt
  <2>2. change \in 0..Debt(v)
    <3>1. Debt(v) \in Nat /\ Acc \in Nat \ {0}
      BY AccIsPositive DEF LedgerInv, DebtsInv, VaultType, Debt
    <3> QED
      BY <3>1, RepaymentWithinDebt
  <2> HIDE DEF change
  <2> QED
    BY <2>1, <2>2, RepaymentIsTested
<1>6. ASSUME NEW v, NEW amount \in Nat, Borrow(v, amount) PROVE TestedForDust(w)
  BY <1>6, DebtIncreaseIsTested
<1>7. ASSUME NEW v, CloseVault(v) PROVE TestedForDust(w)
  <2>1. v \in VaultIDs /\ vaultData' = [vaultData EXCEPT ![v] = NoVault]
    BY <1>7 DEF CloseVault, IsApprovedOrOwner, Exists
  <2>2. Debt(w)' \in {Debt(w), 0}
    BY <2>1 DEF Debt, NoVault, LedgerInv, DebtsInv
  <2> QED
    BY <2>2 DEF TestedForDust
<1>8. ASSUME NEW src, NEW dst \in VaultIDs, NEW amount \in Nat, GetDebtInLocal(src, dst, amount)
      PROVE  TestedForDust(w)
  BY <1>8, GetDebtInLocalIsTested
<1>9. ASSUME NEW src, NEW amount \in Nat, NEW fake \in BOOLEAN, GetDebtInRemote(src, amount, fake)
      PROVE  TestedForDust(w)
  BY <1>9, DebtIncreaseIsTested
<1> QED
  BY <1>1, <1>2, <1>3, <1>4, <1>5, <1>6, <1>7, <1>8, <1>9 DEF AngleStep

\* A liquidation empties the vault, or leaves what the test of a repayment accepts.
LEMMA LiquidateVaultIsTested ==
    ASSUME ConfigInv, LedgerInv, FreshInv, LedgerInv', AccumulatorInv,
           NEW v \in VaultIDs, NEW amount \in Nat, LiquidateVault(v, amount),
           NEW w \in VaultIDs
    PROVE  TestedForDust(w)
<1>1. PICK paid, released : SeizeVault(v, paid) \/ SellCollateral(v, paid, released)
  BY DEF LiquidateVault
<1>2. tx.acc = NewAccumulator
  BY AccIsCurrent DEF LiquidateVault, LedgerInv, TxInv
<1>3. CASE SeizeVault(v, paid)
  <2>1. vaultData' = [vaultData EXCEPT ![v] = NoVault]
    BY <1>3 DEF SeizeVault
  <2>2. Debt(w)' \in {Debt(w), 0}
    BY <2>1 DEF Debt, NoVault, LedgerInv, DebtsInv
  <2> QED
    BY <2>2 DEF TestedForDust
<1>4. CASE SellCollateral(v, paid, released)
  <2> DEFINE change == Repayment(Debt(v), Reimbursed(paid), tx.acc).change
  <2>1. /\ LeavesNoDust(Debt(v) - change, NewAccumulator, params)
        /\ vaultData' = [vaultData EXCEPT ![v].collateralAmount = @ - released,
                                          ![v].normalizedDebt = @ - change]
    BY <1>2, <1>4 DEF SellCollateral
  <2> HIDE DEF change
  <2>2. Debt(v)' = Debt(v) - change /\ (w # v => Debt(w)' = Debt(w))
    BY <2>1 DEF Debt, LedgerInv, DebtsInv, VaultType
  <2>3. CASE w = v
    BY <2>1, <2>2, <2>3, LeftoverIsTested
  <2>4. CASE w # v
    BY <2>2, <2>4 DEF TestedForDust
  <2> QED
    BY <2>3, <2>4
<1> QED
  BY <1>1, <1>3, <1>4

LEMMA GetDebtOutIsTested ==
    ASSUME ConfigInv, LedgerInv, LedgerInv', AccumulatorInv, NEW v \in VaultIDs,
           NEW amount \in Nat, NEW fees \in (0..BASE_PARAMS) \X (0..BASE_PARAMS),
           GetDebtOut(v, amount, fees), NEW w \in VaultIDs
    PROVE  TestedForDust(w)
<1> DEFINE change == Repayment(Debt(v), LessFees(amount, fees), NewAccumulator).change
<1>1. /\ LeavesNoDust(Debt(v) - change, NewAccumulator, params)
      /\ vaultData' = [vaultData EXCEPT ![v].normalizedDebt = @ - change]
  BY DEF GetDebtOut
<1>2. change \in 0..Debt(v)
  <2>1. Debt(v) \in Nat /\ NewAccumulator \in Nat \ {0}
    BY NewAccumulatorGrows DEF LedgerInv, DebtsInv, VaultType, Debt
  <2>2. LessFees(amount, fees) \in Nat
    BY LessFeesIsPart DEF ConfigInv
  <2> QED
    BY <2>1, <2>2, RepaymentWithinDebt
<1> HIDE DEF change
<1> QED
  BY <1>1, <1>2, RepaymentIsTested

\* Nothing else changes a debt, but for a rollback.
LEMMA OthersAreTested ==
    ASSUME \/ CallbackReturns
           \/ \E sender \in Users : BeginAngle(sender)
           \/ \E sender, to \in Users : BeginLiquidation(sender, to)
           \/ \E swap \in BOOLEAN : EndAngle(swap) \/ EndLiquidation(swap)
           \/ Collect
           \/ \E to \in Users : CreateVault(to)
           \/ MoveOwnership
           \/ AccrueInterestToTreasury
           \/ \E what \in ParamNames : \E value \in ParamChoices[what] :
                 what \notin {"ceiling", "boost", "dusts"} /\ SetUint64(what, value)
           \/ Administer
           \/ Tick
           \/ \E price \in Prices : PriceMoves(price)
           \/ UNCHANGED vars,
           NEW w \in VaultIDs
    PROVE  TestedForDust(w)
<1>1. UNCHANGED vaultData
  BY DEF CallbackReturns, BeginAngle, BeginLiquidation, EndAngle, EndLiquidation, Collect,
         CreateVault, MoveOwnership, AccrueInterestToTreasury, SetUint64, Administer, Tick,
         PriceMoves, vars, debtVars
<1> QED
  BY <1>1 DEF TestedForDust, Debt

\* Neither a step of the contract nor a second more makes a debt worth less.
LEMMA WorthNeverDecreases ==
    ASSUME ConfigInv, LedgerInv, FreshInv, AccumulatorInv, [Next]_vars
    PROVE  NewAccumulator' >= NewAccumulator
<1>1. NewAccumulator \in Nat
  BY NewAccumulatorGrows DEF LedgerInv
<1>2. CASE now' = now
  <2>1. NewAccumulator' = NewAccumulator
    BY <1>2, FreshStep DEF Timeless
  <2> QED
    BY <1>1, <2>1
<1>3. CASE now' # now
  <2>1. Tick
    BY <1>3 DEF Next, AngleStep, BeginAngle, BeginLiquidation, CreateVaultInCall, AddCollateral,
                RemoveCollateral, RepayDebt, Borrow, CloseVault, GetDebtInLocal, GetDebtInRemote,
                CallbackReturns, EndAngle, EndLiquidation, LiquidateVault, Collect, Revert,
                CreateVault, MoveOwnership, GetDebtOut, AccrueInterestToTreasury, SetUint64,
                Administer, PriceMoves, vars, worldVars
  <2> DEFINE exp == now - lastInterestAccumulatorUpdated
  <2>2. /\ exp \in Nat /\ exp + 1 \in Nat
        /\ now' - lastInterestAccumulatorUpdated' = exp + 1
    BY <2>1 DEF Tick, ConfigInv, LedgerInv, InterestInv, accrualVars
  <2>3. /\ interestAccumulator' = interestAccumulator /\ params' = params
        /\ interestAccumulator \in Nat /\ params.interestRate \in Nat
    BY <2>1 DEF Tick, ConfigInv, LedgerInv, InterestInv, ParamsType, accrualVars, govVars
  <2> HIDE DEF exp
  <2>4. CurrentAccumulator(interestAccumulator, params.interestRate, exp)
           <= CurrentAccumulator(interestAccumulator, params.interestRate, exp + 1)
    BY <2>2, <2>3, AccumulatorGrowsWithTime
  <2>5. NewAccumulator = CurrentAccumulator(interestAccumulator, params.interestRate, exp)
    BY DEF NewAccumulator, exp
  <2>6. NewAccumulator' = CurrentAccumulator(interestAccumulator, params.interestRate, exp + 1)
    BY <2>2, <2>3 DEF NewAccumulator
  <2>7. NewAccumulator' \in Nat
    BY <2>2, <2>3, <2>6, AccumulatorNeverDecreases
  <2> QED
    BY <1>1, <2>4, <2>5, <2>6, <2>7
<1> QED
  BY <1>2, <1>3

LEMMA DustStep ==
    ASSUME ConfigInv, LedgerInv, FreshInv, AccumulatorInv, ConfigInv', LedgerInv', [Next]_vars
    PROVE  \/ ~Idle /\ Snapshot' = saved
           \/ params'.dust > params.dust
           \/ \A v \in VaultIDs : Dusty(v)' => Dusty(v)
<1>1. CASE Revert
  BY <1>1, RevertRestores
<1>2. ASSUME ~Revert, NEW w \in VaultIDs PROVE TestedForDust(w)
  <2>1. StableAmounts \subseteq Nat /\ RemoteFees \subseteq (0..BASE_PARAMS) \X (0..BASE_PARAMS)
    BY ConfigAssumption
  <2>2. CASE AngleStep
    BY <2>2, AngleStepIsTested
  <2>3. CASE \E v \in VaultIDs, amount \in StableAmounts : LiquidateVault(v, amount)
    BY <2>1, <2>3, LiquidateVaultIsTested
  <2>4. CASE \E v \in VaultIDs, amount \in StableAmounts, fees \in RemoteFees :
                GetDebtOut(v, amount, fees)
    BY <2>1, <2>4, GetDebtOutIsTested
  <2>5. CASE \/ CallbackReturns
             \/ \E sender \in Users : BeginAngle(sender)
             \/ \E sender, to \in Users : BeginLiquidation(sender, to)
             \/ \E swap \in BOOLEAN : EndAngle(swap) \/ EndLiquidation(swap)
             \/ Collect
             \/ \E to \in Users : CreateVault(to)
             \/ MoveOwnership
             \/ AccrueInterestToTreasury
             \/ \E what \in ParamNames : \E value \in ParamChoices[what] :
                   what \notin {"ceiling", "boost", "dusts"} /\ SetUint64(what, value)
             \/ Administer
             \/ Tick
             \/ \E price \in Prices : PriceMoves(price)
             \/ UNCHANGED vars
    BY <2>5, OthersAreTested
  <2> QED
    BY <1>2, <2>2, <2>3, <2>4, <2>5 DEF Next
<1>3. CASE ~Revert /\ params'.dust <= params.dust
  BY <1>2, <1>3, WorthNeverDecreases, TestedIsKept
<1>4. params.dust \in Nat /\ params'.dust \in Nat
  <2>1. params \in ParamsType /\ params' \in ParamsType
    BY DEF ConfigInv
  <2> QED
    BY <2>1 DEF ParamsType
<1> QED
  BY <1>1, <1>3, <1>4

(***************************************************************************)
(* Only a raise of the dust by governance makes a vault dusty: whatever is *)
(* borrowed, repaid, moved or liquidated, in whatever order and at         *)
(* whatever accumulator, a vault keeps no debt, or one less than a unit of *)
(* normalized debt below what is asked of a new one                        *)
(* (VaultManager.sol:547, 586).                                            *)
(***************************************************************************)
THEOREM OnlyGovernanceMakesDust == Spec => OnlyGovernanceLeavesDust
<1>1. ASSUME ConfigInv, LedgerInv, FreshInv, AccumulatorInv, ConfigInv', LedgerInv', [Next]_vars
      PROVE  [\/ ~Idle /\ Snapshot' = saved
              \/ params'.dust > params.dust
              \/ \A v \in VaultIDs : Dusty(v)' => Dusty(v)]_vars
  BY <1>1, DustStep
<1> QED
  BY <1>1, ConfigInit, ConfigStep, LedgerInit, LedgerStep, FreshInit, FreshStep,
     AccumulatorInit, AccumulatorStep, PTL DEF Spec, OnlyGovernanceLeavesDust
=============================================================================
