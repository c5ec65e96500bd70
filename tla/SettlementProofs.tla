-------------------------- MODULE SettlementProofs --------------------------
(***************************************************************************)
(* The properties of Settlement.tla, for any vaults, users, amounts,       *)
(* prices and bases, and calls nested as deep as one likes.                *)
(*                                                                         *)
(* What a transaction does is undone at once by `Revert`, so that what     *)
(* holds of the contract must hold of what the transaction found as well:  *)
(* the parts of the invariant that calls can disturb are stated of a       *)
(* record of the fields of Undoable, and required of the present one and   *)
(* of `saved`.                                                             *)
(***************************************************************************)
EXTENDS Settlement, CountingProofs, SequenceTheorems

\* Types, and: a vault is paid for once it is marked, and then no more than it holds.
HeldOK(held) ==
    /\ held.vaultCheck \subseteq VaultIDs
    /\ held.paidFor \in [VaultIDs -> Nat]
    /\ held.redeemed \in Nat /\ held.collateral \in Nat /\ held.stablecoins \in Nat
    /\ held.wallets \in [Users -> Nat]
    /\ held.owner \in [VaultIDs -> Users]
    /\ \A v \in VaultIDs :
          /\ held.paidFor[v] <= vaultData[v].collat
          /\ v \notin held.vaultCheck => held.paidFor[v] = 0

\* The types of what no call changes.
FrozenOK ==
    /\ vaultData \in [VaultIDs -> [collat : Nat, debt : Nat]]
    /\ oracleValue \in Nat /\ interestAccumulator \in Nat /\ activated \in BOOLEAN
    /\ activationTimestamp \in Nat
    /\ collateralStablecoinExchangeRate \in Nat /\ leftOverCollateral \in Nat
    /\ exchangeRateComputed \in BOOLEAN /\ covered \in Nat
    /\ now \in Nat /\ activations \in Nat /\ claimPeriods \in Nat

\* The calls under way, and what to restore while there are some.
CallsOK ==
    /\ calls \in Seq([from : Users, due : Nat])
    /\ ~Idle <=> \E s \in saved : TRUE
    /\ \A s \in saved : HeldOK(s)

\* The order of the two activations.
PhaseInv ==
    /\ activated => activations >= 1 /\ oracleValue > 0
    /\ exchangeRateComputed => activated /\ claimPeriods >= 1
    /\ ~exchangeRateComputed =>
          claimPeriods = 0 /\ leftOverCollateral = 0 /\ covered = 0

HeldInv == HeldOK(Undoable) /\ FrozenOK /\ CallsOK /\ PhaseInv

CoveredIn(held) ==
    held.redeemed <= covered =>
        RedeemedFor(covered - held.redeemed) + leftOverCollateral <= held.collateral

\* When each activation has been called once: claims are closed, and what is left covers
\* what is left to redeem, whatever a revert restores.
PeriodInv ==
    activations <= 1 /\ claimPeriods <= 1 /\ exchangeRateComputed =>
        /\ ~InTime
        /\ CoveredIn(Undoable)
        /\ \A s \in saved : CoveredIn(s)

-----------------------------------------------------------------------------
\* Arithmetic

\* Two redemptions give no more than one of both amounts.
LEMMA FloorsAddUp ==
    ASSUME NEW a \in Nat, NEW b \in Nat, NEW n \in Nat \ {0}
    PROVE  (a \div n) + (b \div n) <= (a + b) \div n
<1>1. a \div n \in Nat /\ b \div n \in Nat
  BY DivisionIsNat
<1>2. (a \div n) * n <= a /\ (b \div n) * n <= b
  BY DivisionTruncates
<1>3. ((a \div n) + (b \div n)) * n <= a + b
  BY <1>1, <1>2
<1> QED
  BY <1>1, <1>3, DivisionAtLeast

\* A rate and an amount, rounded down twice, give no more than rounded down once.
LEMMA TwoFloors ==
    ASSUME NEW d \in Nat, NEW x \in Nat, NEW n \in Nat \ {0}, NEW p \in Nat \ {0}
    PROVE  (d * ((n * x) \div p)) \div n <= (d * x) \div p
<1> DEFINE rate == (n * x) \div p
           given == (d * rate) \div n
<1>1. n * x \in Nat /\ d * x \in Nat
  BY ProductIsNat
<1>2. rate \in Nat /\ rate * p <= n * x
  BY <1>1, DivisionIsNat, DivisionTruncates
<1>3. d * rate \in Nat
  BY <1>2, ProductIsNat
<1>4. given \in Nat /\ given * n <= d * rate
  BY <1>3, DivisionIsNat, DivisionTruncates
<1> HIDE DEF rate, given
<1>5. (given * n) * p <= (d * rate) * p
  BY <1>2, <1>3, <1>4
<1>6. d * (rate * p) <= d * (n * x)
  BY <1>1, <1>2, ProductMonotone, ProductIsNat
<1>7. n * (given * p) <= n * (d * x)
  BY <1>2, <1>4, <1>5, <1>6
<1>8. given * p <= d * x
  BY <1>1, <1>4, <1>7
<1>9. given <= (d * x) \div p
  BY <1>1, <1>4, <1>8, DivisionAtLeast
<1> QED
  BY <1>9 DEF given, rate

\* Everything is shared out: the whole debt buys no more than the balance.
LEMMA SharedIsThere ==
    ASSUME NEW balance \in Nat, NEW debt \in Nat \ {0}, NEW n \in Nat \ {0}
    PROVE  (debt * ((balance * n) \div debt)) \div n <= balance
<1> DEFINE rate == (balance * n) \div debt
<1>1. balance * n \in Nat
  BY ProductIsNat
<1>2. rate \in Nat /\ rate * debt <= balance * n
  BY <1>1, DivisionIsNat, DivisionTruncates
<1> HIDE DEF rate
<1>3. debt * rate \in Nat /\ debt * rate <= balance * n
  BY <1>2, ProductIsNat
<1>4. (debt * rate) \div n <= balance
  BY <1>3, DivisionAtMost
<1> QED
  BY <1>4 DEF rate

LEMMA DebtIsNat ==
    ASSUME FrozenOK, NEW n \in Nat
    PROVE  Debt(n) \in Nat
  BY SettlementAssumption, ProductIsNat, DivisionIsNat DEF FrozenOK, Debt

LEMMA LeftOverDebtIsNat ==
    ASSUME FrozenOK, stablecoins \in Nat
    PROVE  LeftOverDebt \in Nat
<1> DEFINE debts == [v \in VaultIDs |-> vaultData[v].debt]
<1>1. debts \in [VaultIDs -> Nat]
  BY DEF FrozenOK
<1>2. TotalOf(debts) \in Nat
  <2> HIDE DEF debts
  <2> QED
    BY <1>1, SettlementAssumption, FiniteUnits, SumIsNat
<1>3. TotalDebt \in Nat
  <2> HIDE DEF debts
  <2>1. Debt(TotalOf(debts)) \in Nat
    BY <1>2, DebtIsNat
  <2> QED
    BY <2>1 DEF TotalDebt, debts
<1> QED
  BY <1>3 DEF LeftOverDebt

LEMMA RedeemedIsNat ==
    ASSUME FrozenOK, NEW n \in Nat
    PROVE  RedeemedFor(n) \in Nat
  BY SettlementAssumption, ProductIsNat, DivisionIsNat DEF FrozenOK, RedeemedFor

-----------------------------------------------------------------------------
\* The invariant holds at first.

LEMMA HeldInit == SettlementInit => HeldInv
<1> SUFFICES ASSUME SettlementInit PROVE HeldInv
  OBVIOUS
<1> USE SettlementAssumption DEF SettlementInit
<1>1. FrozenOK
  BY DEF FrozenOK
<1>2. TotalOf([v \in VaultIDs |-> vaultData[v].collat]) \in Nat
  <2> DEFINE collats == [v \in VaultIDs |-> vaultData[v].collat]
  <2>1. collats \in [VaultIDs -> Nat]
    OBVIOUS
  <2> HIDE DEF collats
  <2>2. TotalOf(collats) \in Nat
    BY <2>1, FiniteUnits, SumIsNat
  <2> QED
    BY <2>2 DEF collats
<1>3. \A v \in VaultIDs : vaultData[v].collat \in Nat
  OBVIOUS
<1>4. collateral \in Nat
  BY <1>2
<1>5. HeldOK(Undoable)
  <2>1. wallets \in [Users -> Nat] /\ paidFor \in [VaultIDs -> Nat]
    OBVIOUS
  <2>2. \A v \in VaultIDs : paidFor[v] = 0
    OBVIOUS
  <2> QED
    BY <1>3, <1>4, <2>1, <2>2 DEF HeldOK, Undoable
<1>6. CallsOK
  BY DEF CallsOK, Idle
<1>7. PhaseInv
  BY DEF PhaseInv
<1> QED
  BY <1>1, <1>5, <1>6, <1>7 DEF HeldInv

LEMMA PeriodInit == SettlementInit => PeriodInv
  BY DEF SettlementInit, PeriodInv

-----------------------------------------------------------------------------
\* What a step leaves of the invariant when it only moves what Undoable holds.

\* The frozen part, and the order of activations, go together with their variables.
PhaseVars == <<vaultData, frozenVars, rateVars, timeVars>>

LEMMA PhaseKept ==
    ASSUME FrozenOK, PhaseInv, UNCHANGED PhaseVars
    PROVE  FrozenOK' /\ PhaseInv'
  BY DEF FrozenOK, PhaseInv, PhaseVars, frozenVars, rateVars, timeVars

LEMMA SavedKept ==
    ASSUME CallsOK, vaultData' = vaultData, UNCHANGED callVars
    PROVE  CallsOK'
  BY DEF CallsOK, HeldOK, callVars, Idle

\* A call begins: the outermost one saves what it finds.
LEMMA CallBegins ==
    ASSUME HeldInv, NEW u \in Users, NEW due \in Nat, vaultData' = vaultData,
           calls' = Append(calls, [from |-> u, due |-> due]),
           saved' = IF Idle THEN {Undoable} ELSE saved
    PROVE  CallsOK'
<1> DEFINE Call == [from : Users, due : Nat]
           call == [from |-> u, due |-> due]
<1>1. call \in Call
  OBVIOUS
<1>2. calls \in Seq(Call)
  BY DEF HeldInv, CallsOK
<1>3. calls' \in Seq(Call) /\ calls' # << >>
  <2> HIDE DEF Call, call
  <2>1. Append(calls, call) \in Seq(Call) /\ Len(Append(calls, call)) = Len(calls) + 1
        /\ Len(calls) \in Nat
    BY <1>1, <1>2
  <2>2. Len(Append(calls, call)) # 0
    BY <2>1
  <2> QED
    BY <2>1, <2>2 DEF call
<1>4. \E s \in saved' : TRUE
  BY DEF HeldInv, CallsOK
<1>5. \A s \in saved' : HeldOK(s)'
  <2>1. \A s \in saved' : HeldOK(s)
    BY DEF HeldInv, CallsOK
  <2> QED
    BY <2>1 DEF HeldOK
<1> QED
  BY <1>3, <1>4, <1>5 DEF CallsOK, Idle

\* The last call that began ends.
LEMMA CallEnds ==
    ASSUME HeldInv, vaultData' = vaultData, ~Idle,
           calls' = SubSeq(calls, 1, Len(calls) - 1),
           saved' = IF Len(calls) = 1 THEN {} ELSE saved
    PROVE  CallsOK'
<1> DEFINE Call == [from : Users, due : Nat]
<1>1. calls \in Seq(Call) /\ calls # << >>
  BY DEF HeldInv, CallsOK, Idle
<1>2. calls' \in Seq(Call) /\ (calls' = << >> <=> Len(calls) = 1)
  <2> HIDE DEF Call
  <2>1. Len(calls) \in Nat \ {0}
    BY <1>1
  <2>2. SubSeq(calls, 1, Len(calls) - 1) \in Seq(Call)
        /\ Len(SubSeq(calls, 1, Len(calls) - 1)) = Len(calls) - 1
    <3>1. \A i \in 1..(Len(calls) - 1) : calls[i] \in Call
      BY <1>1, <2>1, ElementOfSeq
    <3> DEFINE n == Len(calls) - 1
    <3>2. n \in Nat
      BY <2>1
    <3> HIDE DEF n
    <3>3. SubSeq(calls, 1, n) \in Seq(Call)
          /\ Len(SubSeq(calls, 1, n)) = IF 1 <= n THEN n - 1 + 1 ELSE 0
      <4>1. \A i \in 1..n : calls[i] \in Call
        BY <3>1 DEF n
      <4> QED
        BY <3>2, <4>1, SubSeqProperties
    <3>4. SubSeq(calls, 1, n) \in Seq(Call) /\ Len(SubSeq(calls, 1, n)) = n
      BY <3>2, <3>3
    <3> QED
      BY <3>4 DEF n
  <2>3. calls' = << >> <=> Len(calls') = 0
    BY <2>2, EmptySeq
  <2> QED
    BY <2>1, <2>2, <2>3
<1>3. Idle' <=> Len(calls) = 1
  BY <1>2 DEF Idle
<1>4. \A s \in saved' : HeldOK(s)'
  BY DEF HeldInv, CallsOK, HeldOK
<1>5. (\E s \in saved' : TRUE) <=> Len(calls) # 1
  BY DEF HeldInv, CallsOK
<1> QED
  BY <1>2, <1>3, <1>4, <1>5 DEF CallsOK

-----------------------------------------------------------------------------
\* Every step keeps it.

\* HeldInv, from what a step does to what Undoable holds.
LEMMA HeldFromParts ==
    ASSUME FrozenOK', PhaseInv', CallsOK', HeldOK(Undoable)'
    PROVE  HeldInv'
  BY DEF HeldInv

LEMMA HeldUnmoved ==
    ASSUME HeldInv, UNCHANGED <<owner, vaultData, claimVars, tokenVars>>
    PROVE  HeldOK(Undoable)'
  BY DEF HeldInv, HeldOK, Undoable, claimVars, tokenVars

LEMMA ClaimHeld ==
    ASSUME HeldInv, NEW u \in Users, NEW v \in VaultIDs, ClaimOverCollateralizedVault(u, v)
    PROVE  HeldInv'
<1> USE DEF HeldInv
<1>1. UNCHANGED PhaseVars /\ UNCHANGED <<owner, stablecoins, wallets, redeemed>>
  BY DEF ClaimOverCollateralizedVault, HandleRepay, PhaseVars
<1>2. FrozenOK' /\ PhaseInv'
  BY <1>1, PhaseKept
<1>3. CallsOK'
  <2>1. Debt(vaultData[v].debt) \in Nat
    BY DebtIsNat DEF FrozenOK
  <2> QED
    BY <1>1, <2>1, CallBegins DEF ClaimOverCollateralizedVault, HandleRepay, PhaseVars
<1>4. HeldOK(Undoable)'
  <2>1. vaultData[v].collat \in Nat
    BY DEF FrozenOK
  <2>2. paidFor \in [VaultIDs -> Nat] /\ paidFor[v] = 0
    BY DEF ClaimOverCollateralizedVault, HeldOK, Undoable
  <2>3. /\ paidFor' \in [VaultIDs -> Nat] /\ paidFor'[v] = vaultData[v].collat
        /\ \A w \in VaultIDs : w # v => paidFor'[w] = paidFor[w]
    BY <2>1, <2>2 DEF ClaimOverCollateralizedVault
  <2>4. vaultCheck' = vaultCheck \cup {v} /\ vaultCheck \subseteq VaultIDs
    BY DEF ClaimOverCollateralizedVault, HeldOK, Undoable
  <2>5. collateral' \in Nat
    BY <2>1 DEF ClaimOverCollateralizedVault, HandleRepay, HeldOK, Undoable
  <2>6. vaultData' = vaultData
    BY <1>1 DEF PhaseVars
  <2>7. \A w \in VaultIDs :
           /\ paidFor'[w] <= vaultData[w].collat
           /\ w \notin vaultCheck' => paidFor'[w] = 0
    BY <2>1, <2>3, <2>4 DEF HeldOK, Undoable
  <2> QED
    BY <1>1, <2>3, <2>4, <2>5, <2>6, <2>7 DEF HeldOK, Undoable
<1> QED
  BY <1>2, <1>3, <1>4, HeldFromParts

LEMMA RedemptionHeld ==
    ASSUME HeldInv, NEW u \in Users, NEW amount \in Nat,
           ClaimCollateralFromStablecoins(u, amount)
    PROVE  HeldInv'
<1> USE DEF HeldInv
<1>1. UNCHANGED PhaseVars /\ UNCHANGED <<owner, stablecoins, wallets, vaultCheck, paidFor>>
  BY DEF ClaimCollateralFromStablecoins, HandleRepay, PhaseVars
<1>2. FrozenOK' /\ PhaseInv'
  BY <1>1, PhaseKept
<1>3. CallsOK'
  BY <1>1, CallBegins DEF ClaimCollateralFromStablecoins, HandleRepay, PhaseVars
<1>4. collateral' \in Nat /\ redeemed' \in Nat
  <2>1. RedeemedFor(amount) \in Nat
    BY RedeemedIsNat
  <2>2. collateral \in Nat /\ redeemed \in Nat
    BY DEF HeldOK, Undoable
  <2> QED
    BY <2>1, <2>2 DEF ClaimCollateralFromStablecoins, HandleRepay
<1>5. HeldOK(Undoable)'
  BY <1>1, <1>4 DEF HeldOK, Undoable, PhaseVars
<1> QED
  BY <1>2, <1>3, <1>5, HeldFromParts

LEMMA SettleHeld ==
    ASSUME HeldInv, Settle
    PROVE  HeldInv'
<1> USE DEF HeldInv
<1>1. UNCHANGED PhaseVars /\ UNCHANGED <<owner, vaultCheck, paidFor, redeemed, collateral>>
  BY DEF Settle, PhaseVars, claimVars
<1>2. FrozenOK' /\ PhaseInv'
  BY <1>1, PhaseKept
<1>3. CallsOK'
  BY <1>1, CallEnds DEF Settle, PhaseVars
<1> DEFINE call == calls[Len(calls)]
<1>4. call.from \in Users /\ call.due \in Nat
  <2>1. calls \in Seq([from : Users, due : Nat]) /\ calls # << >>
    BY DEF CallsOK, Settle, Idle
  <2>2. Len(calls) \in 1..Len(calls)
    BY <2>1, EmptySeq
  <2>3. call \in [from : Users, due : Nat]
    BY <2>1, <2>2, ElementOfSeq
  <2> QED
    BY <2>3
<1>5. /\ wallets[call.from] >= call.due
      /\ wallets' = [wallets EXCEPT ![call.from] = @ - call.due]
      /\ stablecoins' = stablecoins + call.due
  BY DEF Settle
<1> HIDE DEF call
<1>6. wallets \in [Users -> Nat] /\ stablecoins \in Nat
  BY DEF HeldOK, Undoable
<1>7. wallets' \in [Users -> Nat] /\ stablecoins' \in Nat
  BY <1>4, <1>5, <1>6
<1>8. HeldOK(Undoable)'
  BY <1>1, <1>7 DEF HeldOK, Undoable, PhaseVars
<1> QED
  BY <1>2, <1>3, <1>8, HeldFromParts

LEMMA RevertHeld ==
    ASSUME HeldInv, Revert
    PROVE  HeldInv'
<1> USE DEF HeldInv
<1>1. UNCHANGED PhaseVars
  BY DEF Revert, PhaseVars
<1>2. FrozenOK' /\ PhaseInv'
  BY <1>1, PhaseKept
<1>3. CallsOK'
  BY EmptySeq DEF Revert, CallsOK, Idle
<1>4. PICK s \in saved :
          /\ vaultCheck' = s.vaultCheck /\ paidFor' = s.paidFor /\ redeemed' = s.redeemed
          /\ collateral' = s.collateral /\ stablecoins' = s.stablecoins
          /\ wallets' = s.wallets /\ owner' = s.owner
  BY DEF Revert
<1>5. HeldOK(s)
  BY DEF CallsOK
<1>6. HeldOK(Undoable)'
  BY <1>1, <1>4, <1>5 DEF HeldOK, Undoable, PhaseVars
<1> QED
  BY <1>2, <1>3, <1>6, HeldFromParts

LEMMA ActivationHeld ==
    ASSUME HeldInv, NEW price \in Prices, NEW accumulator \in Accumulators,
           ActivateSettlement(price, accumulator)
    PROVE  HeldInv'
<1> USE DEF HeldInv, ActivateSettlement
<1>1. HeldOK(Undoable)' /\ CallsOK'
  BY HeldUnmoved, SavedKept
<1>2. price \in Nat \ {0} /\ accumulator \in Nat
  BY SettlementAssumption
<1>3. FrozenOK' /\ PhaseInv'
  BY <1>2 DEF FrozenOK, PhaseInv, rateVars
<1> QED
  BY <1>1, <1>3, HeldFromParts

\* The rate shares what is there, or is the value of a stablecoin.
LEMMA RateIsNat ==
    ASSUME HeldInv, activated
    PROVE  /\ MaxRate \in Nat
           /\ \A debt \in Nat \ {0} :
                 Shared(collateral, debt) \in Nat /\ Worth(debt) \in Nat
<1>1. oracleValue \in Nat \ {0} /\ collateral \in Nat
  BY DEF HeldInv, PhaseInv, FrozenOK, HeldOK, Undoable
<1>2. BASE_STABLECOIN \in Nat /\ CollatBase \in Nat
  BY SettlementAssumption
<1>3. MaxRate \in Nat
  BY <1>1, <1>2, ProductIsNat, DivisionIsNat DEF MaxRate
<1>4. ASSUME NEW debt \in Nat \ {0}
      PROVE  Shared(collateral, debt) \in Nat /\ Worth(debt) \in Nat
  BY <1>1, <1>2, ProductIsNat, DivisionIsNat DEF Shared, Worth
<1> QED
  BY <1>3, <1>4

LEMMA PeriodHeld ==
    ASSUME HeldInv, ActivateGlobalClaimPeriod
    PROVE  HeldInv'
<1> USE DEF HeldInv
<1>1. UNCHANGED <<owner, vaultData, vaultCheck, paidFor, collateral, stablecoins, wallets>>
      /\ UNCHANGED callVars /\ UNCHANGED frozenVars /\ redeemed' = 0
      /\ activations' = activations /\ now' = now
  BY DEF ActivateGlobalClaimPeriod, tokenVars
<1>2. HeldOK(Undoable)' /\ CallsOK'
  BY <1>1, SavedKept DEF HeldOK, Undoable
<1>3. LeftOverDebt \in Nat
  BY LeftOverDebtIsNat DEF HeldOK, Undoable
<1>4. activated /\ collateral \in Nat
  BY DEF ActivateGlobalClaimPeriod, HeldOK, Undoable
<1>5. collateralStablecoinExchangeRate' \in Nat /\ leftOverCollateral' \in Nat
  <2>1. CASE LeftOverDebt = 0
    BY <2>1 DEF ActivateGlobalClaimPeriod, FrozenOK
  <2>2. CASE LeftOverDebt # 0
    <3>1. /\ MaxRate \in Nat
          /\ Shared(collateral, LeftOverDebt) \in Nat /\ Worth(LeftOverDebt) \in Nat
      BY <1>3, <1>4, <2>2, RateIsNat
    <3> HIDE DEF HeldInv
    <3>2. leftOverCollateral \in Nat
      BY DEF HeldInv, FrozenOK
    <3>3. CASE Shared(collateral, LeftOverDebt) >= MaxRate
      BY <1>4, <2>2, <3>1, <3>3 DEF ActivateGlobalClaimPeriod
    <3>4. CASE ~(Shared(collateral, LeftOverDebt) >= MaxRate)
      BY <2>2, <3>1, <3>2, <3>4 DEF ActivateGlobalClaimPeriod
    <3> QED
      BY <3>3, <3>4
  <2> QED
    BY <2>1, <2>2
<1>6. covered' \in Nat /\ claimPeriods' = claimPeriods + 1 /\ exchangeRateComputed' = TRUE
  BY <1>3 DEF ActivateGlobalClaimPeriod
<1>7. FrozenOK'
  BY <1>1, <1>5, <1>6 DEF FrozenOK, frozenVars
<1>8. PhaseInv'
  BY <1>1, <1>4, <1>6 DEF PhaseInv, FrozenOK, frozenVars
<1> QED
  BY <1>2, <1>7, <1>8, HeldFromParts

LEMMA RecoveryHeld ==
    ASSUME HeldInv, NEW amount \in Nat, RecoverCollateral(amount)
    PROVE  HeldInv'
<1> USE DEF HeldInv
<1>1. HeldOK(Undoable)'
  BY DEF RecoverCollateral, HeldOK, Undoable, claimVars
<1>2. CallsOK'
  BY SavedKept DEF RecoverCollateral
<1>3. FrozenOK'
  BY DEF RecoverCollateral, FrozenOK, frozenVars, timeVars
<1>4. PhaseInv'
  BY DEF RecoverCollateral, PhaseInv, frozenVars, timeVars
<1> QED
  BY <1>1, <1>2, <1>3, <1>4, HeldFromParts

LEMMA WalletsHeld ==
    ASSUME HeldInv, NEW u \in Users, NEW to \in Users, NEW amount \in Nat,
           RecoverStablecoins(u, amount) \/ Pay(u, to, amount)
    PROVE  HeldInv'
<1> USE DEF HeldInv
<1>1. UNCHANGED PhaseVars /\ UNCHANGED callVars
      /\ UNCHANGED <<owner, vaultCheck, paidFor, redeemed, collateral>>
  BY DEF RecoverStablecoins, Pay, PhaseVars, claimVars
<1>2. FrozenOK' /\ PhaseInv' /\ CallsOK'
  BY <1>1, PhaseKept, SavedKept DEF PhaseVars
<1>3. wallets \in [Users -> Nat] /\ stablecoins \in Nat
  BY DEF HeldOK, Undoable
<1>4. wallets' \in [Users -> Nat] /\ stablecoins' \in Nat
  <2>1. CASE RecoverStablecoins(u, amount)
    BY <1>3, <2>1 DEF RecoverStablecoins
  <2>2. CASE Pay(u, to, amount)
    BY <1>3, <2>2 DEF Pay
  <2> QED
    BY <2>1, <2>2
<1>5. HeldOK(Undoable)'
  BY <1>1, <1>4 DEF HeldOK, Undoable, PhaseVars
<1> QED
  BY <1>2, <1>5, HeldFromParts

LEMMA TransferHeld ==
    ASSUME HeldInv, NEW v \in VaultIDs, NEW to \in Users, TransferVault(v, to)
    PROVE  HeldInv'
<1> USE DEF HeldInv
<1>1. FrozenOK' /\ PhaseInv' /\ CallsOK'
  BY PhaseKept, SavedKept DEF TransferVault, PhaseVars
<1>2. HeldOK(Undoable)'
  BY DEF TransferVault, HeldOK, Undoable, claimVars, tokenVars
<1> QED
  BY <1>1, <1>2, HeldFromParts

LEMMA TickHeld ==
    ASSUME HeldInv, Tick
    PROVE  HeldInv'
<1> USE DEF HeldInv
<1>1. CallsOK' /\ HeldOK(Undoable)'
  BY SavedKept, HeldUnmoved DEF Tick
<1>2. FrozenOK' /\ PhaseInv'
  BY DEF Tick, FrozenOK, PhaseInv, frozenVars, rateVars
<1> QED
  BY <1>1, <1>2, HeldFromParts

LEMMA HeldStep == HeldInv /\ [SettlementNext]_settlementVars => HeldInv'
<1> SUFFICES ASSUME HeldInv, [SettlementNext]_settlementVars PROVE HeldInv'
  OBVIOUS
<1>1. \A amount \in Amounts : amount \in Nat
  BY SettlementAssumption
<1>2. CASE UNCHANGED settlementVars
  <2>1. UNCHANGED PhaseVars /\ UNCHANGED callVars
        /\ UNCHANGED <<owner, vaultData, claimVars, tokenVars>>
    BY <1>2 DEF settlementVars, PhaseVars
  <2> QED
    BY <2>1, PhaseKept, SavedKept, HeldUnmoved, HeldFromParts DEF HeldInv
<1>3. CASE SettlementNext
  <2>1. CASE \E price \in Prices, accumulator \in Accumulators :
                ActivateSettlement(price, accumulator)
    BY <2>1, ActivationHeld
  <2>2. CASE \E u \in Users, v \in VaultIDs :
                ClaimOverCollateralizedVault(u, v) \/ TransferVault(v, u)
    BY <2>2, ClaimHeld, TransferHeld
  <2>3. CASE ActivateGlobalClaimPeriod
    BY <2>3, PeriodHeld
  <2>4. CASE \E u \in Users, amount \in Amounts :
                \/ ClaimCollateralFromStablecoins(u, amount)
                \/ RecoverStablecoins(u, amount)
                \/ \E to \in Users : Pay(u, to, amount)
    BY <1>1, <2>4, RedemptionHeld, WalletsHeld
  <2>5. CASE \E amount \in Amounts : RecoverCollateral(amount)
    BY <1>1, <2>5, RecoveryHeld
  <2>6. CASE Settle
    BY <2>6, SettleHeld
  <2>7. CASE Revert
    BY <2>7, RevertHeld
  <2>8. CASE Tick
    BY <2>8, TickHeld
  <2> QED
    BY <1>3, <2>1, <2>2, <2>3, <2>4, <2>5, <2>6, <2>7, <2>8 DEF SettlementNext
<1> QED
  BY <1>2, <1>3

-----------------------------------------------------------------------------
(***************************************************************************)
(* One winding down: redemptions stay covered.                             *)
(***************************************************************************)

\* Both activations were called once, the second for the rate in force.
Single == activations <= 1 /\ claimPeriods <= 1 /\ exchangeRateComputed

\* Steps that leave the rate and the phase alone.
LEMMA PeriodKept ==
    ASSUME HeldInv, PeriodInv, UNCHANGED <<frozenVars, rateVars, timeVars>>,
           saved' \subseteq saved \cup {Undoable}, Single => CoveredIn(Undoable)'
    PROVE  PeriodInv'
<1> SUFFICES ASSUME Single' PROVE ~InTime' /\ CoveredIn(Undoable)' /\ \A s \in saved' : CoveredIn(s)'
  BY DEF PeriodInv, Single
<1>1. Single
  BY DEF Single, rateVars, timeVars
<1>2. ~InTime /\ CoveredIn(Undoable) /\ \A s \in saved : CoveredIn(s)
  BY <1>1 DEF PeriodInv, Single
<1>3. ~InTime'
  BY <1>2 DEF InTime, frozenVars, timeVars
<1>4. ASSUME NEW s, CoveredIn(s) PROVE CoveredIn(s)'
  BY <1>4 DEF CoveredIn, RedeemedFor, rateVars
<1>5. \A s \in saved' : CoveredIn(s)'
  BY <1>2, <1>4
<1> QED
  BY <1>1, <1>3, <1>5

\* What is covered stays covered while nothing is redeemed and no collateral leaves.
LEMMA CoverUnmoved ==
    ASSUME PeriodInv, Single, UNCHANGED rateVars, redeemed' = redeemed, collateral' = collateral
    PROVE  CoveredIn(Undoable)'
  BY DEF PeriodInv, Single, CoveredIn, Undoable, RedeemedFor, rateVars

LEMMA RedemptionCovered ==
    ASSUME HeldInv, PeriodInv, NEW u \in Users, NEW amount \in Nat,
           ClaimCollateralFromStablecoins(u, amount)
    PROVE  PeriodInv'
<1>1. UNCHANGED <<frozenVars, rateVars, timeVars>> /\ saved' \subseteq saved \cup {Undoable}
  BY DEF ClaimCollateralFromStablecoins, HandleRepay
<1>2. /\ redeemed' = redeemed + amount
      /\ collateral' = collateral - RedeemedFor(amount)
  BY DEF ClaimCollateralFromStablecoins, HandleRepay
<1>3. ASSUME Single, redeemed' <= covered
      PROVE  RedeemedFor(covered - redeemed') + leftOverCollateral <= collateral'
  <2>1. /\ redeemed \in Nat /\ covered \in Nat /\ collateral \in Nat
        /\ leftOverCollateral \in Nat /\ collateralStablecoinExchangeRate \in Nat
    BY DEF HeldInv, HeldOK, FrozenOK, Undoable
  <2> DEFINE rest == covered - redeemed'
             rate == collateralStablecoinExchangeRate
  <2>2. rest \in Nat /\ covered - redeemed = rest + amount /\ redeemed <= covered
    BY <1>2, <1>3, <2>1
  <2>3. RedeemedFor(rest + amount) + leftOverCollateral <= collateral
    BY <1>3, <2>2 DEF PeriodInv, Single, CoveredIn, Undoable
  <2>4. RedeemedFor(rest) + RedeemedFor(amount) <= RedeemedFor(rest + amount)
    <3> HIDE DEF rest, rate
    <3>1. rest * rate \in Nat /\ amount * rate \in Nat
      BY <2>1, <2>2, ProductIsNat DEF rate
    <3>2. ((rest * rate) \div BASE_STABLECOIN) + ((amount * rate) \div BASE_STABLECOIN)
             <= (rest * rate + amount * rate) \div BASE_STABLECOIN
      BY <3>1, SettlementAssumption, FloorsAddUp
    <3>3. rest * rate + amount * rate = (rest + amount) * rate
      BY <2>1, <2>2 DEF rate
    <3> QED
      BY <3>2, <3>3 DEF RedeemedFor, rate
  <2>5. /\ RedeemedFor(rest) \in Nat /\ RedeemedFor(amount) \in Nat
        /\ RedeemedFor(rest + amount) \in Nat
    <3> HIDE DEF rest, rate
    <3> QED
      BY <2>2, RedeemedIsNat DEF HeldInv
  <2> HIDE DEF rest, rate
  <2>6. RedeemedFor(rest) + leftOverCollateral <= collateral - RedeemedFor(amount)
    BY <2>1, <2>3, <2>4, <2>5
  <2> QED
    BY <1>2, <2>6 DEF rest
<1>4. Single => CoveredIn(Undoable)'
  BY <1>1, <1>3 DEF CoveredIn, Undoable, RedeemedFor, rateVars
<1> QED
  BY <1>1, <1>4, PeriodKept

\* The rate is computed: shared out, or capped and the rest left over.
LEMMA RateCovers ==
    ASSUME HeldInv, PeriodInv, ActivateGlobalClaimPeriod
    PROVE  PeriodInv'
<1> SUFFICES ASSUME Single'
             PROVE  ~InTime' /\ CoveredIn(Undoable)' /\ \A s \in saved' : CoveredIn(s)'
  BY DEF PeriodInv, Single
<1>1. ~InTime'
  BY DEF ActivateGlobalClaimPeriod, InTime, frozenVars
<1>2. saved' = {}
  BY DEF ActivateGlobalClaimPeriod, HeldInv, CallsOK, callVars
<1>3. leftOverCollateral = 0
  <2>1. claimPeriods + 1 <= 1 /\ claimPeriods \in Nat
    BY DEF Single, ActivateGlobalClaimPeriod, HeldInv, FrozenOK
  <2>2. claimPeriods = 0
    BY <2>1
  <2> QED
    BY <2>2 DEF HeldInv, PhaseInv
<1> DEFINE debt == LeftOverDebt
           rate == collateralStablecoinExchangeRate'
<1>4. /\ debt \in Nat /\ collateral \in Nat
      /\ oracleValue \in Nat \ {0}
  BY LeftOverDebtIsNat
  DEF HeldInv, HeldOK, Undoable, FrozenOK, PhaseInv, ActivateGlobalClaimPeriod
<1>5. BASE_STABLECOIN \in Nat \ {0} /\ CollatBase \in Nat \ {0}
  BY SettlementAssumption
<1>6. covered' = debt /\ redeemed' = 0 /\ collateral' = collateral
  BY DEF ActivateGlobalClaimPeriod, tokenVars
<1>7. ((debt * rate) \div BASE_STABLECOIN) + leftOverCollateral' <= collateral
  <2>1. CASE debt = 0
    <3>1. rate = 0 /\ leftOverCollateral' = 0
      BY <1>3, <2>1 DEF ActivateGlobalClaimPeriod
    <3>2. debt * rate = 0
      BY <2>1, <3>1
    <3>3. 0 \div BASE_STABLECOIN = 0
      BY <1>5
    <3> HIDE DEF debt, rate
    <3> QED
      BY <1>4, <3>1, <3>2, <3>3
  <2>2. CASE debt # 0
    <3>1. debt \in Nat \ {0}
      BY <1>4, <2>2
    <3>2. CASE Shared(collateral, debt) >= MaxRate
      <4>1. /\ rate = MaxRate /\ leftOverCollateral' = collateral - Worth(debt)
        BY <2>2, <3>2 DEF ActivateGlobalClaimPeriod
      <4>2. (debt * MaxRate) \div BASE_STABLECOIN <= Worth(debt)
        <5> HIDE DEF debt, rate
        <5> QED
          BY <1>4, <1>5, TwoFloors DEF MaxRate, Worth
      <4>3. MaxRate \in Nat /\ Worth(debt) \in Nat
        <5> HIDE DEF debt, rate
        <5> QED
          BY <3>1, RateIsNat DEF ActivateGlobalClaimPeriod
      <4>4. (debt * MaxRate) \div BASE_STABLECOIN \in Nat
        <5> HIDE DEF debt, rate
        <5> QED
          BY <1>4, <1>5, <4>3, ProductIsNat, DivisionIsNat
      <4> HIDE DEF debt, rate
      <4> QED
        BY <1>4, <4>1, <4>2, <4>3, <4>4
    <3>3. CASE ~(Shared(collateral, debt) >= MaxRate)
      <4>1. rate = Shared(collateral, debt) /\ leftOverCollateral' = 0
        BY <1>3, <2>2, <3>3 DEF ActivateGlobalClaimPeriod
      <4> HIDE DEF debt, rate
      <4>2. (debt * Shared(collateral, debt)) \div BASE_STABLECOIN <= collateral
        BY <1>4, <1>5, <3>1, SharedIsThere DEF Shared
      <4>3. (debt * Shared(collateral, debt)) \div BASE_STABLECOIN \in Nat
        <5>1. Shared(collateral, debt) \in Nat
          BY <3>1, RateIsNat DEF ActivateGlobalClaimPeriod
        <5> QED
          BY <1>4, <1>5, <5>1, ProductIsNat, DivisionIsNat
      <4> QED
        BY <4>1, <4>2, <4>3
    <3> QED
      BY <3>2, <3>3
  <2> QED
    BY <2>1, <2>2
<1>8. CoveredIn(Undoable)'
  <2>1. debt - 0 = debt
    BY <1>4
  <2> HIDE DEF debt
  <2> QED
    BY <1>6, <1>7, <2>1 DEF CoveredIn, Undoable, RedeemedFor
<1> QED
  BY <1>1, <1>2, <1>8

LEMMA RecoveryCovered ==
    ASSUME HeldInv, PeriodInv, NEW amount \in Nat, RecoverCollateral(amount)
    PROVE  PeriodInv'
<1> SUFFICES ASSUME Single'
             PROVE  ~InTime' /\ CoveredIn(Undoable)' /\ \A s \in saved' : CoveredIn(s)'
  BY DEF PeriodInv, Single
<1>1. saved' = {}
  BY DEF RecoverCollateral, HeldInv, CallsOK, callVars
<1>2. Single
  BY DEF RecoverCollateral, Single, timeVars
<1>3. ~InTime'
  BY <1>2 DEF RecoverCollateral, PeriodInv, Single, InTime, frozenVars, timeVars
<1>4. CoveredIn(Undoable)'
  <2> SUFFICES ASSUME redeemed <= covered
               PROVE  RedeemedFor(covered - redeemed) + leftOverCollateral' <= collateral'
    BY DEF RecoverCollateral, CoveredIn, Undoable, RedeemedFor, claimVars
  <2>1. RedeemedFor(covered - redeemed) + leftOverCollateral <= collateral
    BY <1>2 DEF PeriodInv, Single, CoveredIn, Undoable
  <2>2. redeemed \in Nat /\ covered \in Nat /\ collateral \in Nat /\ leftOverCollateral \in Nat
    BY DEF HeldInv, HeldOK, FrozenOK, Undoable
  <2>3. RedeemedFor(covered - redeemed) \in Nat
    <3>1. covered - redeemed \in Nat
      BY <2>2
    <3> QED
      BY <3>1, RedeemedIsNat DEF HeldInv
  <2> QED
    BY <2>1, <2>2, <2>3 DEF RecoverCollateral
<1> QED
  BY <1>1, <1>3, <1>4

\* A claim would have to be in time, a new activation would be the second.
LEMMA ClaimCovered ==
    ASSUME HeldInv, PeriodInv, NEW u \in Users, NEW v \in VaultIDs,
           ClaimOverCollateralizedVault(u, v)
    PROVE  PeriodInv'
<1>1. ~Single
  BY DEF ClaimOverCollateralizedVault, PeriodInv, Single
<1>2. ~Single'
  BY <1>1 DEF ClaimOverCollateralizedVault, HandleRepay, Single, rateVars, timeVars
<1> QED
  BY <1>2 DEF PeriodInv, Single

LEMMA ActivationCovered ==
    ASSUME HeldInv, PeriodInv, NEW price \in Prices, NEW accumulator \in Accumulators,
           ActivateSettlement(price, accumulator)
    PROVE  PeriodInv'
<1>1. ~Single'
  BY DEF ActivateSettlement, HeldInv, PhaseInv, FrozenOK, Single, rateVars
<1> QED
  BY <1>1 DEF PeriodInv, Single

LEMMA RevertCovered ==
    ASSUME HeldInv, PeriodInv, Revert
    PROVE  PeriodInv'
<1>1. UNCHANGED <<frozenVars, rateVars, timeVars>> /\ saved' = {}
  BY DEF Revert
<1>2. PICK s \in saved : redeemed' = s.redeemed /\ collateral' = s.collateral
  BY DEF Revert
<1>3. ASSUME Single PROVE CoveredIn(Undoable)'
  <2>1. CoveredIn(s)
    BY <1>3 DEF PeriodInv, Single
  <2> QED
    BY <1>1, <1>2, <2>1 DEF CoveredIn, Undoable, RedeemedFor, rateVars
<1> QED
  BY <1>1, <1>3, PeriodKept

LEMMA TickCovered ==
    ASSUME HeldInv, PeriodInv, Tick
    PROVE  PeriodInv'
<1> SUFFICES ASSUME Single'
             PROVE  ~InTime' /\ CoveredIn(Undoable)' /\ \A s \in saved' : CoveredIn(s)'
  BY DEF PeriodInv, Single
<1>1. Single
  BY DEF Tick, Single, rateVars
<1>2. saved' = {}
  BY DEF Tick, HeldInv, CallsOK, callVars
<1>3. CoveredIn(Undoable)'
  BY <1>1, CoverUnmoved DEF Tick, claimVars, tokenVars
<1>4. ~InTime'
  <2>1. ~InTime /\ activated
    BY <1>1 DEF PeriodInv, Single, HeldInv, PhaseInv
  <2>2. now \in Nat /\ activationTimestamp \in Nat /\ DURATION \in Nat
    BY SettlementAssumption DEF HeldInv, FrozenOK
  <2> QED
    BY <2>1, <2>2 DEF Tick, InTime, frozenVars
<1> QED
  BY <1>2, <1>3, <1>4

\* Stablecoins and vaults change hands.
LEMMA OthersCovered ==
    ASSUME HeldInv, PeriodInv, UNCHANGED <<frozenVars, rateVars, timeVars>>,
           saved' \subseteq saved, redeemed' = redeemed, collateral' = collateral
    PROVE  PeriodInv'
<1>1. Single => CoveredIn(Undoable)'
  BY CoverUnmoved
<1> QED
  BY <1>1, PeriodKept

LEMMA PeriodStep ==
    HeldInv /\ PeriodInv /\ [SettlementNext]_settlementVars => PeriodInv'
<1> SUFFICES ASSUME HeldInv, PeriodInv, [SettlementNext]_settlementVars PROVE PeriodInv'
  OBVIOUS
<1>1. \A amount \in Amounts : amount \in Nat
  BY SettlementAssumption
<1>2. CASE UNCHANGED settlementVars
  BY <1>2, OthersCovered DEF settlementVars, claimVars, tokenVars, callVars
<1>3. CASE SettlementNext
  <2>1. CASE \E price \in Prices, accumulator \in Accumulators :
                ActivateSettlement(price, accumulator)
    BY <2>1, ActivationCovered
  <2>2. ASSUME NEW u \in Users, NEW v \in VaultIDs, ClaimOverCollateralizedVault(u, v)
        PROVE  PeriodInv'
    BY <2>2, ClaimCovered
  <2>3. ASSUME NEW u \in Users, NEW v \in VaultIDs, TransferVault(v, u)
        PROVE  PeriodInv'
    BY <2>3, OthersCovered DEF TransferVault, claimVars, tokenVars, callVars
  <2>4. CASE ActivateGlobalClaimPeriod
    BY <2>4, RateCovers
  <2>5. ASSUME NEW u \in Users, NEW amount \in Amounts,
               ClaimCollateralFromStablecoins(u, amount)
        PROVE  PeriodInv'
    BY <1>1, <2>5, RedemptionCovered
  <2>6. ASSUME NEW u \in Users, NEW amount \in Amounts, RecoverStablecoins(u, amount)
        PROVE  PeriodInv'
    BY <2>6, OthersCovered DEF RecoverStablecoins, claimVars, callVars
  <2>7. ASSUME NEW u \in Users, NEW amount \in Amounts, NEW to \in Users, Pay(u, to, amount)
        PROVE  PeriodInv'
    BY <2>7, OthersCovered DEF Pay, claimVars, callVars
  <2>8. CASE \E amount \in Amounts : RecoverCollateral(amount)
    BY <1>1, <2>8, RecoveryCovered
  <2>9. CASE Settle
    BY <2>9, OthersCovered DEF Settle, claimVars
  <2>10. CASE Revert
    BY <2>10, RevertCovered
  <2>11. CASE Tick
    BY <2>11, TickCovered
  <2> QED
    BY <1>3, <2>1, <2>2, <2>3, <2>4, <2>5, <2>6, <2>7, <2>8, <2>9, <2>10, <2>11
    DEF SettlementNext
<1> QED
  BY <1>2, <1>3

-----------------------------------------------------------------------------
\* Theorems.

(***************************************************************************)
(* Every variable keeps its type: no balance underflows, and the leftover  *)
(* collateral of recoverERC20 and activateGlobalClaimPeriod neither.       *)
(***************************************************************************)
THEOREM SettlementTypesAreKept == SettlementSpec => []SettlementTypeOK
<1>1. HeldInv => SettlementTypeOK
  BY DEF HeldInv, HeldOK, FrozenOK, CallsOK, Undoable, SettlementTypeOK
<1> QED
  BY <1>1, HeldInit, HeldStep, PTL DEF SettlementSpec

(***************************************************************************)
(* However the call backs of the claims are nested, and whatever is        *)
(* claimed, sold or reverted in them, no vault is paid for twice: it is    *)
(* marked before its collateral leaves (Settlement.sol:137), and a revert  *)
(* that removes the mark also brings the collateral back.                  *)
(***************************************************************************)
THEOREM VaultsArePaidOnce == SettlementSpec => []PaidOnce
<1>1. HeldInv => PaidOnce
  BY DEF HeldInv, HeldOK, Undoable, PaidOnce
<1> QED
  BY <1>1, HeldInit, HeldStep, PTL DEF SettlementSpec

(***************************************************************************)
(* When governance activates the settlement and the claim period once, the *)
(* debt that the rate was computed for stays covered at this rate, with    *)
(* what governance may recover, for all bases and prices: the truncations  *)
(* of the rate, of the leftover and of each redemption favour the contract.*)
(***************************************************************************)
THEOREM RedemptionsStayCovered ==
    SettlementSpec => [](activations <= 1 /\ claimPeriods <= 1 => RedemptionsAreCovered)
<1>1. PeriodInv => (activations <= 1 /\ claimPeriods <= 1 => RedemptionsAreCovered)
  BY DEF PeriodInv, CoveredIn, Undoable, RedemptionsAreCovered
<1> QED
  BY <1>1, HeldInit, HeldStep, PeriodInit, PeriodStep, PTL DEF SettlementSpec

(***************************************************************************)
(* The comment on the leftover (Settlement.sol:165) holds when the price   *)
(* divides exactly: the collateral is worth the left over debt whenever    *)
(* the rate is capped.  Otherwise the cap is a truncated rate and the      *)
(* leftover can fall short (property CappedRateLeavesCollateral).          *)
(***************************************************************************)
THEOREM ExactPriceLeavesCollateral ==
    ASSUME NEW balance \in Nat, NEW debt \in Nat \ {0}, oracleValue \in Nat \ {0},
           MaxRate * oracleValue = BASE_STABLECOIN * CollatBase,
           Shared(balance, debt) >= MaxRate
    PROVE  balance >= Worth(debt)
<1> DEFINE n == BASE_STABLECOIN
           x == CollatBase
           p == oracleValue
           rate == MaxRate
<1>1. n \in Nat \ {0} /\ x \in Nat \ {0} /\ p \in Nat \ {0}
  BY SettlementAssumption
<1>2. rate \in Nat /\ rate * p = n * x
  BY <1>1, ProductIsNat, DivisionIsNat DEF MaxRate
<1>3. rate * debt <= balance * n
  <2>1. balance * n \in Nat
    BY <1>1, ProductIsNat
  <2>2. Shared(balance, debt) \in Nat /\ Shared(balance, debt) * debt <= balance * n
    BY <1>1, <2>1, DivisionIsNat, DivisionTruncates DEF Shared
  <2> HIDE DEF n, x, p, rate
  <2>3. rate <= Shared(balance, debt)
    BY <1>2, <2>2 DEF rate
  <2>4. debt * rate <= debt * Shared(balance, debt)
    BY <1>2, <2>2, <2>3, ProductMonotone
  <2>5. debt * rate \in Nat /\ debt * Shared(balance, debt) \in Nat
    BY <1>2, <2>2, ProductIsNat
  <2> QED
    BY <1>2, <2>1, <2>2, <2>4, <2>5
<1> HIDE DEF n, x, p, rate
<1>4. p * (rate * debt) <= p * (balance * n)
  BY <1>1, <1>2, <1>3, ProductIsNat, ProductMonotone
<1>5. p * (rate * debt) = n * (debt * x)
  BY <1>1, <1>2
<1>6. n * (debt * x) <= n * (balance * p)
  BY <1>1, <1>2, <1>4, <1>5
<1>7. debt * x \in Nat /\ balance * p \in Nat
  BY <1>1, ProductIsNat
<1>8. debt * x <= balance * p
  BY <1>1, <1>6, <1>7
<1>9. (debt * x) \div p <= balance
  BY <1>1, <1>7, <1>8, DivisionAtMost
<1> QED
  BY <1>9 DEF Worth, x, p

=============================================================================
