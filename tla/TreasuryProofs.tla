--------------------------- MODULE TreasuryProofs ---------------------------
(***************************************************************************)
(* Treasury.tla for every set of treasuries, VaultManagers, flash loan     *)
(* modules and amounts: the types, the books (every stablecoin has its     *)
(* counterpart), the backing of the surplus buffer, and losses first.      *)
(*                                                                         *)
(* They are one invariant.  A balance stays a natural number because what  *)
(* is paid out of it is part of a buffer that it backs; the buffer stays   *)
(* backed because a bad debt is never left beside it; and a flash loan that*)
(* is rolled back keeps all of it only if the saved state has it.          *)
(***************************************************************************)
EXTENDS Treasury, CountingProofs, SequenceTheorems

-----------------------------------------------------------------------------
\* Transfers, and the arithmetic of shares and fees.

\* A transfer of what the sender has, to itself or not, changes no sum.
LEMMA TransferKeepsTotal ==
    ASSUME NEW b \in [Accounts -> Nat], IsFiniteSet(UnitsOf(b)),
           NEW from \in Accounts, NEW to \in Accounts, NEW n \in Nat, n <= b[from],
           NEW g, g = Transferred(b, from, to, n)
    PROVE  /\ Changed(Accounts, b, g, 0)
           /\ \A a \in Accounts : a # from => g[a] >= b[a]
           /\ g[to] >= n
<1> DEFINE less == [b EXCEPT ![from] = @ - n]
<1>1. /\ less \in [Accounts -> Nat] /\ less[from] = b[from] - n
      /\ \A a \in Accounts : a # from => less[a] = b[a]
  OBVIOUS
<1>2. g = [less EXCEPT ![to] = @ + n]
  BY DEF Transferred, Minted, Burned
<1> HIDE DEF less
<1>3. /\ g \in [Accounts -> Nat] /\ g[to] = less[to] + n
      /\ \A a \in Accounts : a # to => g[a] = less[a]
  BY <1>1, <1>2
<1>4. Changed(Accounts, b, less, 0 - n)
  BY <1>1, ChangedAtOne
<1>5. IsFiniteSet(UnitsOf(less))
  BY <1>4 DEF Changed
<1>6. Changed(Accounts, less, g, n)
  BY <1>1, <1>3, <1>5, ChangedAtOne
<1>7. Changed(Accounts, b, g, 0)
  BY <1>4, <1>6 DEF Changed
<1>8. (\A a \in Accounts : a # from => g[a] >= b[a]) /\ g[to] >= n
  BY <1>1, <1>3
<1> QED
  BY <1>7, <1>8

\* A share of at most the whole.
LEMMA ShareOfBuffer ==
    ASSUME TreasuryAssumption, NEW share \in 0..BASE_9, NEW n \in Nat
    PROVE  (share * n) \div BASE_9 \in 0..n
<1>1. BASE_9 \in Nat \ {0}
  BY DEF TreasuryAssumption
<1>2. share * n \in Nat /\ share * n <= n * BASE_9
  BY <1>1, ProductIsNat, ProductMonotone
<1>3. (share * n) \div BASE_9 \in Nat /\ (share * n) \div BASE_9 <= n
  BY <1>1, <1>2, DivisionAtMost, DivisionIsNat
<1> QED
  BY <1>3

\* _updateSurplusAndBadDebt, on a balance, a buffer it backs and losses: what is
\* burnt is there, what is left backs the buffer that is left, and there is no
\* buffer left unless the losses are covered.
LEMMA Reconciled ==
    ASSUME NEW balance \in Nat, NEW buffer \in Nat, NEW losses \in Nat, buffer <= balance
    PROVE  LET burnt == ToBurn(balance, losses)
               after == BufferAfterBurn(buffer, burnt)
           IN /\ burnt \in Nat /\ burnt <= losses /\ burnt <= balance
              /\ after \in Nat /\ after <= buffer /\ after <= balance - burnt
              /\ losses - burnt # 0 => after = 0
  BY DEF ToBurn, BufferAfterBurn, Excess

-----------------------------------------------------------------------------
(***************************************************************************)
(* The invariant                                                           *)
(***************************************************************************)

\* What the theorems say of a state, or of a state that a rollback restores:
\* debts, surpluses, losses, balances, bad debts, buffers, the stablecoins of
\* other minters, those burnt for nothing, and those a flash loan has minted.
BooksOK(d, s, l, b, bad, buffer, others, burnt, flight) ==
    /\ d \in [VaultManagers -> Nat] /\ s \in [VaultManagers -> Nat]
    /\ l \in [VaultManagers -> Nat] /\ b \in [Accounts -> Nat]
    /\ bad \in [Treasuries -> Nat] /\ buffer \in [Treasuries -> Nat]
    /\ others \in Nat /\ burnt \in Nat
    /\ IsFiniteSet(UnitsOf(d)) /\ IsFiniteSet(UnitsOf(s)) /\ IsFiniteSet(UnitsOf(l))
    /\ IsFiniteSet(UnitsOf(b)) /\ IsFiniteSet(UnitsOf(bad))
    /\ TotalOf(b) + TotalOf(s) + burnt
         = TotalOf(d) + TotalOf(l) + TotalOf(bad) + others + flight
    /\ \A t \in Treasuries : buffer[t] <= b[t]
    /\ \A t \in Treasuries : bad[t] # 0 => buffer[t] = 0

BooksInv ==
    BooksOK(debt, surplus, lost, balanceOf, badDebt, surplusBuffer, issued, renounced,
            loan.amount)

SavedBooks(st) ==
    BooksOK(st.debt, st.surplus, st.lost, st.balanceOf, st.badDebt, st.surplusBuffer,
            st.issued, st.renounced, 0)

LoanType == [module : FlashModules \union {NoModule}, amount : Nat, fee : Nat, steps : Nat]

\* The types of what is not in the books.
WiringInv ==
    /\ treasuryOf \in [VaultManagers -> Treasuries]
    /\ vaultManagerList \in [Treasuries -> Seq(VaultManagers)]
    /\ vaultManagerMap \in [Treasuries -> SUBSET VaultManagers]
    /\ flashLoanModule \in [Treasuries -> FlashModules \union {NoModule}]
    /\ surplusManager \in [Treasuries -> {Recipient, NoManager}]
    /\ surplusForGovernance \in [Treasuries -> 0..BASE_9]
    /\ coreModule \in FlashModules \union {NoModule}
    /\ flashLoaners \subseteq Treasuries
    /\ isMinter \subseteq Minters
    /\ tokenTreasury \in Treasuries
    /\ supported \in [FlashModules -> Treasuries \union {NoTreasury}]
    /\ flashLoanFee \in [FlashModules -> 0..BASE_PARAMS]
    /\ maxBorrowable \in [FlashModules -> Nat]

LoanInv ==
    /\ loan \in LoanType
    /\ loan # NoLoan => loan.module \in FlashModules
    /\ IF loan = NoLoan THEN saved = NoSnapshot ELSE StateTypes(saved) /\ SavedBooks(saved)

LedgerInv == BooksInv /\ WiringInv /\ LoanInv

\* The types of a state are those of its books and of its wiring.
LEMMA SnapshotTypes ==
    ASSUME BooksInv, WiringInv
    PROVE  StateTypes(Snapshot) /\ (loan.amount = 0 => SavedBooks(Snapshot))
<1>1. StateTypes(Snapshot)
  BY DEF BooksInv, BooksOK, WiringInv, StateTypes, Snapshot
<1>2. ASSUME loan.amount = 0 PROVE SavedBooks(Snapshot)
  BY <1>2 DEF BooksInv, SavedBooks, Snapshot
<1> QED
  BY <1>1, <1>2

\* The properties follow from the invariant.
LEMMA LedgerImplies ==
    ASSUME LedgerInv
    PROVE  TypeOK /\ StablecoinsAddUp /\ BufferIsBacked /\ LossesComeFirst
<1>1. TypeOK
  BY SnapshotTypes DEF LedgerInv, LoanInv, TypeOK, LoanType
<1>2. StablecoinsAddUp
  BY DEF LedgerInv, BooksInv, BooksOK, StablecoinsAddUp, Backing
<1>3. BufferIsBacked /\ LossesComeFirst
  BY DEF LedgerInv, BooksInv, BooksOK, BufferIsBacked, LossesComeFirst
<1> QED
  BY <1>1, <1>2, <1>3

LEMMA InitialLedger ==
    ASSUME TreasuryAssumption, Init
    PROVE  LedgerInv
<1>1. \A V : LET zero == [x \in V |-> 0]
             IN IsFiniteSet(UnitsOf(zero)) /\ TotalOf(zero) = 0
  <2> TAKE V
  <2>1. [x \in V |-> 0] \in [V -> Nat]
    OBVIOUS
  <2> QED
    BY <2>1, TotalOfZero
<1>2. BooksInv
  BY <1>1 DEF Init, BooksInv, BooksOK, NoLoan
<1>3. WiringInv
  BY DEF Init, WiringInv, TreasuryAssumption
<1>4. LoanInv
  BY DEF Init, LoanInv, LoanType, NoLoan
<1> QED
  BY <1>2, <1>3, <1>4 DEF LedgerInv

-----------------------------------------------------------------------------
(***************************************************************************)
(* Users: nothing but the books, and nothing of a treasury, changes        *)
(***************************************************************************)

LEMMA PlacesOfAccounts ==
    ASSUME TreasuryAssumption
    PROVE  /\ Public \in Accounts /\ Recipient \in Accounts
           /\ Treasuries \subseteq Accounts /\ FlashModules \subseteq Accounts
           /\ Public \notin Treasuries /\ Recipient \notin Treasuries
  BY DEF TreasuryAssumption

\* The books after a step that changes their sums by b, s, d, l and e.
LEMMA BooksFromChanges ==
    ASSUME BooksInv, loan.amount \in Nat, loan'.amount \in Nat,
           NEW b, Changed(Accounts, balanceOf, balanceOf', b),
           NEW s, Changed(VaultManagers, surplus, surplus', s),
           NEW d, Changed(VaultManagers, debt, debt', d),
           NEW l, Changed(VaultManagers, lost, lost', l),
           NEW e, Changed(Treasuries, badDebt, badDebt', e),
           issued' \in Nat, renounced' \in Nat,
           surplusBuffer' \in [Treasuries -> Nat],
           \A t \in Treasuries : surplusBuffer'[t] <= balanceOf'[t],
           \A t \in Treasuries : badDebt'[t] # 0 => surplusBuffer'[t] = 0,
           b + s + renounced' - renounced
             = d + l + e + (issued' - issued) + (loan'.amount - loan.amount)
    PROVE  BooksInv'
<1>1. TotalOf(balanceOf') + TotalOf(surplus') + renounced'
        = TotalOf(debt') + TotalOf(lost') + TotalOf(badDebt') + issued' + loan'.amount
  BY DEF BooksInv, BooksOK, Changed
<1> QED
  BY <1>1 DEF BooksInv, BooksOK, Changed

\* What ChangedAtOne needs to know of them.
LEMMA BooksParts ==
    ASSUME BooksInv
    PROVE  /\ balanceOf \in [Accounts -> Nat] /\ IsFiniteSet(UnitsOf(balanceOf))
           /\ surplus \in [VaultManagers -> Nat] /\ IsFiniteSet(UnitsOf(surplus))
           /\ debt \in [VaultManagers -> Nat] /\ IsFiniteSet(UnitsOf(debt))
           /\ lost \in [VaultManagers -> Nat] /\ IsFiniteSet(UnitsOf(lost))
           /\ badDebt \in [Treasuries -> Nat] /\ IsFiniteSet(UnitsOf(badDebt))
  BY DEF BooksInv, BooksOK

\* The parts that a step leaves alone.
LEMMA BooksUnmoved ==
    ASSUME BooksInv
    PROVE  /\ Changed(Accounts, balanceOf, balanceOf, 0)
           /\ Changed(VaultManagers, surplus, surplus, 0)
           /\ Changed(VaultManagers, debt, debt, 0)
           /\ Changed(VaultManagers, lost, lost, 0)
           /\ Changed(Treasuries, badDebt, badDebt, 0)
  BY Unmoved DEF BooksInv, BooksOK

\* A loan in progress or not, a call does not change what it has minted.
LEMMA BorrowKeepsBooks ==
    ASSUME TreasuryAssumption, BooksInv, loan.amount \in Nat, loan'.amount = loan.amount,
           NEW vm \in VaultManagers, NEW amount \in Nat, NEW fee \in Nat,
           Borrow(vm, amount, fee)
    PROVE  BooksInv'
<1>1. Changed(Accounts, balanceOf, balanceOf', amount - fee)
  <2>1. /\ balanceOf' \in [Accounts -> Nat]
        /\ balanceOf'[Public] = balanceOf[Public] + (amount - fee)
        /\ \A a \in Accounts : a # Public => balanceOf'[a] = balanceOf[a]
    BY PlacesOfAccounts, BooksParts DEF Borrow, Minted, othersVars, bufferVars
  <2>2. balanceOf \in [Accounts -> Nat] /\ IsFiniteSet(UnitsOf(balanceOf)) /\ Public \in Accounts
    BY PlacesOfAccounts, BooksParts
  <2> QED
    BY <2>1, <2>2, ChangedAtOne
<1>2. Changed(VaultManagers, debt, debt', amount)
  <2>1. /\ debt' \in [VaultManagers -> Nat] /\ debt'[vm] = debt[vm] + amount
        /\ \A v \in VaultManagers : v # vm => debt'[v] = debt[v]
    BY BooksParts DEF Borrow, Minted, othersVars, bufferVars
  <2>2. debt \in [VaultManagers -> Nat] /\ IsFiniteSet(UnitsOf(debt))
    BY BooksParts
  <2> QED
    BY <2>1, <2>2, ChangedAtOne
<1>3. Changed(VaultManagers, surplus, surplus', fee)
  <2>1. /\ surplus' \in [VaultManagers -> Nat] /\ surplus'[vm] = surplus[vm] + fee
        /\ \A v \in VaultManagers : v # vm => surplus'[v] = surplus[v]
    BY BooksParts DEF Borrow, Minted, othersVars, bufferVars
  <2>2. surplus \in [VaultManagers -> Nat] /\ IsFiniteSet(UnitsOf(surplus))
    BY BooksParts
  <2> QED
    BY <2>1, <2>2, ChangedAtOne
<1>4. UNCHANGED <<lost, badDebt, surplusBuffer, issued, renounced>>
  BY DEF Borrow, Minted, othersVars, bufferVars
<1>5. /\ Changed(VaultManagers, lost, lost', 0)
      /\ Changed(Treasuries, badDebt, badDebt', 0)
  BY <1>4, BooksUnmoved
<1>6. \A t \in Treasuries : surplusBuffer'[t] <= balanceOf'[t]
  <2>1. \A t \in Treasuries : balanceOf'[t] = balanceOf[t]
    BY PlacesOfAccounts, BooksParts DEF Borrow, Minted, othersVars, bufferVars
  <2> QED
    BY <2>1, <1>4 DEF BooksInv, BooksOK
<1>7. /\ issued' \in Nat /\ renounced' \in Nat /\ surplusBuffer' \in [Treasuries -> Nat]
      /\ \A t \in Treasuries : badDebt'[t] # 0 => surplusBuffer'[t] = 0
      /\ (amount - fee) + fee + renounced' - renounced
           = amount + 0 + 0 + (issued' - issued) + (loan'.amount - loan.amount)
  BY <1>4 DEF BooksInv, BooksOK
<1> QED
  BY <1>1, <1>2, <1>3, <1>5, <1>6, <1>7, BooksFromChanges

\* What is burnt and the fee take the debt down to what is owed or lost.
LEMMA RepayKeepsBooks ==
    ASSUME TreasuryAssumption, BooksInv, loan.amount \in Nat, loan'.amount = loan.amount,
           NEW vm \in VaultManagers, NEW amount \in Nat, NEW fee \in Nat, NEW loss \in Nat,
           Repay(vm, amount, fee, loss)
    PROVE  BooksInv'
<1> DEFINE change == 0 - (amount - fee + loss)
<1>a. change \in Int /\ change = 0 - (amount - fee + loss)
  OBVIOUS
<1> HIDE DEF change
<1>1. Changed(Accounts, balanceOf, balanceOf', 0 - amount)
  <2>1. /\ balanceOf' \in [Accounts -> Nat] /\ balanceOf'[Public] = balanceOf[Public] + (0 - amount)
        /\ 0 - amount \in Int
        /\ \A a \in Accounts : a # Public => balanceOf'[a] = balanceOf[a]
    BY PlacesOfAccounts, BooksParts DEF Repay, Burned, othersVars, bufferVars
  <2>2. balanceOf \in [Accounts -> Nat] /\ IsFiniteSet(UnitsOf(balanceOf)) /\ Public \in Accounts
    BY PlacesOfAccounts, BooksParts
  <2> QED
    BY <2>1, <2>2, ChangedAtOne
<1>2. Changed(VaultManagers, debt, debt', change)
  <2>1. /\ debt' \in [VaultManagers -> Nat] /\ debt'[vm] = debt[vm] + change
        /\ \A v \in VaultManagers : v # vm => debt'[v] = debt[v]
    BY BooksParts DEF Repay, Burned, othersVars, bufferVars, change
  <2>2. debt \in [VaultManagers -> Nat] /\ IsFiniteSet(UnitsOf(debt))
    BY BooksParts
  <2> QED
    BY <1>a, <2>1, <2>2, ChangedAtOne
<1>3. Changed(VaultManagers, surplus, surplus', fee)
  <2>1. /\ surplus' \in [VaultManagers -> Nat] /\ surplus'[vm] = surplus[vm] + fee
        /\ \A v \in VaultManagers : v # vm => surplus'[v] = surplus[v]
    BY BooksParts DEF Repay, Burned, othersVars, bufferVars
  <2>2. surplus \in [VaultManagers -> Nat] /\ IsFiniteSet(UnitsOf(surplus))
    BY BooksParts
  <2> QED
    BY <2>1, <2>2, ChangedAtOne
<1>4. Changed(VaultManagers, lost, lost', loss)
  <2>1. /\ lost' \in [VaultManagers -> Nat] /\ lost'[vm] = lost[vm] + loss
        /\ \A v \in VaultManagers : v # vm => lost'[v] = lost[v]
    BY BooksParts DEF Repay, Burned, othersVars, bufferVars
  <2>2. lost \in [VaultManagers -> Nat] /\ IsFiniteSet(UnitsOf(lost))
    BY BooksParts
  <2> QED
    BY <2>1, <2>2, ChangedAtOne
<1>5. UNCHANGED <<badDebt, surplusBuffer, issued, renounced>>
  BY DEF Repay, Burned, othersVars, bufferVars
<1>6. /\ Changed(Treasuries, badDebt, badDebt', 0)
  BY <1>5, BooksUnmoved
<1>7. \A t \in Treasuries : surplusBuffer'[t] <= balanceOf'[t]
  <2>1. \A t \in Treasuries : balanceOf'[t] = balanceOf[t]
    BY PlacesOfAccounts, BooksParts DEF Repay, Burned, othersVars, bufferVars
  <2> QED
    BY <2>1, <1>5 DEF BooksInv, BooksOK
<1>8. /\ issued' \in Nat /\ renounced' \in Nat /\ surplusBuffer' \in [Treasuries -> Nat]
      /\ \A t \in Treasuries : badDebt'[t] # 0 => surplusBuffer'[t] = 0
      /\ (0 - amount) + fee + renounced' - renounced
           = change + loss + 0 + (issued' - issued) + (loan'.amount - loan.amount)
  BY <1>a, <1>5 DEF BooksInv, BooksOK
<1> QED
  BY <1>1, <1>2, <1>3, <1>4, <1>6, <1>7, <1>8, BooksFromChanges

\* Interest is owed to the surplus.
LEMMA EarnKeepsBooks ==
    ASSUME TreasuryAssumption, BooksInv, loan.amount \in Nat, loan'.amount = loan.amount,
           NEW vm \in VaultManagers, NEW interest \in Nat,
           Earn(vm, interest)
    PROVE  BooksInv'
<1>1. Changed(VaultManagers, debt, debt', interest)
  <2>1. /\ debt' \in [VaultManagers -> Nat] /\ debt'[vm] = debt[vm] + interest
        /\ \A v \in VaultManagers : v # vm => debt'[v] = debt[v]
    BY BooksParts DEF Earn, othersVars, bufferVars
  <2>2. debt \in [VaultManagers -> Nat] /\ IsFiniteSet(UnitsOf(debt))
    BY BooksParts
  <2> QED
    BY <2>1, <2>2, ChangedAtOne
<1>2. Changed(VaultManagers, surplus, surplus', interest)
  <2>1. /\ surplus' \in [VaultManagers -> Nat] /\ surplus'[vm] = surplus[vm] + interest
        /\ \A v \in VaultManagers : v # vm => surplus'[v] = surplus[v]
    BY BooksParts DEF Earn, othersVars, bufferVars
  <2>2. surplus \in [VaultManagers -> Nat] /\ IsFiniteSet(UnitsOf(surplus))
    BY BooksParts
  <2> QED
    BY <2>1, <2>2, ChangedAtOne
<1>3. UNCHANGED <<balanceOf, lost, badDebt, surplusBuffer, issued, renounced>>
  BY DEF Earn, othersVars, bufferVars
<1>4. /\ Changed(Accounts, balanceOf, balanceOf', 0)
      /\ Changed(VaultManagers, lost, lost', 0)
      /\ Changed(Treasuries, badDebt, badDebt', 0)
  BY <1>3, BooksUnmoved
<1>5. \A t \in Treasuries : surplusBuffer'[t] <= balanceOf'[t]
  BY <1>3 DEF BooksInv, BooksOK
<1>6. /\ issued' \in Nat /\ renounced' \in Nat /\ surplusBuffer' \in [Treasuries -> Nat]
      /\ \A t \in Treasuries : badDebt'[t] # 0 => surplusBuffer'[t] = 0
      /\ 0 + interest + renounced' - renounced
           = interest + 0 + 0 + (issued' - issued) + (loan'.amount - loan.amount)
  BY <1>3 DEF BooksInv, BooksOK
<1> QED
  BY <1>1, <1>2, <1>4, <1>5, <1>6, BooksFromChanges

\* What another minter mints or burns is what it answers for.
LEMMA IssueKeepsBooks ==
    ASSUME TreasuryAssumption, BooksInv, loan.amount \in Nat, loan'.amount = loan.amount,
           NEW minter, NEW amount \in Nat,
           Issue(minter, amount)
    PROVE  BooksInv'
<1>1. Changed(Accounts, balanceOf, balanceOf', amount)
  <2>1. /\ balanceOf' \in [Accounts -> Nat] /\ balanceOf'[Public] = balanceOf[Public] + amount
        /\ \A a \in Accounts : a # Public => balanceOf'[a] = balanceOf[a]
    BY PlacesOfAccounts, BooksParts DEF Issue, Minted, HoldersOnly, vmVars,
       bufferVars, othersVars
  <2>2. balanceOf \in [Accounts -> Nat] /\ IsFiniteSet(UnitsOf(balanceOf)) /\ Public \in Accounts
    BY PlacesOfAccounts, BooksParts
  <2> QED
    BY <2>1, <2>2, ChangedAtOne
<1>2. UNCHANGED <<debt, surplus, lost, badDebt, surplusBuffer>>
  BY DEF Issue, Minted, HoldersOnly, vmVars, bufferVars, othersVars
<1>3. /\ Changed(VaultManagers, surplus, surplus', 0)
      /\ Changed(VaultManagers, debt, debt', 0)
      /\ Changed(VaultManagers, lost, lost', 0)
      /\ Changed(Treasuries, badDebt, badDebt', 0)
  BY <1>2, BooksUnmoved
<1>4. \A t \in Treasuries : surplusBuffer'[t] <= balanceOf'[t]
  <2>1. \A t \in Treasuries : balanceOf'[t] = balanceOf[t]
    BY PlacesOfAccounts, BooksParts DEF Issue, Minted, HoldersOnly, vmVars, bufferVars, othersVars
  <2> QED
    BY <2>1, <1>2 DEF BooksInv, BooksOK
<1>5. /\ issued' \in Nat /\ renounced' \in Nat /\ surplusBuffer' \in [Treasuries -> Nat]
      /\ \A t \in Treasuries : badDebt'[t] # 0 => surplusBuffer'[t] = 0
      /\ amount + 0 + renounced' - renounced
           = 0 + 0 + 0 + (issued' - issued) + (loan'.amount - loan.amount)
  BY <1>2 DEF BooksInv, BooksOK, Issue, Minted, HoldersOnly, vmVars, bufferVars, othersVars
<1> QED
  BY <1>1, <1>3, <1>4, <1>5, BooksFromChanges

\* ... and what it takes back.
LEMMA RedeemKeepsBooks ==
    ASSUME TreasuryAssumption, BooksInv, loan.amount \in Nat, loan'.amount = loan.amount,
           NEW minter, NEW amount \in Nat,
           Redeem(minter, amount)
    PROVE  BooksInv'
<1>1. Changed(Accounts, balanceOf, balanceOf', 0 - amount)
  <2>1. /\ balanceOf' \in [Accounts -> Nat] /\ balanceOf'[Public] = balanceOf[Public] + (0 - amount)
        /\ 0 - amount \in Int
        /\ \A a \in Accounts : a # Public => balanceOf'[a] = balanceOf[a]
    BY PlacesOfAccounts, BooksParts DEF Redeem, Burned, HoldersOnly, vmVars,
       bufferVars, othersVars
  <2>2. balanceOf \in [Accounts -> Nat] /\ IsFiniteSet(UnitsOf(balanceOf)) /\ Public \in Accounts
    BY PlacesOfAccounts, BooksParts
  <2> QED
    BY <2>1, <2>2, ChangedAtOne
<1>2. UNCHANGED <<debt, surplus, lost, badDebt, surplusBuffer>>
  BY DEF Redeem, Burned, HoldersOnly, vmVars, bufferVars, othersVars
<1>3. /\ Changed(VaultManagers, surplus, surplus', 0)
      /\ Changed(VaultManagers, debt, debt', 0)
      /\ Changed(VaultManagers, lost, lost', 0)
      /\ Changed(Treasuries, badDebt, badDebt', 0)
  BY <1>2, BooksUnmoved
<1>4. \A t \in Treasuries : surplusBuffer'[t] <= balanceOf'[t]
  <2>1. \A t \in Treasuries : balanceOf'[t] = balanceOf[t]
    BY PlacesOfAccounts, BooksParts DEF Redeem, Burned, HoldersOnly, vmVars, bufferVars, othersVars
  <2> QED
    BY <2>1, <1>2 DEF BooksInv, BooksOK
<1>5. /\ issued' \in Nat /\ renounced' \in Nat /\ surplusBuffer' \in [Treasuries -> Nat]
      /\ \A t \in Treasuries : badDebt'[t] # 0 => surplusBuffer'[t] = 0
      /\ (0 - amount) + 0 + renounced' - renounced
           = 0 + 0 + 0 + (issued' - issued) + (loan'.amount - loan.amount)
  BY <1>2 DEF BooksInv, BooksOK, Redeem, Burned, HoldersOnly, vmVars, bufferVars, othersVars
<1> QED
  BY <1>1, <1>3, <1>4, <1>5, BooksFromChanges

\* A gift is written down as such.
LEMMA GiftKeepsBooks ==
    ASSUME TreasuryAssumption, BooksInv, loan.amount \in Nat, loan'.amount = loan.amount,
           NEW amount \in Nat,
           BurnStablecoin(amount)
    PROVE  BooksInv'
<1>1. Changed(Accounts, balanceOf, balanceOf', 0 - amount)
  <2>1. /\ balanceOf' \in [Accounts -> Nat] /\ balanceOf'[Public] = balanceOf[Public] + (0 - amount)
        /\ 0 - amount \in Int
        /\ \A a \in Accounts : a # Public => balanceOf'[a] = balanceOf[a]
    BY PlacesOfAccounts, BooksParts DEF BurnStablecoin, Burned, HoldersOnly, vmVars,
       bufferVars, othersVars
  <2>2. balanceOf \in [Accounts -> Nat] /\ IsFiniteSet(UnitsOf(balanceOf)) /\ Public \in Accounts
    BY PlacesOfAccounts, BooksParts
  <2> QED
    BY <2>1, <2>2, ChangedAtOne
<1>2. UNCHANGED <<debt, surplus, lost, badDebt, surplusBuffer>>
  BY DEF BurnStablecoin, Burned, HoldersOnly, vmVars,
       bufferVars, othersVars
<1>3. /\ Changed(VaultManagers, surplus, surplus', 0)
      /\ Changed(VaultManagers, debt, debt', 0)
      /\ Changed(VaultManagers, lost, lost', 0)
      /\ Changed(Treasuries, badDebt, badDebt', 0)
  BY <1>2, BooksUnmoved
<1>4. \A t \in Treasuries : surplusBuffer'[t] <= balanceOf'[t]
  <2>1. \A t \in Treasuries : balanceOf'[t] = balanceOf[t]
    BY PlacesOfAccounts, BooksParts DEF BurnStablecoin, Burned, HoldersOnly, vmVars,
       bufferVars, othersVars
  <2> QED
    BY <2>1, <1>2 DEF BooksInv, BooksOK
<1>5. /\ issued' \in Nat /\ renounced' \in Nat /\ surplusBuffer' \in [Treasuries -> Nat]
      /\ \A t \in Treasuries : badDebt'[t] # 0 => surplusBuffer'[t] = 0
      /\ (0 - amount) + 0 + renounced' - renounced
           = 0 + 0 + 0 + (issued' - issued) + (loan'.amount - loan.amount)
  BY <1>2 DEF BooksInv, BooksOK, BurnStablecoin, Burned, HoldersOnly, vmVars, bufferVars, othersVars
<1> QED
  BY <1>1, <1>3, <1>4, <1>5, BooksFromChanges

\* A transfer takes nothing from a treasury.
LEMMA TransferKeepsBooks ==
    ASSUME TreasuryAssumption, BooksInv, loan.amount \in Nat, loan'.amount = loan.amount,
           NEW from \in {Public, Recipient}, NEW to \in Accounts, NEW amount \in Nat,
           Transfer(from, to, amount)
    PROVE  BooksInv'
<1>1. UNCHANGED <<debt, surplus, lost, badDebt, surplusBuffer, issued, renounced>>
  BY DEF Transfer, HoldersOnly, vmVars, bufferVars, othersVars
<1>2. /\ Changed(Accounts, balanceOf, balanceOf', 0)
      /\ \A a \in Accounts : a # from => balanceOf'[a] >= balanceOf[a]
  BY PlacesOfAccounts, BooksParts, TransferKeepsTotal DEF Transfer
<1>3. /\ Changed(VaultManagers, surplus, surplus', 0)
      /\ Changed(VaultManagers, debt, debt', 0)
      /\ Changed(VaultManagers, lost, lost', 0)
      /\ Changed(Treasuries, badDebt, badDebt', 0)
  BY <1>1, BooksUnmoved
<1>4. \A t \in Treasuries : surplusBuffer'[t] <= balanceOf'[t]
  <2>1. \A a \in Accounts : balanceOf[a] \in Nat /\ balanceOf'[a] \in Nat
    BY <1>2 DEF Changed
  <2> QED
    BY <1>1, <1>2, <2>1, PlacesOfAccounts DEF BooksInv, BooksOK
<1>5. /\ issued' \in Nat /\ renounced' \in Nat /\ surplusBuffer' \in [Treasuries -> Nat]
      /\ \A t \in Treasuries : badDebt'[t] # 0 => surplusBuffer'[t] = 0
      /\ 0 + 0 + renounced' - renounced
           = 0 + 0 + 0 + (issued' - issued) + (loan'.amount - loan.amount)
  BY <1>1 DEF BooksInv, BooksOK
<1> QED
  BY <1>2, <1>3, <1>4, <1>5, BooksFromChanges

-----------------------------------------------------------------------------
(***************************************************************************)
(* Accounting                                                              *)
(***************************************************************************)

\* Setting the places of a set to zero.
LEMMA Emptied ==
    ASSUME NEW V, NEW f \in [V -> Nat], IsFiniteSet(UnitsOf(f)), NEW S \in SUBSET V,
           NEW g, g = [x \in V |-> IF x \in S THEN 0 ELSE f[x]]
    PROVE  Changed(V, f, g, 0 - TotalOf([x \in S |-> f[x]]))
<1> DEFINE part == [x \in S |-> f[x]]
<1>1. /\ IsFiniteSet(UnitsOf(g)) /\ TotalOf(part) \in Nat /\ TotalOf(g) \in Nat
      /\ TotalOf(f) = TotalOf(g) + TotalOf(part)
  BY TotalOfZeroed
<1>2. g \in [V -> Nat] /\ TotalOf(f) \in Nat
  BY SumIsNat
<1> HIDE DEF part
<1>3. Changed(V, f, g, 0 - TotalOf(part))
  BY <1>1, <1>2 DEF Changed
<1> QED
  BY <1>3 DEF part

\* What the VaultManagers of a treasury have, and what accruing it makes of it.
HeldSurplus(t) == TotalOf([vm \in Listed(t) |-> surplus[vm]])
HeldLoss(t) == TotalOf([vm \in Listed(t) |-> lost[vm]])
NewSurplus(t) == TotalOf([vm \in Listed(t) |-> NetSurplus(vm)])
NewLoss(t) == TotalOf([vm \in Listed(t) |-> NetLoss(vm)])

LEMMA ListedTypes ==
    ASSUME WiringInv, NEW t \in Treasuries
    PROVE  Listed(t) \in SUBSET VaultManagers
  BY DEF WiringInv, Listed

\* Cancelling losses out, VaultManager by VaultManager, keeps the difference.
LEMMA Netting ==
    ASSUME BooksInv, WiringInv, NEW t \in Treasuries
    PROVE  /\ HeldSurplus(t) \in Nat /\ HeldLoss(t) \in Nat
           /\ NewSurplus(t) \in Nat /\ NewLoss(t) \in Nat
           /\ NewSurplus(t) + HeldLoss(t) = NewLoss(t) + HeldSurplus(t)
<1> DEFINE L  == Listed(t)
           s  == [vm \in L |-> surplus[vm]]
           l  == [vm \in L |-> lost[vm]]
           ns == [vm \in L |-> NetSurplus(vm)]
           nl == [vm \in L |-> NetLoss(vm)]
<1>1. L \in SUBSET VaultManagers
  BY ListedTypes
<1> HIDE DEF L
<1>2. IsFiniteSet(UnitsOf(s)) /\ IsFiniteSet(UnitsOf(l))
  BY <1>1, BooksParts, TotalOfZeroed
<1>3. /\ s \in [L -> Nat] /\ l \in [L -> Nat] /\ ns \in [L -> Nat] /\ nl \in [L -> Nat]
      /\ \A vm \in L : ns[vm] <= s[vm] /\ nl[vm] <= l[vm]
  BY <1>1, BooksParts DEF NetSurplus, NetLoss, Excess
<1>4. [vm \in L |-> ns[vm] + l[vm]] = [vm \in L |-> nl[vm] + s[vm]]
  BY <1>1, BooksParts DEF NetSurplus, NetLoss, Excess
<1> HIDE DEF s, l, ns, nl
<1>5. IsFiniteSet(UnitsOf(ns)) /\ IsFiniteSet(UnitsOf(nl))
  BY <1>2, <1>3, TotalOfBelow
<1>6. /\ TotalOf([vm \in L |-> ns[vm] + l[vm]]) = TotalOf(ns) + TotalOf(l)
      /\ TotalOf([vm \in L |-> nl[vm] + s[vm]]) = TotalOf(nl) + TotalOf(s)
  BY <1>2, <1>3, <1>5, TotalOfSum
<1>7. TotalOf(ns) + TotalOf(l) = TotalOf(nl) + TotalOf(s)
  BY <1>4, <1>6
<1>8. TotalOf(s) \in Nat /\ TotalOf(l) \in Nat /\ TotalOf(ns) \in Nat /\ TotalOf(nl) \in Nat
  BY <1>2, <1>5, SumIsNat
<1>9. /\ TotalOf(s) = HeldSurplus(t) /\ TotalOf(l) = HeldLoss(t)
      /\ TotalOf(ns) = NewSurplus(t) /\ TotalOf(nl) = NewLoss(t)
  BY DEF s, l, ns, nl, L, HeldSurplus, HeldLoss, NewSurplus, NewLoss
<1> QED
  BY <1>7, <1>8, <1>9

\* What fetchSurplusFromAll computes: the buffer that is left is backed, and there
\* is none beside a bad debt.
LEMMA FetchFacts ==
    ASSUME TreasuryAssumption, BooksInv, WiringInv, NEW t \in Treasuries
    PROVE  /\ FeesFor(t) \in Nat
           /\ Collected(t) \in Nat /\ Collected(t) = NewSurplus(t) + FeesFor(t)
           /\ Losses(t) \in Nat /\ Losses(t) = badDebt[t] + NewLoss(t)
           /\ BurntBy(t) \in Nat /\ BurntBy(t) <= Losses(t)
           /\ BalanceAfterFetch(t) \in Nat
           /\ BalanceAfterFetch(t) = balanceOf[t] + Collected(t) - BurntBy(t)
           /\ BufferAfterFetch(t) \in 0..BalanceAfterFetch(t)
           /\ Losses(t) - BurntBy(t) # 0 => BufferAfterFetch(t) = 0
<1>1. FeesFor(t) \in Nat
  BY BooksParts, PlacesOfAccounts DEF WiringInv, FeesFor
<1>2. Collected(t) \in Nat /\ Collected(t) = NewSurplus(t) + FeesFor(t)
  BY <1>1, Netting DEF Collected, NewSurplus
<1>3. Losses(t) \in Nat /\ Losses(t) = badDebt[t] + NewLoss(t)
  BY Netting, BooksParts DEF Losses, NewLoss
<1>4. balanceOf[t] \in Nat /\ surplusBuffer[t] \in Nat /\ surplusBuffer[t] <= balanceOf[t]
  BY PlacesOfAccounts DEF BooksInv, BooksOK
<1>5. /\ balanceOf[t] + Collected(t) \in Nat /\ surplusBuffer[t] + Collected(t) \in Nat
      /\ surplusBuffer[t] + Collected(t) <= balanceOf[t] + Collected(t)
  BY <1>2, <1>4
<1>6. /\ BurntBy(t) \in Nat /\ BurntBy(t) <= Losses(t)
      /\ BurntBy(t) <= balanceOf[t] + Collected(t)
      /\ BufferAfterFetch(t) \in Nat
      /\ BufferAfterFetch(t) <= (balanceOf[t] + Collected(t)) - BurntBy(t)
      /\ Losses(t) - BurntBy(t) # 0 => BufferAfterFetch(t) = 0
  BY <1>3, <1>5, Reconciled DEF BurntBy, BufferAfterFetch
<1> QED
  BY <1>1, <1>2, <1>3, <1>4, <1>6 DEF BalanceAfterFetch

\* The fees of the module, what the VaultManagers mint and what is burnt meet in
\* the treasury, which pays its part out.
LEMMA FetchMovesBalances ==
    ASSUME TreasuryAssumption, BooksInv, WiringInv, NEW t \in Treasuries,
           NEW buffer, NEW paid \in Nat, paid <= BalanceAfterFetch(t),
           FetchAndPay(t, buffer, paid)
    PROVE  /\ balanceOf' \in [Accounts -> Nat]
           /\ balanceOf'[t] = BalanceAfterFetch(t) - paid
           /\ \A u \in Treasuries : u # t => balanceOf'[u] = balanceOf[u]
           /\ Changed(Accounts, balanceOf, balanceOf', NewSurplus(t) - BurntBy(t))
<1> DEFINE m  == flashLoanModule[t]
           b1 == [a \in Accounts |-> IF a = m THEN 0 ELSE balanceOf[a]]
           b2 == [a \in Accounts |-> IF a = t THEN BalanceAfterFetch(t) - paid ELSE b1[a]]
<1>1. /\ t \in Accounts /\ Recipient \in Accounts /\ m \in Accounts \union {NoModule}
      /\ t # Recipient /\ m # t /\ m # Recipient /\ m \notin Treasuries
      /\ NoModule \notin Accounts
  BY DEF TreasuryAssumption, WiringInv
<1>2. /\ balanceOf' = [a \in Accounts |-> IF a = Recipient THEN b2[a] + paid ELSE b2[a]]
      /\ \A u \in Treasuries : u # t => balanceOf'[u] = balanceOf[u]
      /\ balanceOf'[t] = BalanceAfterFetch(t) - paid
  BY <1>1, PlacesOfAccounts DEF FetchAndPay
<1>3. /\ b1 \in [Accounts -> Nat] /\ b1[t] = balanceOf[t]
      /\ Changed(Accounts, balanceOf, b1, 0 - FeesFor(t))
  <2>1. b1 \in [Accounts -> Nat] /\ b1[t] = balanceOf[t]
    BY <1>1, BooksParts
  <2>2. CASE m = NoModule
    <3>1. b1 = balanceOf /\ FeesFor(t) = 0
      BY <1>1, <2>2, BooksParts DEF FeesFor
    <3> QED
      BY <2>1, <3>1, BooksUnmoved
  <2>3. CASE m \in Accounts
    <3>1. /\ b1[m] = balanceOf[m] + (0 - FeesFor(t)) /\ 0 - FeesFor(t) \in Int
          /\ \A a \in Accounts : a # m => b1[a] = balanceOf[a]
      BY <1>1, <2>3, BooksParts DEF FeesFor
    <3>2. balanceOf \in [Accounts -> Nat] /\ IsFiniteSet(UnitsOf(balanceOf))
      BY BooksParts
    <3> HIDE DEF b1
    <3> QED
      BY <2>1, <2>3, <3>1, <3>2, ChangedAtOne
  <2> QED
    BY <1>1, <2>1, <2>2, <2>3
<1> HIDE DEF b1
<1>4. /\ b2 \in [Accounts -> Nat]
      /\ Changed(Accounts, b1, b2, Collected(t) - BurntBy(t) - paid)
  <2>1. /\ b2 \in [Accounts -> Nat]
        /\ b2[t] = b1[t] + (Collected(t) - BurntBy(t) - paid)
        /\ Collected(t) - BurntBy(t) - paid \in Int
        /\ \A a \in Accounts : a # t => b2[a] = b1[a]
    BY <1>1, <1>3, BooksParts, FetchFacts
  <2>2. IsFiniteSet(UnitsOf(b1))
    BY <1>3 DEF Changed
  <2> HIDE DEF b2
  <2> QED
    BY <1>1, <1>3, <2>1, <2>2, ChangedAtOne
<1> HIDE DEF b2
<1>5. balanceOf' \in [Accounts -> Nat] /\ Changed(Accounts, b2, balanceOf', paid)
  <2>1. /\ balanceOf' \in [Accounts -> Nat] /\ balanceOf'[Recipient] = b2[Recipient] + paid
        /\ \A a \in Accounts : a # Recipient => balanceOf'[a] = b2[a]
    BY <1>1, <1>2, <1>4
  <2>2. IsFiniteSet(UnitsOf(b2))
    BY <1>4 DEF Changed
  <2> QED
    BY <1>1, <1>4, <2>1, <2>2, ChangedAtOne
<1>6. Changed(Accounts, balanceOf, balanceOf', NewSurplus(t) - BurntBy(t))
  BY <1>3, <1>4, <1>5, FetchFacts, Netting DEF Changed
<1> QED
  BY <1>2, <1>5, <1>6

\* Whatever is paid beside a buffer that was left, the books stay right.
LEMMA FetchKeepsBooks ==
    ASSUME TreasuryAssumption, BooksInv, WiringInv, loan.amount \in Nat,
           loan'.amount = loan.amount, NEW t \in Treasuries,
           NEW buffer \in 0..BufferAfterFetch(t), NEW paid \in Nat,
           paid + buffer <= BalanceAfterFetch(t),
           FetchAndPay(t, buffer, paid)
    PROVE  BooksInv'
<1>1. Listed(t) \in SUBSET VaultManagers
  BY ListedTypes
<1>2. Changed(VaultManagers, surplus, surplus', 0 - HeldSurplus(t))
  <2>1. surplus' = [vm \in VaultManagers |-> IF vm \in Listed(t) THEN 0 ELSE surplus[vm]]
    BY DEF FetchAndPay
  <2>2. surplus \in [VaultManagers -> Nat] /\ IsFiniteSet(UnitsOf(surplus))
    BY BooksParts
  <2>3. Changed(VaultManagers, surplus, surplus', 0 - TotalOf([vm \in Listed(t) |-> surplus[vm]]))
    BY <1>1, <2>1, <2>2, Emptied, Zenon
  <2> QED
    BY <2>3 DEF HeldSurplus
<1>3. Changed(VaultManagers, lost, lost', 0 - HeldLoss(t))
  <2>1. lost' = [vm \in VaultManagers |-> IF vm \in Listed(t) THEN 0 ELSE lost[vm]]
    BY DEF FetchAndPay
  <2>2. lost \in [VaultManagers -> Nat] /\ IsFiniteSet(UnitsOf(lost))
    BY BooksParts
  <2>3. Changed(VaultManagers, lost, lost', 0 - TotalOf([vm \in Listed(t) |-> lost[vm]]))
    BY <1>1, <2>1, <2>2, Emptied, Zenon
  <2> QED
    BY <2>3 DEF HeldLoss
<1>4. Changed(Treasuries, badDebt, badDebt', NewLoss(t) - BurntBy(t))
  <2>1. /\ badDebt' \in [Treasuries -> Nat]
        /\ badDebt'[t] = badDebt[t] + (NewLoss(t) - BurntBy(t))
        /\ NewLoss(t) - BurntBy(t) \in Int
        /\ \A u \in Treasuries : u # t => badDebt'[u] = badDebt[u]
    BY BooksParts, FetchFacts, Netting DEF FetchAndPay
  <2>2. badDebt \in [Treasuries -> Nat] /\ IsFiniteSet(UnitsOf(badDebt))
    BY BooksParts
  <2> QED
    BY <2>1, <2>2, ChangedAtOne
<1>5. /\ balanceOf' \in [Accounts -> Nat]
      /\ balanceOf'[t] = BalanceAfterFetch(t) - paid
      /\ \A u \in Treasuries : u # t => balanceOf'[u] = balanceOf[u]
      /\ Changed(Accounts, balanceOf, balanceOf', NewSurplus(t) - BurntBy(t))
  <2>1. paid <= BalanceAfterFetch(t)
    BY FetchFacts
  <2> QED
    BY <2>1, FetchMovesBalances
<1>6. UNCHANGED <<debt, issued, renounced>>
  BY DEF FetchAndPay, othersVars
<1>7. Changed(VaultManagers, debt, debt', 0)
  BY <1>6, BooksUnmoved
<1>8. /\ surplusBuffer' \in [Treasuries -> Nat] /\ surplusBuffer'[t] = buffer
      /\ \A u \in Treasuries : u # t => surplusBuffer'[u] = surplusBuffer[u]
      /\ badDebt'[t] = Losses(t) - BurntBy(t)
      /\ \A u \in Treasuries : u # t => badDebt'[u] = badDebt[u]
  BY FetchFacts DEF FetchAndPay, BooksInv, BooksOK
<1>9. \A u \in Treasuries : surplusBuffer'[u] <= balanceOf'[u]
  <2>1. surplusBuffer'[t] <= balanceOf'[t]
    BY <1>5, <1>8, FetchFacts
  <2>2. \A u \in Treasuries : u # t => surplusBuffer'[u] <= balanceOf'[u]
    BY <1>5, <1>8 DEF BooksInv, BooksOK
  <2> QED
    BY <2>1, <2>2
<1>10. \A u \in Treasuries : badDebt'[u] # 0 => surplusBuffer'[u] = 0
  BY <1>8, FetchFacts DEF BooksInv, BooksOK
<1>11. (NewSurplus(t) - BurntBy(t)) + (0 - HeldSurplus(t)) + renounced' - renounced
         = 0 + (0 - HeldLoss(t)) + (NewLoss(t) - BurntBy(t)) + (issued' - issued)
             + (loan'.amount - loan.amount)
  <2>1. issued \in Nat /\ renounced \in Nat
    BY DEF BooksInv, BooksOK
  <2>2. BurntBy(t) \in Nat
    BY FetchFacts
  <2> QED
    BY <1>6, <2>1, <2>2, Netting
<1>12. issued' \in Nat /\ renounced' \in Nat /\ loan'.amount \in Nat
  BY <1>6 DEF BooksInv, BooksOK
<1> DEFINE b == NewSurplus(t) - BurntBy(t)
           s == 0 - HeldSurplus(t)
           l == 0 - HeldLoss(t)
           e == NewLoss(t) - BurntBy(t)
<1>13. /\ Changed(Accounts, balanceOf, balanceOf', b)
       /\ Changed(VaultManagers, surplus, surplus', s)
       /\ Changed(VaultManagers, lost, lost', l)
       /\ Changed(Treasuries, badDebt, badDebt', e)
       /\ b + s + renounced' - renounced
            = 0 + l + e + (issued' - issued) + (loan'.amount - loan.amount)
  BY <1>2, <1>3, <1>4, <1>5, <1>11
<1> HIDE DEF b, s, l, e
<1>14. surplusBuffer' \in [Treasuries -> Nat]
  BY <1>8
<1> QED
  BY <1>7, <1>9, <1>10, <1>12, <1>13, <1>14, BooksFromChanges

LEMMA FetchSurplusFromAllKeepsBooks ==
    ASSUME TreasuryAssumption, BooksInv, WiringInv, loan.amount \in Nat,
           loan'.amount = loan.amount, NEW t \in Treasuries,
           FetchSurplusFromAll(t)
    PROVE  BooksInv'
<1>1. FetchAndPay(t, BufferAfterFetch(t), 0)
  BY DEF FetchSurplusFromAll
<1>2. /\ BufferAfterFetch(t) \in 0..BufferAfterFetch(t)
      /\ 0 + BufferAfterFetch(t) <= BalanceAfterFetch(t)
  BY FetchFacts
<1> QED
  BY <1>1, <1>2, FetchKeepsBooks

\* Governance gets part of a buffer that the treasury holds.
LEMMA PushSurplusKeepsBooks ==
    ASSUME TreasuryAssumption, BooksInv, WiringInv, loan.amount \in Nat,
           loan'.amount = loan.amount, NEW t \in Treasuries,
           PushSurplus(t)
    PROVE  BooksInv'
<1>1. FetchAndPay(t, 0, GovernanceAllocation(t))
  BY DEF PushSurplus
<1>2. surplusForGovernance[t] \in 0..BASE_9
  BY DEF WiringInv
<1>5. BufferAfterFetch(t) \in Nat
  BY FetchFacts
<1>3. GovernanceAllocation(t) \in 0..BufferAfterFetch(t)
  BY <1>2, <1>5, ShareOfBuffer DEF GovernanceAllocation
<1>4. /\ 0 \in 0..BufferAfterFetch(t) /\ GovernanceAllocation(t) \in Nat
      /\ GovernanceAllocation(t) + 0 <= BalanceAfterFetch(t)
  BY <1>3, FetchFacts
<1> QED
  BY <1>1, <1>4, FetchKeepsBooks

LEMMA RecoverERC20KeepsBooks ==
    ASSUME TreasuryAssumption, BooksInv, WiringInv, loan.amount \in Nat,
           loan'.amount = loan.amount, NEW t \in Treasuries, NEW amount \in Nat,
           RecoverERC20(t, amount)
    PROVE  BooksInv'
<1>1. FetchAndPay(t, BufferAfterFetch(t), amount)
  BY DEF RecoverERC20
<1>2. /\ BufferAfterFetch(t) \in 0..BufferAfterFetch(t)
      /\ amount + BufferAfterFetch(t) <= BalanceAfterFetch(t)
  BY FetchFacts DEF RecoverERC20
<1> QED
  BY <1>1, <1>2, FetchKeepsBooks

LEMMA FlashSurplusKeepsBooks ==
    ASSUME TreasuryAssumption, BooksInv, WiringInv, loan.amount \in Nat,
           loan'.amount = loan.amount, NEW t \in Treasuries,
           FetchSurplusFromFlashLoan(t)
    PROVE  BooksInv'
<1> DEFINE m       == flashLoanModule[t]
           balance == balanceOf[t] + FeesFor(t)
           buffer  == surplusBuffer[t] + FeesFor(t)
           burnt   == ToBurn(balance, badDebt[t])
           after   == BufferAfterBurn(buffer, burnt)
           left    == [balanceOf EXCEPT ![m] = 0]
<1>1. /\ m \in FlashModules /\ m \in Accounts /\ t \in Accounts /\ m # t /\ m \notin Treasuries
      /\ Treasuries \subseteq Accounts
  BY PlacesOfAccounts DEF TreasuryAssumption, WiringInv, FetchSurplusFromFlashLoan
<1>2. FeesFor(t) = balanceOf[m] /\ FeesFor(t) \in Nat
  BY <1>1, BooksParts DEF FeesFor, FetchSurplusFromFlashLoan
<1>3. /\ balance \in Nat /\ buffer \in Nat /\ badDebt[t] \in Nat /\ buffer <= balance
  BY <1>1, <1>2 DEF BooksInv, BooksOK
<1>4. /\ balanceOf' = [balanceOf EXCEPT ![t] = balance - burnt, ![m] = 0]
      /\ surplusBuffer' = [surplusBuffer EXCEPT ![t] = after]
      /\ badDebt' = [badDebt EXCEPT ![t] = badDebt[t] - burnt]
      /\ UNCHANGED <<debt, surplus, lost, issued, renounced>>
  BY BooksParts DEF FetchSurplusFromFlashLoan, vmVars, othersVars
<1>5. /\ burnt \in Nat /\ burnt <= badDebt[t] /\ burnt <= balance
      /\ after \in Nat /\ after <= balance - burnt
      /\ badDebt[t] - burnt # 0 => after = 0
  <2> HIDE DEF balance, buffer
  <2> QED
    BY <1>3, Reconciled
<1>6. Changed(Accounts, balanceOf, left, 0 - FeesFor(t))
  <2>1. /\ left \in [Accounts -> Nat] /\ left[m] = balanceOf[m] + (0 - FeesFor(t))
        /\ 0 - FeesFor(t) \in Int
        /\ \A a \in Accounts : a # m => left[a] = balanceOf[a]
    BY <1>1, <1>2, BooksParts
  <2>2. balanceOf \in [Accounts -> Nat] /\ IsFiniteSet(UnitsOf(balanceOf))
    BY BooksParts
  <2> HIDE DEF left
  <2> QED
    BY <1>1, <2>1, <2>2, ChangedAtOne
<1>7. /\ balanceOf' \in [Accounts -> Nat] /\ balanceOf'[t] = balance - burnt
      /\ \A a \in Accounts : a # t => balanceOf'[a] = left[a]
      /\ \A u \in Treasuries : u # t => balanceOf'[u] = balanceOf[u]
      /\ left \in [Accounts -> Nat] /\ left[t] = balanceOf[t]
  <2> HIDE DEF burnt, balance
  <2> QED
    BY <1>1, <1>3, <1>4, <1>5, BooksParts
<1>8. Changed(Accounts, left, balanceOf', FeesFor(t) - burnt)
  <2>1. /\ balanceOf'[t] = left[t] + (FeesFor(t) - burnt) /\ FeesFor(t) - burnt \in Int
        /\ balanceOf[t] \in Nat
    <3> HIDE DEF burnt, left
    <3> QED
      BY <1>1, <1>2, <1>5, <1>7, BooksParts
  <2>2. IsFiniteSet(UnitsOf(left))
    BY <1>6 DEF Changed
  <2> HIDE DEF left, burnt
  <2> QED
    BY <1>1, <1>7, <2>1, <2>2, ChangedAtOne
<1> HIDE DEF left, burnt, after
<1>9. Changed(Accounts, balanceOf, balanceOf', 0 - burnt)
  BY <1>2, <1>5, <1>6, <1>8 DEF Changed
<1>10. Changed(Treasuries, badDebt, badDebt', 0 - burnt)
  <2>1. /\ badDebt' \in [Treasuries -> Nat] /\ badDebt'[t] = badDebt[t] + (0 - burnt)
        /\ 0 - burnt \in Int
        /\ \A u \in Treasuries : u # t => badDebt'[u] = badDebt[u]
    BY <1>3, <1>4, <1>5, BooksParts
  <2>2. badDebt \in [Treasuries -> Nat] /\ IsFiniteSet(UnitsOf(badDebt))
    BY BooksParts
  <2> QED
    BY <2>1, <2>2, ChangedAtOne
<1>11. /\ Changed(VaultManagers, surplus, surplus', 0)
       /\ Changed(VaultManagers, debt, debt', 0)
       /\ Changed(VaultManagers, lost, lost', 0)
  BY <1>4, BooksUnmoved
<1>12. /\ surplusBuffer' \in [Treasuries -> Nat] /\ surplusBuffer'[t] = after
       /\ \A u \in Treasuries : u # t => surplusBuffer'[u] = surplusBuffer[u]
       /\ badDebt'[t] = badDebt[t] - burnt
       /\ \A u \in Treasuries : u # t => badDebt'[u] = badDebt[u]
  BY <1>4, <1>5, BooksParts DEF BooksInv, BooksOK
<1>13. \A u \in Treasuries : surplusBuffer'[u] <= balanceOf'[u]
  <2>1. surplusBuffer'[t] <= balanceOf'[t]
    BY <1>5, <1>7, <1>12
  <2>2. \A u \in Treasuries : u # t => surplusBuffer'[u] <= balanceOf'[u]
    BY <1>7, <1>12 DEF BooksInv, BooksOK
  <2> QED
    BY <2>1, <2>2
<1>14. \A u \in Treasuries : badDebt'[u] # 0 => surplusBuffer'[u] = 0
  BY <1>5, <1>12 DEF BooksInv, BooksOK
<1>15. /\ issued' \in Nat /\ renounced' \in Nat /\ loan'.amount \in Nat
       /\ (0 - burnt) + 0 + renounced' - renounced
            = 0 + 0 + (0 - burnt) + (issued' - issued) + (loan'.amount - loan.amount)
  BY <1>4, <1>5 DEF BooksInv, BooksOK
<1>16. surplusBuffer' \in [Treasuries -> Nat]
  BY <1>12
<1> QED
  BY <1>9, <1>10, <1>11, <1>13, <1>14, <1>15, <1>16, BooksFromChanges

\* There is no buffer to break where there is a bad debt to burn.
LEMMA UpdateBadDebtKeepsBooks ==
    ASSUME TreasuryAssumption, BooksInv, loan.amount \in Nat, loan'.amount = loan.amount,
           NEW t \in Treasuries, NEW amount \in Nat,
           UpdateBadDebt(t, amount)
    PROVE  BooksInv'
<1>1. t \in Accounts /\ amount <= balanceOf[t] /\ amount <= badDebt[t]
  BY PlacesOfAccounts DEF UpdateBadDebt
<1>2. UNCHANGED <<debt, surplus, lost, surplusBuffer, issued, renounced>>
  BY DEF UpdateBadDebt, vmVars, othersVars
<1>3. /\ balanceOf' \in [Accounts -> Nat] /\ balanceOf'[t] = balanceOf[t] + (0 - amount)
      /\ 0 - amount \in Int
      /\ \A a \in Accounts : a # t => balanceOf'[a] = balanceOf[a]
  BY <1>1, BooksParts DEF UpdateBadDebt, Burned
<1>4. /\ badDebt' \in [Treasuries -> Nat] /\ badDebt'[t] = badDebt[t] + (0 - amount)
      /\ \A u \in Treasuries : u # t => badDebt'[u] = badDebt[u]
  BY <1>1, BooksParts DEF UpdateBadDebt
<1>5. Changed(Accounts, balanceOf, balanceOf', 0 - amount)
  <2>1. balanceOf \in [Accounts -> Nat] /\ IsFiniteSet(UnitsOf(balanceOf))
    BY BooksParts
  <2> QED
    BY <1>1, <1>3, <2>1, ChangedAtOne
<1>6. Changed(Treasuries, badDebt, badDebt', 0 - amount)
  <2>1. badDebt \in [Treasuries -> Nat] /\ IsFiniteSet(UnitsOf(badDebt))
    BY BooksParts
  <2> QED
    BY <1>3, <1>4, <2>1, ChangedAtOne
<1>7. /\ Changed(VaultManagers, surplus, surplus', 0)
      /\ Changed(VaultManagers, debt, debt', 0)
      /\ Changed(VaultManagers, lost, lost', 0)
  BY <1>2, BooksUnmoved
<1>8. \A u \in Treasuries : surplusBuffer'[u] <= balanceOf'[u]
  <2>1. surplusBuffer[t] = 0 \/ amount = 0
    BY <1>1 DEF BooksInv, BooksOK
  <2>2. surplusBuffer'[t] <= balanceOf'[t]
    BY <1>1, <1>2, <1>3, <2>1 DEF BooksInv, BooksOK
  <2>3. \A u \in Treasuries : u # t => surplusBuffer'[u] <= balanceOf'[u]
    BY <1>2, <1>3, PlacesOfAccounts DEF BooksInv, BooksOK
  <2> QED
    BY <2>2, <2>3
<1>9. \A u \in Treasuries : badDebt'[u] # 0 => surplusBuffer'[u] = 0
  BY <1>1, <1>2, <1>4 DEF BooksInv, BooksOK
<1>10. /\ issued' \in Nat /\ renounced' \in Nat /\ loan'.amount \in Nat
       /\ surplusBuffer' \in [Treasuries -> Nat]
       /\ (0 - amount) + 0 + renounced' - renounced
            = 0 + 0 + (0 - amount) + (issued' - issued) + (loan'.amount - loan.amount)
  BY <1>2 DEF BooksInv, BooksOK
<1> QED
  BY <1>5, <1>6, <1>7, <1>8, <1>9, <1>10, BooksFromChanges

-----------------------------------------------------------------------------
(***************************************************************************)
(* Governance: the books are left alone, the wiring keeps its types        *)
(***************************************************************************)

LEMMA UnchangedKeepsBooks ==
    ASSUME BooksInv, MoneyUnchanged, loan'.amount = loan.amount
    PROVE  BooksInv'
<1>1. UNCHANGED <<debt, surplus, lost, balanceOf, badDebt, surplusBuffer, issued, renounced>>
  BY DEF MoneyUnchanged, vmVars, othersVars, bufferVars
<1> QED
  BY <1>1 DEF BooksInv, BooksOK

LEMMA UnchangedKeepsWiring ==
    ASSUME WiringInv, UNCHANGED <<paramVars, wiringVars, flashVars>>, isMinter' \subseteq Minters
    PROVE  WiringInv'
  BY DEF WiringInv, paramVars, wiringVars, registryVars, coreVars, flashVars

\* Dropping an entry of a list leaves a list.
LEMMA ListWithoutType ==
    ASSUME NEW list \in Seq(VaultManagers), NEW vm \in VaultManagers
    PROVE  ListWithout(list, vm) \in Seq(VaultManagers)
<1> DEFINE n == IF list = << >> THEN 0 ELSE Len(list) - 1
<1>1. n \in Nat /\ 1..n = 1..(Len(list) - 1)
  OBVIOUS
<1>2. \A i \in 1..Len(list) : list[i] \in VaultManagers
  OBVIOUS
<1>3. ListWithout(list, vm) \in [1..(Len(list) - 1) -> VaultManagers]
  BY <1>2 DEF ListWithout
<1> HIDE DEF n
<1> QED
  BY <1>1, <1>3

\* One lemma for what each contract governs: the treasury's own parameters ...
LEMMA ParametersKeepWiring ==
    ASSUME TreasuryAssumption, WiringInv, NEW t \in Treasuries,
           \/ \E share \in Shares : SetSurplusForGovernance(t, share)
           \/ \E manager \in Managers : SetSurplusManager(t, manager)
           \/ \E m \in FlashModules, params \in FlashParams : SetParameters(m, params)
    PROVE  WiringInv' /\ MoneyUnchanged
<1>1. ASSUME NEW share \in Shares, SetSurplusForGovernance(t, share)
      PROVE  WiringInv' /\ MoneyUnchanged
  <2>1. share \in 0..BASE_9
    BY <1>1 DEF SetSurplusForGovernance, TreasuryAssumption
  <2> QED
    BY <1>1, <2>1 DEF SetSurplusForGovernance, WiringInv, wiringVars, registryVars, coreVars,
                      flashVars
<1>2. ASSUME NEW manager \in Managers, SetSurplusManager(t, manager)
      PROVE  WiringInv' /\ MoneyUnchanged
  <2>1. manager \in {Recipient, NoManager}
    BY <1>2 DEF TreasuryAssumption
  <2> QED
    BY <1>2, <2>1 DEF SetSurplusManager, WiringInv, wiringVars, registryVars, coreVars,
                      flashVars
<1>3. ASSUME NEW m \in FlashModules, NEW params \in FlashParams, SetParameters(m, params)
      PROVE  WiringInv' /\ MoneyUnchanged
  <2>1. params[1] \in 0..BASE_PARAMS /\ params[2] \in Nat
    BY <1>3 DEF SetParameters, SetFlashLoanParameters, TreasuryAssumption
  <2> QED
    BY <1>3, <2>1 DEF SetParameters, SetFlashLoanParameters, WiringInv, wiringVars,
                      registryVars, coreVars, paramVars
<1> QED
  BY <1>1, <1>2, <1>3

\* ... its VaultManagers and minters ...
LEMMA RegistryKeepsWiring ==
    ASSUME TreasuryAssumption, WiringInv, NEW t \in Treasuries,
           \/ \E vm \in VaultManagers : AddVaultManager(t, vm) \/ RemoveVaultManager(t, vm)
           \/ \E minter \in MinterChoices : AddMinter(t, minter)
           \/ \E minter \in Minters : RemoveMinter(t, minter)
           \/ \E new \in Treasuries : SetTreasury(t, new)
    PROVE  WiringInv' /\ MoneyUnchanged
<1>1. ASSUME NEW vm \in VaultManagers, AddVaultManager(t, vm)
      PROVE  WiringInv' /\ MoneyUnchanged
  <2>1. vm \in Minters
    BY DEF Minters
  <2>2. vaultManagerList' \in [Treasuries -> Seq(VaultManagers)]
    BY <1>1 DEF AddVaultManager, WiringInv
  <2>3. vaultManagerMap' \in [Treasuries -> SUBSET VaultManagers]
    BY <1>1 DEF AddVaultManager, WiringInv
  <2>4. isMinter' \subseteq Minters
    BY <1>1, <2>1 DEF AddVaultManager, MintersAdded, WiringInv
  <2> QED
    BY <1>1, <2>2, <2>3, <2>4 DEF AddVaultManager, WiringInv, coreVars, paramVars, flashVars
<1>2. ASSUME NEW vm \in VaultManagers, RemoveVaultManager(t, vm)
      PROVE  WiringInv' /\ MoneyUnchanged
  <2>1. ListWithout(vaultManagerList[t], vm) \in Seq(VaultManagers)
    BY ListWithoutType DEF WiringInv
  <2>2. vaultManagerList' \in [Treasuries -> Seq(VaultManagers)]
    BY <1>2, <2>1 DEF RemoveVaultManager, WiringInv
  <2>3. vaultManagerMap' \in [Treasuries -> SUBSET VaultManagers]
    BY <1>2 DEF RemoveVaultManager, WiringInv
  <2>4. isMinter' \subseteq Minters
    BY <1>2 DEF RemoveVaultManager, MinterRemoved, WiringInv
  <2> QED
    BY <1>2, <2>2, <2>3, <2>4 DEF RemoveVaultManager, WiringInv, coreVars, paramVars, flashVars
<1>3. ASSUME NEW minter \in MinterChoices, AddMinter(t, minter)
      PROVE  WiringInv' /\ MoneyUnchanged
  BY <1>3, UnchangedKeepsWiring DEF AddMinter, MintersAdded, TreasuryAssumption, WiringInv
<1>4. ASSUME NEW minter \in Minters, RemoveMinter(t, minter)
      PROVE  WiringInv' /\ MoneyUnchanged
  BY <1>4, UnchangedKeepsWiring DEF RemoveMinter, MinterRemoved, WiringInv
<1>5. ASSUME NEW new \in Treasuries, SetTreasury(t, new)
      PROVE  WiringInv' /\ MoneyUnchanged
  BY <1>5 DEF SetTreasury, TokenTreasurySet, WiringInv, registryVars, coreVars, paramVars,
              flashVars
<1> QED
  BY <1>1, <1>2, <1>3, <1>4, <1>5

\* ... and the flash loan modules.
LEMMA InstallingKeepsTypes ==
    ASSUME WiringInv, NEW S \in SUBSET Treasuries, NEW new \in FlashModules \union {NoModule},
           ModuleInstalled(S, new)
    PROVE  /\ flashLoanModule' \in [Treasuries -> FlashModules \union {NoModule}]
           /\ isMinter' \subseteq Minters
<1>1. flashLoanModule' \in [Treasuries -> FlashModules \union {NoModule}]
  BY DEF ModuleInstalled, WiringInv
<1>2. isMinter' \subseteq isMinter \union ({new} \ {NoModule})
  BY DEF ModuleInstalled
<1>3. {new} \ {NoModule} \subseteq Minters
  BY DEF Minters
<1> QED
  BY <1>1, <1>2, <1>3 DEF WiringInv

LEMMA CoreKeepsWiring ==
    ASSUME TreasuryAssumption, WiringInv,
           \/ \E new \in FlashModules \union {NoModule} : SetFlashLoanModule(new)
           \/ \E t \in Treasuries : \/ AddFlashLoanerTreasuryRole(t)
                                    \/ RemoveFlashLoanerTreasuryRole(t)
                                    \/ GrantOrRevokeRole(t)
    PROVE  WiringInv' /\ MoneyUnchanged
<1>1. ASSUME NEW new \in FlashModules \union {NoModule}, SetFlashLoanModule(new)
      PROVE  WiringInv' /\ MoneyUnchanged
  <2>1. /\ flashLoanModule' \in [Treasuries -> FlashModules \union {NoModule}]
        /\ isMinter' \subseteq Minters
    BY <1>1, InstallingKeepsTypes DEF SetFlashLoanModule, WiringInv
  <2> QED
    BY <1>1, <2>1 DEF SetFlashLoanModule, CoreUnchanged, WiringInv, registryVars, paramVars,
                      flashVars
<1>2. ASSUME NEW t \in Treasuries, AddFlashLoanerTreasuryRole(t)
      PROVE  WiringInv' /\ MoneyUnchanged
  <2>1. UNCHANGED <<treasuryOf, vaultManagerList, vaultManagerMap, tokenTreasury,
                    surplusManager, surplusForGovernance, coreModule>> /\ MoneyUnchanged
    BY <1>2 DEF AddFlashLoanerTreasuryRole, CoreUnchanged, registryVars, paramVars
  <2>2. flashLoaners' \subseteq Treasuries
    BY <1>2 DEF AddFlashLoanerTreasuryRole, WiringInv
  <2>3. CASE coreModule = NoModule
    <3>1. UNCHANGED <<flashLoanModule, isMinter, supported, flashLoanFee, maxBorrowable>>
      BY <1>2, <2>3 DEF AddFlashLoanerTreasuryRole, flashVars
    <3> QED
      BY <2>1, <2>2, <3>1 DEF WiringInv
  <2>4. CASE coreModule # NoModule
    <3>1. ModuleInstalled({t}, coreModule) /\ StablecoinSupportAdded(coreModule, t)
      BY <1>2, <2>4 DEF AddFlashLoanerTreasuryRole
    <3>2. /\ flashLoanModule' \in [Treasuries -> FlashModules \union {NoModule}]
          /\ isMinter' \subseteq Minters
      BY <3>1, InstallingKeepsTypes DEF WiringInv
    <3>3. /\ supported' \in [FlashModules -> Treasuries \union {NoTreasury}]
          /\ UNCHANGED <<flashLoanFee, maxBorrowable>>
      BY <3>1 DEF StablecoinSupportAdded, WiringInv
    <3> QED
      BY <2>1, <2>2, <3>2, <3>3 DEF WiringInv
  <2> QED
    BY <2>3, <2>4
<1>3. ASSUME NEW t \in Treasuries, RemoveFlashLoanerTreasuryRole(t)
      PROVE  WiringInv' /\ MoneyUnchanged
  <2>1. UNCHANGED <<treasuryOf, vaultManagerList, vaultManagerMap, tokenTreasury,
                    surplusManager, surplusForGovernance, coreModule>> /\ MoneyUnchanged
    BY <1>3 DEF RemoveFlashLoanerTreasuryRole, CoreUnchanged, registryVars, paramVars
  <2>2. flashLoaners' \subseteq Treasuries
    BY <1>3 DEF RemoveFlashLoanerTreasuryRole, WiringInv
  <2>3. /\ flashLoanModule' \in [Treasuries -> FlashModules \union {NoModule}]
        /\ isMinter' \subseteq Minters
    BY <1>3, InstallingKeepsTypes DEF RemoveFlashLoanerTreasuryRole
  <2>4. /\ supported' \in [FlashModules -> Treasuries \union {NoTreasury}]
        /\ flashLoanFee' \in [FlashModules -> 0..BASE_PARAMS]
        /\ maxBorrowable' \in [FlashModules -> Nat]
    <3>1. CASE coreModule = NoModule
      BY <1>3, <3>1 DEF RemoveFlashLoanerTreasuryRole, WiringInv, flashVars
    <3>2. CASE coreModule # NoModule
      <4>1. StablecoinSupportRemoved(coreModule)
        BY <1>3, <3>2 DEF RemoveFlashLoanerTreasuryRole
      <4>2. 0 \in 0..BASE_PARAMS
        BY DEF TreasuryAssumption
      <4> QED
        BY <4>1, <4>2 DEF StablecoinSupportRemoved, WiringInv
    <3> QED
      BY <3>1, <3>2
  <2> QED
    BY <2>1, <2>2, <2>3, <2>4 DEF WiringInv
<1>4. ASSUME NEW t \in Treasuries, GrantOrRevokeRole(t)
      PROVE  WiringInv' /\ MoneyUnchanged
  BY <1>4 DEF GrantOrRevokeRole, CoreUnchanged, WiringInv, registryVars, paramVars, flashVars
<1> QED
  BY <1>1, <1>2, <1>3, <1>4

-----------------------------------------------------------------------------
(***************************************************************************)
(* Calls, and flash loans around them                                      *)
(***************************************************************************)

LEMMA AmountTypes ==
    ASSUME TreasuryAssumption, NEW amount \in Amounts
    PROVE  amount \in Nat
  BY DEF TreasuryAssumption

\* Users change the books and, when a minter resigns, the minters.
LEMMA UsersKeepInv ==
    ASSUME TreasuryAssumption, BooksInv, WiringInv, loan.amount \in Nat,
           loan'.amount = loan.amount, Users
    PROVE  BooksInv' /\ WiringInv'
<1>1. ASSUME NEW vm \in VaultManagers, NEW amount \in Amounts, NEW fee \in Amounts,
             Borrow(vm, amount, fee)
      PROVE  BooksInv' /\ WiringInv'
  <2>1. BooksInv'
    BY <1>1, AmountTypes, BorrowKeepsBooks
  <2>2. UNCHANGED <<paramVars, wiringVars, flashVars, isMinter>>
    BY <1>1 DEF Borrow
  <2> QED
    BY <2>1, <2>2, UnchangedKeepsWiring DEF WiringInv
<1>2. ASSUME NEW vm \in VaultManagers, NEW amount \in Amounts, NEW fee \in Amounts,
             NEW loss \in Amounts, Repay(vm, amount, fee, loss)
      PROVE  BooksInv' /\ WiringInv'
  <2>1. BooksInv'
    BY <1>2, AmountTypes, RepayKeepsBooks
  <2>2. UNCHANGED <<paramVars, wiringVars, flashVars, isMinter>>
    BY <1>2 DEF Repay
  <2> QED
    BY <2>1, <2>2, UnchangedKeepsWiring DEF WiringInv
<1>3. ASSUME NEW vm \in VaultManagers, NEW interest \in Amounts, Earn(vm, interest)
      PROVE  BooksInv' /\ WiringInv'
  <2>1. BooksInv'
    BY <1>3, AmountTypes, EarnKeepsBooks
  <2>2. UNCHANGED <<paramVars, wiringVars, flashVars, isMinter>>
    BY <1>3 DEF Earn
  <2> QED
    BY <2>1, <2>2, UnchangedKeepsWiring DEF WiringInv
<1>4. ASSUME NEW minter \in OtherMinters, NEW amount \in Amounts,
             Issue(minter, amount) \/ Redeem(minter, amount)
      PROVE  BooksInv' /\ WiringInv'
  <2>1. BooksInv'
    BY <1>4, AmountTypes, IssueKeepsBooks, RedeemKeepsBooks
  <2>2. UNCHANGED <<paramVars, wiringVars, flashVars, isMinter>>
    BY <1>4 DEF Issue, Redeem, HoldersOnly
  <2> QED
    BY <2>1, <2>2, UnchangedKeepsWiring DEF WiringInv
<1>5. ASSUME NEW minter \in OtherMinters, Resign(minter)
      PROVE  BooksInv' /\ WiringInv'
  <2>1. MoneyUnchanged /\ UNCHANGED <<paramVars, wiringVars, flashVars>>
    BY <1>5 DEF Resign, MoneyUnchanged
  <2>2. isMinter' \subseteq Minters
    BY <1>5 DEF Resign, MinterRemoved, WiringInv
  <2> QED
    BY <2>1, <2>2, UnchangedKeepsBooks, UnchangedKeepsWiring
<1>6. ASSUME NEW from \in {Public, Recipient}, NEW to \in Accounts \ {Recipient},
             NEW amount \in Amounts, Transfer(from, to, amount)
      PROVE  BooksInv' /\ WiringInv'
  <2>1. BooksInv'
    BY <1>6, AmountTypes, TransferKeepsBooks
  <2>2. UNCHANGED <<paramVars, wiringVars, flashVars, isMinter>>
    BY <1>6 DEF Transfer, HoldersOnly
  <2> QED
    BY <2>1, <2>2, UnchangedKeepsWiring DEF WiringInv
<1>7. ASSUME NEW amount \in Amounts, BurnStablecoin(amount)
      PROVE  BooksInv' /\ WiringInv'
  <2>1. BooksInv'
    BY <1>7, AmountTypes, GiftKeepsBooks
  <2>2. UNCHANGED <<paramVars, wiringVars, flashVars, isMinter>>
    BY <1>7 DEF BurnStablecoin, HoldersOnly
  <2> QED
    BY <2>1, <2>2, UnchangedKeepsWiring DEF WiringInv
<1> QED
  BY <1>1, <1>2, <1>3, <1>4, <1>5, <1>6, <1>7 DEF Users

LEMMA AccountingKeepsInv ==
    ASSUME TreasuryAssumption, BooksInv, WiringInv, loan.amount \in Nat,
           loan'.amount = loan.amount, Accounting
    PROVE  BooksInv' /\ WiringInv'
<1>1. PICK t \in Treasuries :
        \/ FetchSurplusFromAll(t)
        \/ FetchSurplusFromFlashLoan(t)
        \/ PushSurplus(t)
        \/ \E amount \in Amounts : UpdateBadDebt(t, amount) \/ RecoverERC20(t, amount)
  BY DEF Accounting
<1>2. BooksInv'
  BY <1>1, AmountTypes, FetchSurplusFromAllKeepsBooks, FlashSurplusKeepsBooks,
     PushSurplusKeepsBooks, UpdateBadDebtKeepsBooks, RecoverERC20KeepsBooks
<1>3. UNCHANGED <<paramVars, wiringVars, flashVars, isMinter>>
  BY <1>1 DEF FetchSurplusFromAll, FetchSurplusFromFlashLoan, PushSurplus, UpdateBadDebt,
              RecoverERC20, FetchAndPay
<1> QED
  BY <1>2, <1>3, UnchangedKeepsWiring DEF WiringInv

LEMMA GovernanceKeepsInv ==
    ASSUME TreasuryAssumption, BooksInv, WiringInv, loan'.amount = loan.amount, Governance
    PROVE  BooksInv' /\ WiringInv'
<1>1. MoneyUnchanged /\ WiringInv'
  BY ParametersKeepWiring, RegistryKeepsWiring, CoreKeepsWiring, Zenon DEF Governance
<1> QED
  BY <1>1, UnchangedKeepsBooks

LEMMA CallKeepsInv ==
    ASSUME TreasuryAssumption, LedgerInv, Call
    PROVE  LedgerInv'
<1>1. loan.amount \in Nat /\ loan'.amount = loan.amount
  BY DEF LedgerInv, LoanInv, LoanType, Call, NoLoan
<1>2. BooksInv' /\ WiringInv'
  BY <1>1, UsersKeepInv, AccountingKeepsInv, GovernanceKeepsInv DEF LedgerInv, Call
<1>3. LoanInv'
  <2>1. UNCHANGED saved
    BY DEF Call
  <2>2. CASE loan = NoLoan
    BY <2>1, <2>2 DEF Call, LedgerInv, LoanInv
  <2>3. CASE loan # NoLoan
    <3>1. /\ loan' \in LoanType /\ loan'.module = loan.module /\ loan.module \in FlashModules
      BY <2>3 DEF Call, LedgerInv, LoanInv, LoanType
    <3>2. loan' # NoLoan
      BY <3>1 DEF NoLoan, TreasuryAssumption
    <3> QED
      BY <2>1, <2>3, <3>1, <3>2 DEF LedgerInv, LoanInv
  <2> QED
    BY <2>2, <2>3
<1> QED
  BY <1>2, <1>3 DEF LedgerInv

\* A loan mints what it will burn, and the state it may go back to has the books
\* without it.
LEMMA BeginKeepsInv ==
    ASSUME TreasuryAssumption, LedgerInv, NEW m \in FlashModules, NEW amount \in Amounts,
           BeginFlashLoan(m, amount)
    PROVE  LedgerInv'
<1>1. amount \in Nat /\ FlashFee(m, amount) \in Nat
  <2>1. amount \in Nat /\ BASE_PARAMS \in Nat \ {0}
    BY DEF TreasuryAssumption
  <2>2. flashLoanFee[m] \in Nat
    BY <2>1 DEF LedgerInv, WiringInv
  <2> QED
    BY <2>1, <2>2, ProductIsNat, DivisionIsNat DEF FlashFee
<1>2. /\ loan = NoLoan /\ loan.amount = 0
      /\ loan' = [module |-> m, amount |-> amount, fee |-> FlashFee(m, amount), steps |-> 0]
  BY DEF BeginFlashLoan, Lend, NoLoan
<1>3. /\ balanceOf' = [balanceOf EXCEPT ![Public] = @ + amount]
      /\ UNCHANGED <<debt, surplus, lost, badDebt, surplusBuffer, issued, renounced>>
      /\ UNCHANGED <<paramVars, wiringVars, flashVars, isMinter>>
  BY DEF BeginFlashLoan, Lend, Minted, AccountingUnchanged, vmVars, othersVars, bufferVars,
         wiringVars
<1>4. WiringInv'
  BY <1>3, UnchangedKeepsWiring DEF LedgerInv, WiringInv
<1>5. BooksInv'
  <2>1. balanceOf \in [Accounts -> Nat] /\ IsFiniteSet(UnitsOf(balanceOf)) /\ Public \in Accounts
    BY PlacesOfAccounts, BooksParts DEF LedgerInv
  <2>2. /\ balanceOf' \in [Accounts -> Nat] /\ balanceOf'[Public] = balanceOf[Public] + amount
        /\ \A a \in Accounts : a # Public => balanceOf'[a] = balanceOf[a]
    BY <1>1, <1>3, <2>1
  <2>3. Changed(Accounts, balanceOf, balanceOf', amount)
    BY <1>1, <2>1, <2>2, ChangedAtOne
  <2>4. /\ Changed(VaultManagers, surplus, surplus', 0)
        /\ Changed(VaultManagers, debt, debt', 0)
        /\ Changed(VaultManagers, lost, lost', 0)
        /\ Changed(Treasuries, badDebt, badDebt', 0)
    BY <1>3, BooksUnmoved DEF LedgerInv
  <2>5. \A t \in Treasuries : surplusBuffer'[t] <= balanceOf'[t]
    BY <1>3, <2>2, PlacesOfAccounts DEF LedgerInv, BooksInv, BooksOK
  <2>6. /\ issued' \in Nat /\ renounced' \in Nat /\ surplusBuffer' \in [Treasuries -> Nat]
        /\ \A t \in Treasuries : badDebt'[t] # 0 => surplusBuffer'[t] = 0
    BY <1>3 DEF LedgerInv, BooksInv, BooksOK
  <2>7. /\ loan.amount \in Nat /\ loan'.amount \in Nat
        /\ amount + 0 + renounced' - renounced
             = 0 + 0 + 0 + (issued' - issued) + (loan'.amount - loan.amount)
    BY <1>1, <1>2, <1>3 DEF LedgerInv, BooksInv, BooksOK
  <2> QED
    BY <2>3, <2>4, <2>5, <2>6, <2>7, BooksFromChanges DEF LedgerInv
<1>6. LoanInv'
  <2>1. saved' = Snapshot
    BY DEF BeginFlashLoan
  <2>2. StateTypes(saved') /\ SavedBooks(saved')
    BY <1>2, <2>1, SnapshotTypes DEF LedgerInv
  <2>3. loan' \in LoanType /\ loan'.module = m
    BY <1>1, <1>2 DEF LoanType
  <2>4. loan' # NoLoan
    BY <2>3 DEF NoLoan, TreasuryAssumption
  <2> QED
    BY <2>2, <2>3, <2>4 DEF LoanInv
<1> QED
  BY <1>4, <1>5, <1>6 DEF LedgerInv

\* Collecting burns what was minted; the fee stays in the module.
LEMMA EndKeepsInv ==
    ASSUME TreasuryAssumption, LedgerInv, EndFlashLoan
    PROVE  LedgerInv'
<1> DEFINE m    == loan.module
           owed == loan.amount + loan.fee
           back == Transferred(balanceOf, Public, m, owed)
<1>1. /\ loan # NoLoan /\ loan' = NoLoan /\ loan'.amount = 0 /\ saved' = NoSnapshot
  BY DEF EndFlashLoan, CollectLoan, NoLoan
<1>2. /\ m \in FlashModules /\ m \in Accounts /\ m \notin Treasuries /\ Public \in Accounts
      /\ loan.amount \in Nat /\ loan.fee \in Nat /\ owed \in Nat
  BY <1>1, PlacesOfAccounts DEF LedgerInv, LoanInv, LoanType, TreasuryAssumption
<1>3. /\ owed <= balanceOf[Public]
      /\ balanceOf' = [back EXCEPT ![m] = @ - loan.amount]
      /\ UNCHANGED <<debt, surplus, lost, badDebt, surplusBuffer, issued, renounced>>
      /\ UNCHANGED <<paramVars, wiringVars, flashVars, isMinter>>
  BY <1>2, BooksParts DEF LedgerInv, EndFlashLoan, CollectLoan, Burned, AccountingUnchanged, vmVars,
         othersVars, bufferVars, wiringVars
<1>4. WiringInv'
  BY <1>3, UnchangedKeepsWiring DEF LedgerInv, WiringInv
<1>5. BooksInv'
  <2>1. balanceOf \in [Accounts -> Nat] /\ IsFiniteSet(UnitsOf(balanceOf))
    BY BooksParts DEF LedgerInv
  <2> HIDE DEF m, owed
  <2>2. /\ Changed(Accounts, balanceOf, back, 0)
        /\ \A a \in Accounts : a # Public => back[a] >= balanceOf[a]
        /\ back[m] >= owed
    BY <1>2, <1>3, <2>1, TransferKeepsTotal
  <2> HIDE DEF back
  <2>3. back \in [Accounts -> Nat] /\ IsFiniteSet(UnitsOf(back))
    BY <2>2 DEF Changed
  <2>4. loan.amount <= back[m]
    BY <1>2, <2>2, <2>3 DEF owed
  <2>5. /\ balanceOf' \in [Accounts -> Nat] /\ balanceOf'[m] = back[m] + (0 - loan.amount)
        /\ 0 - loan.amount \in Int
        /\ \A a \in Accounts : a # m => balanceOf'[a] = back[a]
    BY <1>2, <1>3, <2>3, <2>4
  <2>6. Changed(Accounts, back, balanceOf', 0 - loan.amount)
    BY <1>2, <2>3, <2>5, ChangedAtOne
  <2>7. Changed(Accounts, balanceOf, balanceOf', 0 - loan.amount)
    BY <2>2, <2>6 DEF Changed
  <2>8. /\ Changed(VaultManagers, surplus, surplus', 0)
        /\ Changed(VaultManagers, debt, debt', 0)
        /\ Changed(VaultManagers, lost, lost', 0)
        /\ Changed(Treasuries, badDebt, badDebt', 0)
    BY <1>3, BooksUnmoved DEF LedgerInv
  <2>9. \A t \in Treasuries : surplusBuffer'[t] <= balanceOf'[t]
    <3>1. \A t \in Treasuries : balanceOf'[t] >= balanceOf[t]
      BY <1>2, <2>2, <2>5, PlacesOfAccounts
    <3> QED
      BY <1>3, <2>1, <2>5, <3>1, PlacesOfAccounts DEF LedgerInv, BooksInv, BooksOK
  <2>10. /\ issued' \in Nat /\ renounced' \in Nat /\ surplusBuffer' \in [Treasuries -> Nat]
         /\ \A t \in Treasuries : badDebt'[t] # 0 => surplusBuffer'[t] = 0
    BY <1>3 DEF LedgerInv, BooksInv, BooksOK
  <2>11. /\ loan.amount \in Nat /\ loan'.amount \in Nat
         /\ (0 - loan.amount) + 0 + renounced' - renounced
              = 0 + 0 + 0 + (issued' - issued) + (loan'.amount - loan.amount)
    BY <1>1, <1>2, <1>3 DEF LedgerInv, BooksInv, BooksOK
  <2> QED
    BY <2>7, <2>8, <2>9, <2>10, <2>11, BooksFromChanges DEF LedgerInv
<1>6. LoanInv'
  BY <1>1 DEF LoanInv, LoanType, NoLoan
<1> QED
  BY <1>4, <1>5, <1>6 DEF LedgerInv

\* Rolling back restores a state that had the invariant.
LEMMA RevertKeepsInv ==
    ASSUME TreasuryAssumption, LedgerInv, RevertFlashLoan
    PROVE  LedgerInv'
<1>1. /\ loan # NoLoan /\ loan' = NoLoan /\ loan'.amount = 0 /\ saved' = NoSnapshot
  BY DEF RevertFlashLoan, NoLoan
<1>2. StateTypes(saved) /\ SavedBooks(saved)
  BY <1>1 DEF LedgerInv, LoanInv
<1>3. BooksInv'
  BY <1>1, <1>2 DEF RevertFlashLoan, SavedBooks, BooksInv
<1>4. WiringInv'
  BY <1>2 DEF RevertFlashLoan, StateTypes, WiringInv
<1>5. LoanInv'
  BY <1>1 DEF LoanInv, LoanType, NoLoan
<1> QED
  BY <1>3, <1>4, <1>5 DEF LedgerInv

LEMMA StutterKeepsInv ==
    ASSUME LedgerInv, UNCHANGED vars
    PROVE  LedgerInv'
<1>1. BooksInv'
  BY DEF LedgerInv, BooksInv, BooksOK, vars, vmVars, bufferVars, othersVars
<1>2. WiringInv'
  BY DEF LedgerInv, WiringInv, vars, wiringVars, registryVars, coreVars, paramVars, flashVars
<1>3. LoanInv'
  BY DEF LedgerInv, LoanInv, vars
<1> QED
  BY <1>1, <1>2, <1>3 DEF LedgerInv

LEMMA LedgerIsInvariant ==
    Spec => []LedgerInv
<1>1. Init => LedgerInv
  BY TreasuryAssumption, InitialLedger
<1>2. LedgerInv /\ [Next]_vars => LedgerInv'
  BY TreasuryAssumption, CallKeepsInv, BeginKeepsInv, EndKeepsInv, RevertKeepsInv,
     StutterKeepsInv DEF Next
<1> QED
  BY <1>1, <1>2, PTL DEF Spec

-----------------------------------------------------------------------------
(***************************************************************************)
(* No unsigned amount of the treasury, of the VaultManagers or of the      *)
(* token goes below zero, in any sequence of calls, flash loans around     *)
(* them and rollbacks, and every variable has its type.                    *)
(***************************************************************************)
THEOREM TypesAreRight ==
    Spec => []TypeOK
  BY LedgerIsInvariant, LedgerImplies, PTL

(***************************************************************************)
(* Every stablecoin has its counterpart: what accrueInterestToTreasury     *)
(* mints, what _updateSurplusAndBadDebt and updateBadDebt burn and what    *)
(* flash loans mint and burn keep both sides equal.                        *)
(***************************************************************************)
THEOREM BooksBalance ==
    Spec => []StablecoinsAddUp
  BY LedgerIsInvariant, LedgerImplies, PTL

(***************************************************************************)
(* A treasury holds what its surplusBuffer counts, whatever is pushed to   *)
(* governance, recovered or burnt.                                         *)
(***************************************************************************)
THEOREM BufferStaysBacked ==
    Spec => []BufferIsBacked
  BY LedgerIsInvariant, LedgerImplies, PTL

(***************************************************************************)
(* There is never a surplus beside a bad debt: it pays for the losses of   *)
(* every VaultManager first, in whatever order they come.                  *)
(***************************************************************************)
THEOREM LossesArePaidFirst ==
    Spec => []LossesComeFirst
  BY LedgerIsInvariant, LedgerImplies, PTL

-----------------------------------------------------------------------------
(***************************************************************************)
(* The registry and the right to mint                                      *)
(*                                                                         *)
(* RegisteredCanMint is about the treasury of the token; it is inductive   *)
(* once one knows that no VaultManager registered with another treasury    *)
(* still answers to it (RightsOK).  RegistryConsistent is proved of lists  *)
(* without repetitions.                                                    *)
(***************************************************************************)

Listing(list) == {list[i] : i \in DOMAIN list}

OnceEach(list) == \A i, j \in DOMAIN list : list[i] = list[j] => i = j

RegistryOK(lists, maps) ==
    \A t \in Treasuries : maps[t] = Listing(lists[t]) /\ OnceEach(lists[t])

\* A VaultManager that answers to the treasury it is registered with can mint, and
\* that treasury is in charge of the token.
RightsOK(maps, of, minters, current) ==
    \A t \in Treasuries, vm \in VaultManagers :
        vm \in maps[t] /\ of[vm] = t => t = current /\ vm \in minters

ReasonsOK(minters, maps, modules) ==
    \A m \in minters : \/ m \in MinterChoices
                       \/ \E t \in Treasuries : m \in maps[t] \/ m = modules[t]

RightsInv ==
    /\ RegistryOK(vaultManagerList, vaultManagerMap)
    /\ RightsOK(vaultManagerMap, treasuryOf, isMinter, tokenTreasury)
    /\ ReasonsOK(isMinter, vaultManagerMap, flashLoanModule)

SavedRights(st) ==
    /\ RegistryOK(st.vaultManagerList, st.vaultManagerMap)
    /\ RightsOK(st.vaultManagerMap, st.treasuryOf, st.isMinter, st.tokenTreasury)
    /\ ReasonsOK(st.isMinter, st.vaultManagerMap, st.flashLoanModule)

RegistryInv == RightsInv /\ (loan # NoLoan => SavedRights(saved))

\* A list without repetitions is as long as its set is large.
LEMMA LengthOfListing ==
    ASSUME NEW S, NEW list \in Seq(S), OnceEach(list)
    PROVE  Len(list) = Cardinality(Listing(list))
<1> DEFINE n == Len(list)
<1>1. n \in Nat /\ DOMAIN list = 1..n
  OBVIOUS
<1>2. IsFiniteSet(1..n) /\ Cardinality(1..n) = n
  BY <1>1, FS_Interval
<1>3. list \in Bijection(1..n, Listing(list))
  <2>1. list \in [1..n -> Listing(list)]
    BY <1>1 DEF Listing
  <2> QED
    BY <1>1, <2>1 DEF Listing, OnceEach, Bijection, Injection, Surjection, IsInjective
<1>4. Cardinality(1..n) = Cardinality(Listing(list))
  <2> HIDE DEF n
  <2>1. ExistsBijection(1..n, Listing(list))
    BY <1>3 DEF ExistsBijection
  <2> QED
    BY <1>2, <2>1, FS_Bijection
<1> QED
  BY <1>2, <1>4

\* addVaultManager pushes what is not there.
LEMMA ListingAppended ==
    ASSUME NEW S, NEW list \in Seq(S), OnceEach(list), NEW vm \in S, vm \notin Listing(list)
    PROVE  /\ OnceEach(Append(list, vm))
           /\ Listing(Append(list, vm)) = Listing(list) \cup {vm}
<1> DEFINE n == Len(list)
           new == Append(list, vm)
<1>1. n \in Nat /\ DOMAIN list = 1..n
  OBVIOUS
<1>2. /\ DOMAIN new = 1..(n + 1) /\ new[n + 1] = vm
      /\ \A i \in 1..n : new[i] = list[i]
  OBVIOUS
<1> HIDE DEF n, new
<1>3. \A i \in 1..(n + 1) : i \in 1..n \/ i = n + 1
  BY <1>1
<1>4. \A i \in 1..n : i \in 1..(n + 1) /\ list[i] # vm
  BY <1>1 DEF Listing
<1>5. OnceEach(new)
  BY <1>1, <1>2, <1>3, <1>4 DEF OnceEach
<1>6. n + 1 \in 1..(n + 1)
  BY <1>1
<1>7. Listing(new) = Listing(list) \cup {vm}
  BY <1>1, <1>2, <1>3, <1>4, <1>6 DEF Listing
<1> QED
  BY <1>5, <1>7 DEF new

\* The loop of removeVaultManager: what is removed is in one place, and the last entry
\* takes it, unless it is the last one.
LEMMA ListingShortened ==
    ASSUME NEW S, NEW list \in Seq(S), OnceEach(list), NEW vm \in Listing(list)
    PROVE  /\ OnceEach(ListWithout(list, vm))
           /\ Listing(ListWithout(list, vm)) = Listing(list) \ {vm}
<1> DEFINE last == Len(list)
           new == ListWithout(list, vm)
<1>1. last \in Nat /\ DOMAIN list = 1..last
  OBVIOUS
<1>2. PICK k \in 1..last : list[k] = vm
  BY <1>1 DEF Listing
<1>3. \A i \in 1..last : list[i] = vm <=> i = k
  BY <1>1, <1>2 DEF OnceEach
<1>4. DOMAIN new = 1..(last - 1)
  BY DEF ListWithout
<1>5. \A i \in 1..(last - 1) : new[i] = IF i = k THEN list[last] ELSE list[i]
  <2> SUFFICES ASSUME NEW i \in 1..(last - 1)
               PROVE  new[i] = IF i = k THEN list[last] ELSE list[i]
    OBVIOUS
  <2>1. (list[i] = vm /\ \A j \in 1..(i - 1) : list[j] # vm) <=> i = k
    BY <1>1, <1>2, <1>3
  <2> QED
    BY <2>1 DEF ListWithout
<1> HIDE DEF last, new
<1>6. \A i \in 1..(last - 1) : i \in 1..last /\ i # last
  BY <1>1
<1>7. last \in 1..last
  BY <1>1, <1>2
<1>8. OnceEach(new)
  <2> SUFFICES ASSUME NEW i \in 1..(last - 1), NEW j \in 1..(last - 1), new[i] = new[j]
               PROVE  i = j
    BY <1>4 DEF OnceEach
  <2> QED
    BY <1>1, <1>5, <1>6, <1>7 DEF OnceEach
<1>9. ASSUME NEW x \in Listing(new) PROVE x \in Listing(list) \ {vm}
  <2>1. PICK i \in 1..(last - 1) : x = new[i]
    BY <1>4, <1>9 DEF Listing
  <2>2. CASE i = k
    <3>1. x = list[last] /\ last # k
      BY <1>5, <1>6, <2>1, <2>2
    <3> QED
      BY <1>1, <1>3, <1>7, <3>1 DEF Listing
  <2>3. CASE i # k
    BY <1>1, <1>3, <1>5, <1>6, <2>1, <2>3 DEF Listing
  <2> QED
    BY <2>2, <2>3
<1>10. ASSUME NEW x \in Listing(list) \ {vm} PROVE x \in Listing(new)
  <2>1. PICK i \in 1..last : x = list[i] /\ i # k
    BY <1>1, <1>2, <1>10 DEF Listing
  <2>2. CASE i = last
    <3>1. k \in 1..(last - 1)
      BY <1>1, <1>2, <2>1, <2>2
    <3> QED
      BY <1>4, <1>5, <2>1, <2>2, <3>1 DEF Listing
  <2>3. CASE i # last
    <3>1. i \in 1..(last - 1)
      BY <1>1, <2>1, <2>3
    <3> QED
      BY <1>4, <1>5, <2>1, <3>1 DEF Listing
  <2> QED
    BY <2>2, <2>3
<1> QED
  BY <1>8, <1>9, <1>10 DEF new

LEMMA InitialRights ==
    ASSUME TreasuryAssumption, Init
    PROVE  RegistryInv
  BY DEF Init, RegistryInv, RightsInv, RegistryOK, RightsOK, ReasonsOK, Listing, OnceEach

\* What concerns nobody's rights.
LEMMA RightsUnmoved ==
    ASSUME RightsInv, UNCHANGED <<vaultManagerList, vaultManagerMap, treasuryOf, isMinter,
                                  tokenTreasury, flashLoanModule>>
    PROVE  RightsInv'
  BY DEF RightsInv, RegistryOK, RightsOK, ReasonsOK, Listing, OnceEach

\* Minters go, or come with a reason; the registry stays as it is.
LEMMA MintersMoved ==
    ASSUME RightsInv,
           UNCHANGED <<vaultManagerList, vaultManagerMap, treasuryOf, tokenTreasury>>,
           \A vm \in VaultManagers : \A t \in Treasuries :
               vm \in vaultManagerMap[t] /\ treasuryOf[vm] = t /\ vm \in isMinter
                  => vm \in isMinter',
           ReasonsOK(isMinter', vaultManagerMap, flashLoanModule')
    PROVE  RightsInv'
<1>1. RegistryOK(vaultManagerList, vaultManagerMap)'
  BY DEF RightsInv, RegistryOK, Listing, OnceEach
<1>2. RightsOK(vaultManagerMap, treasuryOf, isMinter, tokenTreasury)'
  BY DEF RightsInv, RightsOK
<1>3. ReasonsOK(isMinter, vaultManagerMap, flashLoanModule)'
  BY DEF ReasonsOK
<1> QED
  BY <1>1, <1>2, <1>3 DEF RightsInv

LEMMA AddVaultManagerRights ==
    ASSUME WiringInv, RightsInv, NEW t \in Treasuries, NEW vm \in VaultManagers,
           AddVaultManager(t, vm)
    PROVE  RightsInv'
<1>1. /\ vm \notin vaultManagerMap[t] /\ treasuryOf[vm] = t /\ t = tokenTreasury
      /\ isMinter' = isMinter \cup {vm}
      /\ UNCHANGED <<treasuryOf, flashLoanModule, tokenTreasury>>
  BY DEF AddVaultManager, MintersAdded
<1>2. /\ vaultManagerMap'[t] = vaultManagerMap[t] \cup {vm}
      /\ vaultManagerList'[t] = Append(vaultManagerList[t], vm)
      /\ \A o \in Treasuries : o # t =>
            vaultManagerMap'[o] = vaultManagerMap[o] /\ vaultManagerList'[o] = vaultManagerList[o]
  BY DEF AddVaultManager, WiringInv
<1>3. RegistryOK(vaultManagerList, vaultManagerMap)'
  <2>1. vaultManagerMap[t] = Listing(vaultManagerList[t]) /\ OnceEach(vaultManagerList[t])
    BY DEF RightsInv, RegistryOK
  <2>2. /\ OnceEach(vaultManagerList'[t])
        /\ vaultManagerMap'[t] = Listing(vaultManagerList'[t])
    BY <1>1, <1>2, <2>1, ListingAppended DEF WiringInv
  <2> QED
    BY <1>2, <2>2 DEF RightsInv, RegistryOK
<1>4. RightsOK(vaultManagerMap, treasuryOf, isMinter, tokenTreasury)'
  BY <1>1, <1>2 DEF RightsInv, RightsOK
<1>5. ReasonsOK(isMinter, vaultManagerMap, flashLoanModule)'
  BY <1>1, <1>2 DEF RightsInv, ReasonsOK
<1> QED
  BY <1>3, <1>4, <1>5 DEF RightsInv

LEMMA RemoveVaultManagerRights ==
    ASSUME TreasuryAssumption, WiringInv, RightsInv, NEW t \in Treasuries,
           NEW vm \in VaultManagers, RemoveVaultManager(t, vm)
    PROVE  RightsInv'
<1>1. /\ vm \in vaultManagerMap[t] /\ t = tokenTreasury
      /\ isMinter' = isMinter \ {vm}
      /\ UNCHANGED <<treasuryOf, flashLoanModule, tokenTreasury>>
  BY DEF RemoveVaultManager, MinterRemoved, TreasuryAssumption
<1>2. /\ vaultManagerMap'[t] = vaultManagerMap[t] \ {vm}
      /\ vaultManagerList'[t] = ListWithout(vaultManagerList[t], vm)
      /\ \A o \in Treasuries : o # t =>
            vaultManagerMap'[o] = vaultManagerMap[o] /\ vaultManagerList'[o] = vaultManagerList[o]
  BY DEF RemoveVaultManager, WiringInv
<1>3. RegistryOK(vaultManagerList, vaultManagerMap)'
  <2>1. vaultManagerMap[t] = Listing(vaultManagerList[t]) /\ OnceEach(vaultManagerList[t])
    BY DEF RightsInv, RegistryOK
  <2>2. /\ OnceEach(vaultManagerList'[t])
        /\ vaultManagerMap'[t] = Listing(vaultManagerList'[t])
    BY <1>1, <1>2, <2>1, ListingShortened DEF WiringInv
  <2> QED
    BY <1>2, <2>2 DEF RightsInv, RegistryOK
<1>4. RightsOK(vaultManagerMap, treasuryOf, isMinter, tokenTreasury)'
  BY <1>1, <1>2 DEF RightsInv, RightsOK
<1>5. ReasonsOK(isMinter, vaultManagerMap, flashLoanModule)'
  BY <1>1, <1>2 DEF RightsInv, ReasonsOK
<1> QED
  BY <1>3, <1>4, <1>5 DEF RightsInv

\* The treasury that takes over finds the VaultManagers of the old one able to mint, and
\* none registered with it still answers to it.
LEMMA SetTreasuryRights ==
    ASSUME WiringInv, RightsInv, NEW t \in Treasuries, NEW new \in Treasuries,
           SetTreasury(t, new)
    PROVE  RightsInv'
<1>1. /\ t = tokenTreasury /\ tokenTreasury' = new
      /\ \A vm \in Listed(t) : treasuryOf[vm] = t
      /\ \A vm \in VaultManagers :
            treasuryOf'[vm] = IF vm \in Listed(t) THEN new ELSE treasuryOf[vm]
      /\ UNCHANGED <<vaultManagerList, vaultManagerMap, isMinter, flashLoanModule>>
  BY DEF SetTreasury, TokenTreasurySet, registryVars
<1>2. Listed(t) = vaultManagerMap[t]
  BY DEF RightsInv, RegistryOK, Listed, Listing
<1>3. RegistryOK(vaultManagerList, vaultManagerMap)'
      /\ ReasonsOK(isMinter, vaultManagerMap, flashLoanModule)'
  BY <1>1 DEF RightsInv, RegistryOK, ReasonsOK, Listing, OnceEach
<1>4. RightsOK(vaultManagerMap, treasuryOf, isMinter, tokenTreasury)'
  BY <1>1, <1>2 DEF RightsInv, RightsOK
<1> QED
  BY <1>3, <1>4 DEF RightsInv

\* A module that is replaced loses the right that it had for being one.
LEMMA InstallingRights ==
    ASSUME TreasuryAssumption, WiringInv, RightsInv, NEW S \in SUBSET Treasuries,
           NEW new \in FlashModules \cup {NoModule}, ModuleInstalled(S, new),
           UNCHANGED <<vaultManagerList, vaultManagerMap, treasuryOf, tokenTreasury>>
    PROVE  RightsInv'
<1> DEFINE old == {flashLoanModule[t] : t \in S} \ {NoModule}
<1>1. old \subseteq FlashModules
  BY DEF WiringInv
<1>2. /\ isMinter \ old \subseteq isMinter'
      /\ \A m \in isMinter' : m \in isMinter \ old \/ (m = new /\ S # {})
      /\ \A t \in Treasuries : flashLoanModule'[t] = IF t \in S THEN new ELSE flashLoanModule[t]
  BY DEF ModuleInstalled
<1>3. \A vm \in VaultManagers : vm \in isMinter => vm \in isMinter'
  BY <1>1, <1>2 DEF TreasuryAssumption
<1>4. ReasonsOK(isMinter', vaultManagerMap, flashLoanModule')
  <2> SUFFICES ASSUME NEW m \in isMinter', m \notin MinterChoices,
                      \A t \in Treasuries : m \notin vaultManagerMap[t]
               PROVE  \E t \in Treasuries : m = flashLoanModule'[t]
    BY DEF ReasonsOK
  <2>1. CASE m = new /\ S # {}
    BY <1>2, <2>1
  <2>2. CASE m \in isMinter \ old
    <3>1. PICK t \in Treasuries : m = flashLoanModule[t]
      BY <2>2 DEF RightsInv, ReasonsOK
    <3>2. CASE t \in S
      <4>1. m = NoModule
        BY <2>2, <3>1, <3>2
      <4>2. NoModule \notin isMinter
        BY DEF WiringInv, TreasuryAssumption
      <4> QED
        BY <2>2, <4>1, <4>2
    <3>3. CASE t \notin S
      BY <1>2, <3>1, <3>3
    <3> QED
      BY <3>2, <3>3
  <2> QED
    BY <1>2, <2>1, <2>2
<1> QED
  BY <1>3, <1>4, MintersMoved

LEMMA GovernanceKeepsRights ==
    ASSUME TreasuryAssumption, WiringInv, RightsInv, Governance
    PROVE  RightsInv'
<1>1. ASSUME NEW t \in Treasuries, NEW vm \in VaultManagers,
             AddVaultManager(t, vm) \/ RemoveVaultManager(t, vm)
      PROVE  RightsInv'
  BY <1>1, AddVaultManagerRights, RemoveVaultManagerRights
<1>2. ASSUME NEW t \in Treasuries, NEW minter \in MinterChoices, AddMinter(t, minter)
      PROVE  RightsInv'
  <2>1. /\ isMinter' = isMinter \cup {minter} /\ flashLoanModule' = flashLoanModule
        /\ UNCHANGED <<vaultManagerList, vaultManagerMap, treasuryOf, tokenTreasury>>
    BY <1>2 DEF AddMinter, MintersAdded, wiringVars, registryVars
  <2> QED
    BY <1>2, <2>1, MintersMoved DEF RightsInv, ReasonsOK
<1>3. ASSUME NEW t \in Treasuries, NEW minter \in Minters, RemoveMinter(t, minter)
      PROVE  RightsInv'
  <2>1. /\ minter \notin vaultManagerMap[t] /\ t \in {tokenTreasury, minter}
        /\ isMinter' = isMinter \ {minter} /\ flashLoanModule' = flashLoanModule
        /\ UNCHANGED <<vaultManagerList, vaultManagerMap, treasuryOf, tokenTreasury>>
    BY <1>3 DEF RemoveMinter, MinterRemoved, wiringVars, registryVars
  <2>2. ASSUME NEW vm \in VaultManagers, NEW o \in Treasuries,
               vm \in vaultManagerMap[o], treasuryOf[vm] = o
        PROVE  vm # minter
    BY <2>1, <2>2 DEF RightsInv, RightsOK, TreasuryAssumption
  <2> QED
    BY <2>1, <2>2, MintersMoved DEF RightsInv, ReasonsOK
<1>4. ASSUME NEW t \in Treasuries, NEW new \in Treasuries, SetTreasury(t, new)
      PROVE  RightsInv'
  BY <1>4, SetTreasuryRights
<1>5. ASSUME NEW t \in Treasuries,
             \/ \E share \in Shares : SetSurplusForGovernance(t, share)
             \/ \E manager \in Managers : SetSurplusManager(t, manager)
      PROVE  RightsInv'
  BY <1>5, RightsUnmoved DEF SetSurplusForGovernance, SetSurplusManager, wiringVars, registryVars
<1>6. ASSUME NEW m \in FlashModules, NEW params \in FlashParams, SetParameters(m, params)
      PROVE  RightsInv'
  BY <1>6, RightsUnmoved DEF SetParameters, wiringVars, registryVars
<1>7. ASSUME NEW new \in FlashModules \union {NoModule}, SetFlashLoanModule(new)
      PROVE  RightsInv'
  BY <1>7, InstallingRights DEF SetFlashLoanModule, CoreUnchanged, registryVars, WiringInv
<1>8. ASSUME NEW t \in Treasuries,
             \/ AddFlashLoanerTreasuryRole(t)
             \/ RemoveFlashLoanerTreasuryRole(t)
             \/ GrantOrRevokeRole(t)
      PROVE  RightsInv'
  <2>1. UNCHANGED <<vaultManagerList, vaultManagerMap, treasuryOf, tokenTreasury>>
    BY <1>8 DEF AddFlashLoanerTreasuryRole, RemoveFlashLoanerTreasuryRole, GrantOrRevokeRole,
                CoreUnchanged, registryVars
  <2>2. \/ UNCHANGED <<flashLoanModule, isMinter>>
        \/ ModuleInstalled({t}, coreModule) \/ ModuleInstalled({t}, NoModule)
    BY <1>8 DEF AddFlashLoanerTreasuryRole, RemoveFlashLoanerTreasuryRole, GrantOrRevokeRole
  <2>3. coreModule \in FlashModules \cup {NoModule} /\ {t} \in SUBSET Treasuries
    BY DEF WiringInv
  <2> QED
    BY <2>1, <2>2, <2>3, RightsUnmoved, InstallingRights
<1>9. \/ \E t \in Treasuries, vm \in VaultManagers :
            AddVaultManager(t, vm) \/ RemoveVaultManager(t, vm)
      \/ \E t \in Treasuries, minter \in MinterChoices : AddMinter(t, minter)
      \/ \E t \in Treasuries, minter \in Minters : RemoveMinter(t, minter)
      \/ \E t, new \in Treasuries : SetTreasury(t, new)
      \/ \E t \in Treasuries, share \in Shares : SetSurplusForGovernance(t, share)
      \/ \E t \in Treasuries, manager \in Managers : SetSurplusManager(t, manager)
      \/ \E m \in FlashModules, params \in FlashParams : SetParameters(m, params)
      \/ \E new \in FlashModules \union {NoModule} : SetFlashLoanModule(new)
      \/ \E t \in Treasuries :
            \/ AddFlashLoanerTreasuryRole(t)
            \/ RemoveFlashLoanerTreasuryRole(t)
            \/ GrantOrRevokeRole(t)
  BY Zenon DEF Governance
<1> QED
  BY <1>1, <1>2, <1>3, <1>4, <1>5, <1>6, <1>7, <1>8, <1>9, Zenon

\* Users and the accounting have no say, but for a minter that resigns.
LEMMA CallKeepsRights ==
    ASSUME TreasuryAssumption, WiringInv, RightsInv, Users \/ Accounting \/ Governance
    PROVE  RightsInv'
<1>1. ASSUME NEW minter \in OtherMinters, Resign(minter) PROVE RightsInv'
  <2>1. /\ isMinter' = isMinter \ {minter} /\ flashLoanModule' = flashLoanModule
        /\ UNCHANGED <<vaultManagerList, vaultManagerMap, treasuryOf, tokenTreasury>>
    BY <1>1 DEF Resign, MinterRemoved, wiringVars, registryVars
  <2>2. minter \notin VaultManagers
    BY DEF TreasuryAssumption
  <2> QED
    BY <2>1, <2>2, MintersMoved DEF RightsInv, ReasonsOK
<1>2. CASE Users
  <2>1. (\E minter \in OtherMinters : Resign(minter)) \/ UNCHANGED <<wiringVars, isMinter>>
    BY <1>2 DEF Users, Borrow, Repay, Earn, Issue, Redeem, Transfer, BurnStablecoin, HoldersOnly
  <2> QED
    BY <1>1, <2>1, RightsUnmoved DEF wiringVars, registryVars
<1>3. CASE Accounting
  <2>1. UNCHANGED <<wiringVars, isMinter>>
    BY <1>3 DEF Accounting, FetchSurplusFromAll, FetchSurplusFromFlashLoan, PushSurplus,
                UpdateBadDebt, RecoverERC20, FetchAndPay
  <2> QED
    BY <2>1, RightsUnmoved DEF wiringVars, registryVars
<1> QED
  BY <1>2, <1>3, GovernanceKeepsRights

LEMMA RegistryStep ==
    ASSUME TreasuryAssumption, LedgerInv, RegistryInv, [Next]_vars
    PROVE  RegistryInv'
<1> USE DEF LedgerInv
<1>1. CASE Call
  <2>1. RightsInv'
    BY <1>1, CallKeepsRights DEF Call, RegistryInv
  <2>2. saved' = saved /\ (loan' # NoLoan => loan # NoLoan)
    BY <1>1 DEF Call
  <2> QED
    BY <2>1, <2>2 DEF RegistryInv, SavedRights, RegistryOK, RightsOK, ReasonsOK, Listing, OnceEach
<1>2. ASSUME NEW m \in FlashModules, NEW amount \in Amounts, BeginFlashLoan(m, amount)
      PROVE  RegistryInv'
  <2>1. UNCHANGED <<vaultManagerList, vaultManagerMap, treasuryOf, isMinter,
                    tokenTreasury, flashLoanModule>> /\ saved' = Snapshot
    BY <1>2 DEF BeginFlashLoan, Lend, AccountingUnchanged, registryVars
  <2>2. RightsInv'
    BY <2>1, RightsUnmoved DEF RegistryInv
  <2>3. SavedRights(Snapshot)
    BY DEF RegistryInv, RightsInv, SavedRights, Snapshot
  <2> QED
    BY <2>1, <2>2, <2>3
    DEF RegistryInv, SavedRights, RegistryOK, RightsOK, ReasonsOK, Listing, OnceEach
<1>3. CASE EndFlashLoan
  <2>1. UNCHANGED <<vaultManagerList, vaultManagerMap, treasuryOf, isMinter,
                    tokenTreasury, flashLoanModule>> /\ loan' = NoLoan
    BY <1>3 DEF EndFlashLoan, CollectLoan, AccountingUnchanged, registryVars
  <2> QED
    BY <2>1, RightsUnmoved DEF RegistryInv
<1>4. CASE RevertFlashLoan
  BY <1>4 DEF RevertFlashLoan, RegistryInv, RightsInv, SavedRights, RegistryOK, RightsOK,
              ReasonsOK, Listing, OnceEach
<1>5. CASE UNCHANGED vars
  <2>1. UNCHANGED <<vaultManagerList, vaultManagerMap, treasuryOf, isMinter,
                    tokenTreasury, flashLoanModule, loan, saved>>
    BY <1>5 DEF vars, wiringVars, registryVars
  <2> QED
    BY <2>1, RightsUnmoved
    DEF RegistryInv, SavedRights, RegistryOK, RightsOK, ReasonsOK, Listing, OnceEach
<1> QED
  BY <1>1, <1>2, <1>3, <1>4, <1>5 DEF Next

LEMMA RegistryIsInvariant == Spec => [](LedgerInv /\ RegistryInv)
<1>1. Init => RegistryInv
  BY TreasuryAssumption, InitialRights
<1>2. LedgerInv /\ RegistryInv /\ [Next]_vars => RegistryInv'
  BY TreasuryAssumption, RegistryStep
<1> QED
  BY <1>1, <1>2, LedgerIsInvariant, PTL DEF Spec

LEMMA RegistryImplies ==
    ASSUME LedgerInv, RegistryInv
    PROVE  RegistryConsistent /\ RegisteredCanMint /\ MintersHaveAReason
<1>1. RegistryConsistent
  <2> SUFFICES ASSUME NEW t \in Treasuries
               PROVE  /\ vaultManagerMap[t] = Listed(t)
                      /\ Len(vaultManagerList[t]) = Cardinality(Listed(t))
    BY DEF RegistryConsistent
  <2>1. /\ vaultManagerList[t] \in Seq(VaultManagers) /\ OnceEach(vaultManagerList[t])
        /\ vaultManagerMap[t] = Listing(vaultManagerList[t])
    BY DEF LedgerInv, WiringInv, RegistryInv, RightsInv, RegistryOK
  <2>2. Listed(t) = Listing(vaultManagerList[t])
    BY DEF Listed, Listing
  <2> QED
    BY <2>1, <2>2, LengthOfListing
<1>2. RegisteredCanMint
  BY DEF LedgerInv, WiringInv, RegistryInv, RightsInv, RightsOK, RegisteredCanMint
<1>3. MintersHaveAReason
  <2> SUFFICES ASSUME NEW m \in isMinter
               PROVE  m \in MinterChoices \union (UNION {vaultManagerMap[t] : t \in Treasuries})
                                            \union {flashLoanModule[t] : t \in Treasuries}
    BY DEF MintersHaveAReason
  <2>1. \/ m \in MinterChoices
        \/ \E t \in Treasuries : m \in vaultManagerMap[t] \/ m = flashLoanModule[t]
    BY DEF RegistryInv, RightsInv, ReasonsOK
  <2>2. ASSUME NEW t \in Treasuries, m \in vaultManagerMap[t]
        PROVE  m \in UNION {vaultManagerMap[u] : u \in Treasuries}
    BY <2>2
  <2>3. ASSUME NEW t \in Treasuries, m = flashLoanModule[t]
        PROVE  m \in {flashLoanModule[u] : u \in Treasuries}
    BY <2>3
  <2> QED
    BY <2>1, <2>2, <2>3
<1> QED
  BY <1>1, <1>2, <1>3

(***************************************************************************)
(* The list and the map of a treasury agree, and nothing is listed twice:  *)
(* the swap with the last entry in removeVaultManager (Treasury.sol:318)   *)
(* removes what it should, whatever was added and removed before.          *)
(***************************************************************************)
THEOREM RegistryStaysConsistent ==
    Spec => []RegistryConsistent
  BY RegistryIsInvariant, RegistryImplies, PTL

(***************************************************************************)
(* What the treasury in charge of the token has registered and is the      *)
(* treasury of can mint, through every change of treasury and of flash     *)
(* loan module, and every rollback.                                        *)
(***************************************************************************)
THEOREM RegisteredCanAlwaysMint ==
    Spec => []RegisteredCanMint
  BY RegistryIsInvariant, RegistryImplies, PTL

(***************************************************************************)
(* Nobody can mint who was not added by governance, is not registered and  *)
(* is not the flash loan module of a treasury.                             *)
(***************************************************************************)
THEOREM MintersAlwaysHaveAReason ==
    Spec => []MintersHaveAReason
  BY RegistryIsInvariant, RegistryImplies, PTL

-----------------------------------------------------------------------------
(***************************************************************************)
(* What leaves a treasury for the surplus manager                          *)
(***************************************************************************)

\* Where something is left to pay after a fetch, every loss has been burnt.
LEMMA NothingLeftBesideLosses ==
    ASSUME TreasuryAssumption, BooksInv, WiringInv, NEW t \in Treasuries,
           BalanceAfterFetch(t) # 0
    PROVE  BurntBy(t) = Losses(t)
<1>1. balanceOf[t] + Collected(t) \in Nat /\ Losses(t) \in Nat
  BY FetchFacts, PlacesOfAccounts DEF BooksInv, BooksOK
<1>2. (balanceOf[t] + Collected(t)) - BurntBy(t) # 0
  <2>1. balanceOf[t] \in Nat /\ Collected(t) \in Nat /\ BurntBy(t) \in Nat
    BY FetchFacts, PlacesOfAccounts DEF BooksInv, BooksOK
  <2> QED
    BY <2>1 DEF BalanceAfterFetch
<1>3. ASSUME NEW balance \in Nat, NEW losses \in Nat, balance - ToBurn(balance, losses) # 0
      PROVE  ToBurn(balance, losses) = losses
  BY <1>3 DEF ToBurn
<1> QED
  BY <1>1, <1>2, <1>3 DEF BurntBy

\* FetchAndPay is the only way to pay the surplus manager, and pays it `paid`.
LEMMA FetchPaysRecipient ==
    ASSUME TreasuryAssumption, BooksInv, WiringInv, NEW t \in Treasuries,
           NEW buffer, NEW paid \in Nat, FetchAndPay(t, buffer, paid)
    PROVE  balanceOf'[Recipient] = balanceOf[Recipient] + paid
<1>1. Recipient \in Accounts /\ Recipient # t /\ Recipient # flashLoanModule[t]
  BY DEF TreasuryAssumption, WiringInv
<1> QED
  BY <1>1 DEF FetchAndPay

\* What a fetch that pays leaves behind.
LEMMA FetchSettlesLosses ==
    ASSUME TreasuryAssumption, LedgerInv, RegistryInv, NEW t \in Treasuries,
           NEW buffer, NEW paid, FetchAndPay(t, buffer, paid), BalanceAfterFetch(t) # 0
    PROVE  badDebt'[t] = 0 /\ \A vm \in vaultManagerMap[t] : lost'[vm] = 0
<1>1. badDebt'[t] = 0
  <2>1. BurntBy(t) = Losses(t) /\ Losses(t) \in Nat
    BY NothingLeftBesideLosses, FetchFacts DEF LedgerInv
  <2>2. badDebt \in [Treasuries -> Nat]
    BY DEF LedgerInv, BooksInv, BooksOK
  <2> QED
    BY <2>1, <2>2 DEF FetchAndPay
<1>2. vaultManagerMap[t] = Listed(t)
  BY RegistryImplies DEF RegistryConsistent
<1>3. vaultManagerMap[t] \subseteq VaultManagers
  BY DEF LedgerInv, WiringInv
<1> QED
  BY <1>1, <1>2, <1>3 DEF FetchAndPay

PaysTheManager == balanceOf'[Recipient] > balanceOf[Recipient]

\* Users and governance never pay it.
LEMMA UsersDoNotPay ==
    ASSUME TreasuryAssumption, LedgerInv, Users
    PROVE  ~ PaysTheManager
<1>1. /\ Recipient \in Accounts /\ Public \in Accounts /\ Recipient # Public
      /\ balanceOf \in [Accounts -> Nat]
  BY PlacesOfAccounts DEF TreasuryAssumption, LedgerInv, BooksInv, BooksOK
<1>2. ASSUME NEW vm \in VaultManagers, NEW amount \in Amounts, NEW fee \in Amounts,
             \/ Borrow(vm, amount, fee)
             \/ \E loss \in Amounts : Repay(vm, amount, fee, loss)
      PROVE  balanceOf'[Recipient] = balanceOf[Recipient]
  BY <1>1, <1>2 DEF Borrow, Repay, Minted, Burned
<1>3. ASSUME NEW vm \in VaultManagers, NEW interest \in Amounts, Earn(vm, interest)
      PROVE  balanceOf'[Recipient] = balanceOf[Recipient]
  BY <1>3 DEF Earn
<1>4. ASSUME NEW minter \in OtherMinters, NEW amount \in Amounts,
             Issue(minter, amount) \/ Redeem(minter, amount)
      PROVE  balanceOf'[Recipient] = balanceOf[Recipient]
  BY <1>1, <1>4 DEF Issue, Redeem, Minted, Burned
<1>5. ASSUME NEW minter \in OtherMinters, Resign(minter)
      PROVE  balanceOf'[Recipient] = balanceOf[Recipient]
  BY <1>5 DEF Resign
<1>6. ASSUME NEW from \in {Public, Recipient}, NEW to \in Accounts \ {Recipient},
             NEW amount \in Amounts, Transfer(from, to, amount)
      PROVE  ~ PaysTheManager
  <2>1. amount \in Nat /\ balanceOf[Recipient] \in Nat
    BY <1>1, AmountTypes
  <2>2. balanceOf' = [[balanceOf EXCEPT ![from] = @ - amount] EXCEPT ![to] = @ + amount]
    BY <1>6 DEF Transfer, Transferred, Minted, Burned
  <2>3. balanceOf'[Recipient] = [balanceOf EXCEPT ![from] = @ - amount][Recipient]
    BY <1>1, <2>2
  <2>4. balanceOf'[Recipient] \in {balanceOf[Recipient], balanceOf[Recipient] - amount}
    BY <1>1, <2>3
  <2> QED
    BY <2>1, <2>4 DEF PaysTheManager
<1>7. ASSUME NEW amount \in Amounts, BurnStablecoin(amount)
      PROVE  balanceOf'[Recipient] = balanceOf[Recipient]
  BY <1>1, <1>7 DEF BurnStablecoin, Burned
<1>8. balanceOf[Recipient] \in Nat
  BY <1>1
<1>9. balanceOf'[Recipient] = balanceOf[Recipient] => ~ PaysTheManager
  BY <1>8 DEF PaysTheManager
<1> QED
  BY <1>2, <1>3, <1>4, <1>5, <1>6, <1>7, <1>9 DEF Users

LEMMA AccountingPaysWithoutLosses ==
    ASSUME TreasuryAssumption, LedgerInv, RegistryInv, LedgerInv', Accounting, PaysTheManager
    PROVE  \E t \in Treasuries : /\ badDebt'[t] = 0
                                 /\ \A vm \in vaultManagerMap[t] : lost'[vm] = 0
                                 /\ surplusBuffer'[t] <= balanceOf'[t]
<1>1. PICK t \in Treasuries :
        \/ FetchSurplusFromAll(t)
        \/ FetchSurplusFromFlashLoan(t)
        \/ PushSurplus(t)
        \/ \E amount \in Amounts : UpdateBadDebt(t, amount) \/ RecoverERC20(t, amount)
  BY DEF Accounting
<1>2. BooksInv /\ WiringInv
  BY DEF LedgerInv
<1>3. /\ Recipient \in Accounts /\ Recipient # t /\ Recipient # flashLoanModule[t]
      /\ balanceOf[Recipient] \in Nat
  BY <1>2, BooksParts DEF TreasuryAssumption, WiringInv
<1>4. /\ BufferAfterFetch(t) \in 0..BalanceAfterFetch(t) /\ BalanceAfterFetch(t) \in Nat
  BY <1>2, FetchFacts
<1>5. surplusBuffer'[t] <= balanceOf'[t]
  BY DEF LedgerInv, BooksInv, BooksOK
<1>6. SUFFICES \E buffer, paid : FetchAndPay(t, buffer, paid) /\ BalanceAfterFetch(t) # 0
  BY <1>5, FetchSettlesLosses
<1>7. CASE FetchSurplusFromAll(t)
  BY <1>2, <1>3, <1>7, FetchPaysRecipient DEF FetchSurplusFromAll, PaysTheManager
<1>8. ~ FetchSurplusFromFlashLoan(t)
  <2> SUFFICES ASSUME FetchSurplusFromFlashLoan(t)
               PROVE  FALSE
    OBVIOUS
  <2>1. balanceOf' = [balanceOf EXCEPT
                         ![t] = (balanceOf[t] + FeesFor(t))
                                   - ToBurn(balanceOf[t] + FeesFor(t), badDebt[t]),
                         ![flashLoanModule[t]] = 0]
    BY DEF FetchSurplusFromFlashLoan
  <2>2. balanceOf \in [Accounts -> Nat]
    BY <1>2, BooksParts
  <2>3. balanceOf'[Recipient] = balanceOf[Recipient]
    BY <1>3, <2>1, <2>2
  <2> QED
    BY <1>3, <2>3 DEF PaysTheManager
<1>9. CASE PushSurplus(t)
  <2>1. surplusForGovernance[t] \in 0..BASE_9 /\ BufferAfterFetch(t) \in Nat
    BY <1>2, <1>4 DEF WiringInv
  <2>2. GovernanceAllocation(t) \in 0..BufferAfterFetch(t)
    BY <2>1, ShareOfBuffer DEF GovernanceAllocation
  <2>3. FetchAndPay(t, 0, GovernanceAllocation(t)) /\ GovernanceAllocation(t) \in Nat
    BY <1>9, <2>2 DEF PushSurplus
  <2>4. GovernanceAllocation(t) # 0
    BY <1>2, <1>3, <2>3, FetchPaysRecipient DEF PaysTheManager
  <2>5. BalanceAfterFetch(t) # 0
    BY <1>4, <2>1, <2>2, <2>4
  <2> QED
    BY <2>3, <2>5
<1>10. ASSUME NEW amount \in Amounts, RecoverERC20(t, amount)
       PROVE  FetchAndPay(t, BufferAfterFetch(t), amount) /\ BalanceAfterFetch(t) # 0
  <2>1. amount \in Nat /\ amount + BufferAfterFetch(t) <= BalanceAfterFetch(t)
    BY <1>10, AmountTypes DEF RecoverERC20
  <2>2. FetchAndPay(t, BufferAfterFetch(t), amount)
    BY <1>10 DEF RecoverERC20
  <2>3. amount # 0
    BY <1>2, <1>3, <2>1, <2>2, FetchPaysRecipient DEF PaysTheManager
  <2> QED
    BY <1>4, <2>1, <2>2, <2>3
<1>11. ASSUME NEW amount \in Amounts, UpdateBadDebt(t, amount)
       PROVE  FALSE
  BY <1>3, <1>11 DEF UpdateBadDebt, Burned, PaysTheManager
<1> QED
  BY <1>1, <1>7, <1>8, <1>9, <1>10, <1>11

LEMMA StepPaysWithoutLosses ==
    ASSUME TreasuryAssumption, LedgerInv, RegistryInv, LedgerInv', Next,
           PaysTheManager, loan' = NoLoan => loan = NoLoan
    PROVE  \E t \in Treasuries : /\ badDebt'[t] = 0
                                 /\ \A vm \in vaultManagerMap[t] : lost'[vm] = 0
                                 /\ surplusBuffer'[t] <= balanceOf'[t]
<1>1. /\ Recipient \in Accounts /\ Recipient # Public /\ balanceOf[Recipient] \in Nat
  BY BooksParts DEF TreasuryAssumption, LedgerInv
<1>2. CASE Call
  <2>1. ~ Users
    BY UsersDoNotPay
  <2>2. ~ Governance
    <3>1. Governance => MoneyUnchanged
      BY ParametersKeepWiring, RegistryKeepsWiring, CoreKeepsWiring, Zenon
      DEF Governance, LedgerInv
    <3>2. ~ MoneyUnchanged
      BY <1>1 DEF PaysTheManager, MoneyUnchanged
    <3> QED
      BY <3>1, <3>2
  <2> QED
    BY <1>2, <2>1, <2>2, AccountingPaysWithoutLosses DEF Call
<1>3. ASSUME NEW m \in FlashModules, NEW amount \in Amounts, BeginFlashLoan(m, amount)
      PROVE  FALSE
  BY <1>1, <1>3 DEF BeginFlashLoan, Lend, Minted, PaysTheManager
<1>4. ~ EndFlashLoan
  BY DEF EndFlashLoan, CollectLoan
<1>5. ~ RevertFlashLoan
  BY DEF RevertFlashLoan
<1> QED
  BY <1>2, <1>3, <1>4, <1>5 DEF Next

(***************************************************************************)
(* What pushSurplus and recoverERC20 send to the surplus manager leaves a  *)
(* treasury with no loss on record, its own or of a VaultManager it has    *)
(* registered, and is not taken from the buffer.                           *)
(***************************************************************************)
THEOREM ManagerIsPaidWithoutLosses ==
    Spec => PaidOnlyWithoutLosses
<1>1. ASSUME LedgerInv, RegistryInv, LedgerInv', [Next]_vars
      PROVE  [balanceOf'[Recipient] > balanceOf[Recipient] /\ (loan' = NoLoan => loan = NoLoan) =>
                  \E t \in Treasuries : /\ badDebt'[t] = 0
                                        /\ \A vm \in vaultManagerMap[t] : lost'[vm] = 0
                                        /\ surplusBuffer'[t] <= balanceOf'[t]]_vars
  <2>1. CASE Next
    BY <1>1, <2>1, TreasuryAssumption, StepPaysWithoutLosses DEF PaysTheManager
  <2> QED
    BY <1>1, <2>1
<1> QED
  BY <1>1, RegistryIsInvariant, PTL DEF Spec, PaidOnlyWithoutLosses

=============================================================================
