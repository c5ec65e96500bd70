----------------------------- MODULE FlashAngle -----------------------------
(***************************************************************************)
(* The flash loan modules of one stablecoin.  A loan is not one step: the  *)
(* module mints, gives the control to the borrower, then takes back the    *)
(* amount and the fee and burns the amount.  `loan` is what flashLoan has  *)
(* in memory meanwhile; FlashAngle keeps the fees until its treasury asks  *)
(* for them.                                                               *)
(***************************************************************************)
EXTENDS AgToken

CONSTANTS
    FlashModules,     \* the FlashAngle contracts
    NoModule,
    NoTreasury,
    Public,           \* the account of all the users, borrowers included
    BASE_PARAMS

VARIABLES
    supported,        \* module -> stablecoinMap[stablecoin].treasury
    flashLoanFee,     \* module -> stablecoinMap[stablecoin].flashLoanFee
    maxBorrowable,    \* module -> stablecoinMap[stablecoin].maxBorrowable
    loan              \* the loan in progress

flashVars == <<supported, flashLoanFee, maxBorrowable>>

\* steps counts what happened in the callback, for the bound of the runs only.
NoLoan == [module |-> NoModule, amount |-> 0, fee |-> 0, steps |-> 0]

FlashFee(m, amount) == (amount * flashLoanFee[m]) \div BASE_PARAMS

\* flashLoan up to the call of onFlashLoan.  There is one loan at a time: a
\* module is nonReentrant, and only one module is meant to be a minter.
Lend(m, amount) ==
    /\ loan = NoLoan
    /\ supported[m] # NoTreasury
    /\ amount <= maxBorrowable[m]
    /\ m \in isMinter
    /\ balanceOf' = Minted(balanceOf, Public, amount)
    /\ loan' = [module |-> m, amount |-> amount, fee |-> FlashFee(m, amount), steps |-> 0]
    /\ UNCHANGED <<isMinter, tokenTreasury, flashVars>>

\* flashLoan after onFlashLoan.
CollectLoan ==
    /\ loan # NoLoan
    /\ balanceOf[Public] >= loan.amount + loan.fee
    /\ loan.module \in isMinter
    /\ balanceOf' = Burned(Transferred(balanceOf, Public, loan.module, loan.amount + loan.fee),
                           loan.module, loan.amount)
    /\ loan' = NoLoan
    /\ UNCHANGED <<isMinter, tokenTreasury, flashVars>>

\* accrueInterestToTreasury succeeds when the treasury on record asks for the fees.
CanAccrueFees(m, caller) == supported[m] = caller

\* Governors and guardians, on a stablecoin that has been added.
SetFlashLoanParameters(m, fee, max) ==
    /\ supported[m] # NoTreasury
    /\ fee <= BASE_PARAMS
    /\ flashLoanFee' = [flashLoanFee EXCEPT ![m] = fee]
    /\ maxBorrowable' = [maxBorrowable EXCEPT ![m] = max]
    /\ UNCHANGED supported

\* Core only.  Adding keeps the parameters, removing deletes them with the rest.
StablecoinSupportAdded(m, treasury) ==
    /\ supported' = [supported EXCEPT ![m] = treasury]
    /\ UNCHANGED <<flashLoanFee, maxBorrowable>>

StablecoinSupportRemoved(m) ==
    /\ supported' = [supported EXCEPT ![m] = NoTreasury]
    /\ flashLoanFee' = [flashLoanFee EXCEPT ![m] = 0]
    /\ maxBorrowable' = [maxBorrowable EXCEPT ![m] = 0]
=============================================================================
