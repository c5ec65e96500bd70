------------------------------ MODULE AgToken ------------------------------
(***************************************************************************)
(* The stablecoin: balances, the addresses that may mint and burn, and the *)
(* treasury that names them.  Its functions run inside calls of the other  *)
(* contracts, so they are given as what they do to balances and as the     *)
(* condition under which they do not revert; permits and allowances are    *)
(* left out (an allowance that is too low only makes a call revert).       *)
(***************************************************************************)
EXTENDS Integers

CONSTANT Accounts     \* whoever can hold the stablecoin

VARIABLES
    balanceOf,        \* account -> amount
    isMinter,         \* the addresses mapped to true
    tokenTreasury     \* `treasury` of the token contract

tokenVars == <<balanceOf, isMinter, tokenTreasury>>

-----------------------------------------------------------------------------
\* ERC-20 balances, as functions of balances.

Minted(balances, account, amount) == [balances EXCEPT ![account] = @ + amount]

Burned(balances, account, amount) == [balances EXCEPT ![account] = @ - amount]

\* A transfer to oneself leaves the balance as it was.
Transferred(balances, from, to, amount) ==
    Minted(Burned(balances, from, amount), to, amount)

-----------------------------------------------------------------------------
\* Minters.  Only the treasury adds one; it, or the minter, removes one.

MintersAdded(caller, minters) ==
    /\ minters # {} => caller = tokenTreasury
    /\ isMinter' = isMinter \union minters

MinterRemoved(caller, minter) ==
    /\ caller \in {tokenTreasury, minter}
    /\ isMinter' = isMinter \ {minter}

TokenTreasurySet(caller, treasury) ==
    /\ caller = tokenTreasury
    /\ tokenTreasury' = treasury
=============================================================================
