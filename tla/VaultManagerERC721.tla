------------------------- MODULE VaultManagerERC721 -------------------------
(***************************************************************************)
(* VaultManagerERC721.sol: the ownership of the vaults.  The storage holds *)
(* two views of the same fact, _owners and the _balances that count it,    *)
(* kept in step with unchecked arithmetic, and the approvals that let      *)
(* somebody else than the owner act on a vault.                            *)
(*                                                                         *)
(* The operators that change this storage are used by VaultManager.tla;    *)
(* NFTSpec is the ownership component by itself.                           *)
(***************************************************************************)
EXTENDS Integers, FiniteSets

CONSTANTS
    Users,       \* the addresses that can own or operate vaults
    NoOne,       \* address(0)
    MaxVaults,   \* bound on the vaults ever created
    MaxBalance   \* type(uint256).max, the largest value of _balances

ASSUME OwnershipAssumption ==
    /\ NoOne \notin Users
    /\ MaxVaults \in Nat
    /\ MaxBalance \in Nat
    /\ MaxVaults < MaxBalance

VARIABLES
    vaultIDCount,      \* the last vaultID created
    owners,            \* _owners
    balances,          \* _balances
    vaultApprovals,    \* _vaultApprovals
    operatorApprovals  \* _operatorApprovals: the pairs <<owner, operator>> set to 1

nftVars == <<vaultIDCount, owners, balances, vaultApprovals, operatorApprovals>>

VaultIDs == 1..MaxVaults
Addresses == Users \cup {NoOne}

NFTInit ==
    /\ vaultIDCount = 0
    /\ owners = [v \in VaultIDs |-> NoOne]
    /\ balances = [u \in Users |-> 0]
    /\ vaultApprovals = [v \in VaultIDs |-> NoOne]
    /\ operatorApprovals = {}

\* Mutant: any id in range exists.
ExistsInRange(v) == v \in VaultIDs

Exists(v) == v \in VaultIDs /\ owners[v] # NoOne

IsApprovedOrOwner(spender, v) ==
    /\ Exists(v)
    /\ \/ spender = owners[v]
       \/ spender = vaultApprovals[v]
       \/ <<owners[v], spender>> \in operatorApprovals

\* unchecked { balance -= 1 } and unchecked { balance += 1 }
Decremented(balance) == (balance - 1) % (MaxBalance + 1)
Incremented(balance) == (balance + 1) % (MaxBalance + 1)

\* _mint without the callback to the receiver, which VaultManager.tla models.
Mint(to) ==
    /\ vaultIDCount < MaxVaults
    /\ vaultIDCount' = vaultIDCount + 1
    /\ balances' = [balances EXCEPT ![to] = Incremented(@)]
    /\ owners' = [owners EXCEPT ![vaultIDCount + 1] = to]
    /\ UNCHANGED <<vaultApprovals, operatorApprovals>>

\* Mutant: burning leaves the approval.
BurnKeepingApproval(v) ==
    /\ Exists(v)
    /\ balances' = [balances EXCEPT ![owners[v]] = Decremented(@)]
    /\ owners' = [owners EXCEPT ![v] = NoOne]
    /\ UNCHANGED <<vaultIDCount, vaultApprovals, operatorApprovals>>

\* _burn; the deletion of vaultData[v] is CloseVault's in VaultManager.tla.
Burn(v) ==
    /\ Exists(v)
    /\ vaultApprovals' = [vaultApprovals EXCEPT ![v] = NoOne]
    /\ balances' = [balances EXCEPT ![owners[v]] = Decremented(@)]
    /\ owners' = [owners EXCEPT ![v] = NoOne]
    /\ UNCHANGED <<vaultIDCount, operatorApprovals>>

\* Mutant: the receiver's balance is read before the sender's is debited.
TransferFromStale(sender, from, to, v) ==
    /\ IsApprovedOrOwner(sender, v)
    /\ owners[v] = from
    /\ vaultApprovals' = [vaultApprovals EXCEPT ![v] = NoOne]
    /\ balances' = [balances EXCEPT ![from] = Decremented(balances[from]),
                                   ![to] = Incremented(balances[to])]
    /\ owners' = [owners EXCEPT ![v] = to]
    /\ UNCHANGED <<vaultIDCount, operatorApprovals>>

\* Mutant: the approval survives the transfer.
TransferKeepingApproval(sender, from, to, v) ==
    /\ IsApprovedOrOwner(sender, v)
    /\ owners[v] = from
    /\ balances' = LET debited == [balances EXCEPT ![from] = Decremented(@)]
                   IN [debited EXCEPT ![to] = Incremented(@)]
    /\ owners' = [owners EXCEPT ![v] = to]
    /\ UNCHANGED <<vaultIDCount, vaultApprovals, operatorApprovals>>

\* transferFrom and safeTransferFrom, called by sender: self-transfers are legal.
TransferFrom(sender, from, to, v) ==
    /\ IsApprovedOrOwner(sender, v)
    /\ owners[v] = from
    /\ vaultApprovals' = [vaultApprovals EXCEPT ![v] = NoOne]
    /\ balances' = LET debited == [balances EXCEPT ![from] = Decremented(@)]
                   IN [debited EXCEPT ![to] = Incremented(@)]
    /\ owners' = [owners EXCEPT ![v] = to]
    /\ UNCHANGED <<vaultIDCount, operatorApprovals>>

\* approve(to, v): to = NoOne clears the approval.
Approve(sender, to, v) ==
    /\ Exists(v)
    /\ to # owners[v]
    /\ sender = owners[v] \/ <<owners[v], sender>> \in operatorApprovals
    /\ vaultApprovals' = [vaultApprovals EXCEPT ![v] = to]
    /\ UNCHANGED <<vaultIDCount, owners, balances, operatorApprovals>>

\* _setApprovalForAll, on behalf of approver.
SetApprovalForAll(approver, operator, approved) ==
    /\ operator # approver
    /\ operatorApprovals' = IF approved
                            THEN operatorApprovals \cup {<<approver, operator>>}
                            ELSE operatorApprovals \ {<<approver, operator>>}
    /\ UNCHANGED <<vaultIDCount, owners, balances, vaultApprovals>>

\* What anybody can do to the ownership without touching what the vaults hold.
TransferOrApprove ==
    \/ \E sender, from, to \in Users, v \in VaultIDs : TransferFrom(sender, from, to, v)
    \/ \E sender \in Users, to \in Addresses, v \in VaultIDs : Approve(sender, to, v)
    \/ \E approver, operator \in Users, approved \in BOOLEAN :
          SetApprovalForAll(approver, operator, approved)

NFTNext ==
    \/ \E to \in Users : Mint(to)
    \/ \E sender \in Users, v \in VaultIDs : IsApprovedOrOwner(sender, v) /\ Burn(v)
    \/ TransferOrApprove

NFTSpec == NFTInit /\ [][NFTNext]_nftVars

-----------------------------------------------------------------------------

NFTTypeOK ==
    /\ vaultIDCount \in 0..MaxVaults
    /\ owners \in [VaultIDs -> Addresses]
    /\ balances \in [Users -> 0..MaxBalance]
    /\ vaultApprovals \in [VaultIDs -> Addresses]
    /\ operatorApprovals \subseteq Users \X Users

VaultsOf(u) == {v \in VaultIDs : owners[v] = u}

(***************************************************************************)
(* _balances counts _owners exactly: the unchecked decrements of _burn     *)
(* and _transfer ("cannot underflow as the owner's balance is necessarily  *)
(* greater than 1", VaultManagerERC721.sol:191) never wrap.                *)
(***************************************************************************)
BalancesCountOwners ==
    \A u \in Users : balances[u] = Cardinality(VaultsOf(u))

(***************************************************************************)
(* Ids above vaultIDCount are free and a free id carries no approval:      *)
(* whoever was approved on a burnt or not yet minted vault cannot act on a *)
(* vault minted later under that id.                                       *)
(***************************************************************************)
FreeIDsCarryNoRights ==
    \A v \in VaultIDs :
        /\ v > vaultIDCount => owners[v] = NoOne
        /\ owners[v] = NoOne => vaultApprovals[v] = NoOne

(***************************************************************************)
(* A burnt vaultID is never given again, and a vault's owner changes only  *)
(* with its single-vault approval cleared (_mint:166, _burn:188,           *)
(* _transfer:213).                                                         *)
(***************************************************************************)
OwnershipChangesCleanly ==
    [][\A v \in VaultIDs :
          owners'[v] # owners[v] =>
             /\ vaultApprovals'[v] = NoOne
             /\ owners[v] = NoOne => v = vaultIDCount + 1]_nftVars
=============================================================================
