-------------------------- MODULE OwnershipProofs --------------------------
(***************************************************************************)
(* The properties of VaultManagerERC721.tla, for any users and number of   *)
(* vaults.  The invariant is inductive together with the types: that the   *)
(* balances count the owners bounds them by MaxVaults, which keeps the     *)
(* unchecked increments and decrements from wrapping.                      *)
(*                                                                         *)
(* With the signatures of VaultManagerPermit.tla the contract behaves as   *)
(* without them, because permit() does no more than the owner could: what  *)
(* is proved of the first holds with the second.  And a permit takes       *)
(* effect once.                                                            *)
(***************************************************************************)
EXTENDS VaultManagerPermit, FiniteSetTheorems, TLAPS

OwnershipInv == NFTTypeOK /\ BalancesCountOwners /\ FreeIDsCarryNoRights

LEMMA VaultsOfFinite ==
    ASSUME NEW u
    PROVE  /\ IsFiniteSet(VaultsOf(u))
           /\ Cardinality(VaultsOf(u)) \in 0..MaxVaults
<1>1. IsFiniteSet(VaultIDs) /\ Cardinality(VaultIDs) = MaxVaults
  <2>1. 1 \in Int /\ MaxVaults \in Int /\ MaxVaults \in Nat
    BY OwnershipAssumption
  <2> QED
    BY <2>1, FS_Interval DEF VaultIDs
<1>2. VaultsOf(u) \in SUBSET VaultIDs
  BY DEF VaultsOf
<1>3. IsFiniteSet(VaultsOf(u)) /\ Cardinality(VaultsOf(u)) <= Cardinality(VaultIDs)
  BY <1>1, <1>2, FS_Subset
<1> QED
  BY <1>1, <1>3, FS_CardinalityType, OwnershipAssumption

\* Neither unchecked operation wraps on a balance that counts vaults.
LEMMA NoWrap ==
    ASSUME NEW b \in 0..MaxVaults
    PROVE  /\ Incremented(b) = b + 1
           /\ b > 0 => Decremented(b) = b - 1
           /\ Decremented(b + 1) = b
<1>1. ASSUME NEW m \in Nat, NEW x \in 0..m
      PROVE  x % (m + 1) = x
  OBVIOUS
<1>2. MaxBalance \in Nat /\ b + 1 \in 0..MaxBalance /\ b \in 0..MaxBalance
  BY OwnershipAssumption
<1>3. b > 0 => b - 1 \in 0..MaxBalance
  BY <1>2
<1>4. (b + 1) - 1 = b
  OBVIOUS
<1> QED
  BY <1>1, <1>2, <1>3, <1>4 DEF Incremented, Decremented

LEMMA OwnershipInit == NFTInit => OwnershipInv
<1> SUFFICES ASSUME NFTInit PROVE OwnershipInv
  OBVIOUS
<1>1. NFTTypeOK
  BY OwnershipAssumption DEF NFTInit, NFTTypeOK, Addresses
<1>2. BalancesCountOwners
  <2>1. \A u \in Users : VaultsOf(u) = {}
    BY OwnershipAssumption DEF NFTInit, VaultsOf
  <2> QED
    BY <2>1, FS_EmptySet DEF BalancesCountOwners, NFTInit
<1>3. FreeIDsCarryNoRights
  BY DEF FreeIDsCarryNoRights, NFTInit
<1> QED
  BY <1>1, <1>2, <1>3 DEF OwnershipInv

LEMMA BalancesAreCounts ==
    ASSUME OwnershipInv, NEW u \in Users
    PROVE  /\ balances[u] = Cardinality(VaultsOf(u))
           /\ balances[u] \in 0..MaxVaults
           /\ Incremented(balances[u]) = balances[u] + 1
           /\ balances[u] > 0 => Decremented(balances[u]) = balances[u] - 1
<1>1. balances[u] = Cardinality(VaultsOf(u)) /\ balances[u] \in 0..MaxVaults
  BY VaultsOfFinite DEF OwnershipInv, BalancesCountOwners
<1> QED
  BY <1>1, NoWrap

LEMMA MintPreservesOwnership ==
    ASSUME OwnershipInv, NEW to \in Users, Mint(to)
    PROVE  OwnershipInv'
<1> DEFINE id == vaultIDCount + 1
<1> USE DEF OwnershipInv, NFTTypeOK, Mint
<1>1. id \in VaultIDs /\ owners[id] = NoOne
  BY OwnershipAssumption DEF VaultIDs, FreeIDsCarryNoRights
<1>2. balances' = [balances EXCEPT ![to] = balances[to] + 1]
      /\ balances[to] + 1 \in 0..MaxBalance
  <2>1. Incremented(balances[to]) = balances[to] + 1 /\ balances[to] \in 0..MaxVaults
    BY BalancesAreCounts
  <2>2. balances[to] + 1 \in 0..MaxBalance
    BY <2>1, OwnershipAssumption
  <2> QED
    BY <2>1, <2>2
<1>3. NFTTypeOK'
  BY <1>1, <1>2, OwnershipAssumption DEF Addresses, VaultIDs
<1>4. ASSUME NEW u \in Users
      PROVE  balances'[u] = Cardinality(VaultsOf(u)')
  <2>1. CASE u = to
    <3>1. VaultsOf(u)' = VaultsOf(u) \cup {id} /\ id \notin VaultsOf(u)
      BY <1>1, <2>1, OwnershipAssumption DEF VaultsOf
    <3>2. Cardinality(VaultsOf(u)') = Cardinality(VaultsOf(u)) + 1
      BY <3>1, VaultsOfFinite, FS_AddElement
    <3> QED
      BY <1>2, <2>1, <3>2, BalancesAreCounts
  <2>2. CASE u # to
    <3>1. VaultsOf(u)' = VaultsOf(u)
      BY <1>1, <2>2, OwnershipAssumption DEF VaultsOf
    <3> QED
      BY <1>2, <2>2, <3>1, BalancesAreCounts
  <2> QED
    BY <2>1, <2>2
<1>5. FreeIDsCarryNoRights'
  BY <1>1, OwnershipAssumption DEF FreeIDsCarryNoRights, VaultIDs
<1> QED
  BY <1>3, <1>4, <1>5 DEF BalancesCountOwners

LEMMA BurnPreservesOwnership ==
    ASSUME OwnershipInv, NEW v \in VaultIDs, Burn(v)
    PROVE  OwnershipInv'
<1> DEFINE owner == owners[v]
<1> USE DEF OwnershipInv, NFTTypeOK, Burn
<1>1. owner \in Users /\ v \in VaultsOf(owner)
  BY DEF Exists, Addresses, VaultsOf
<1>2. balances[owner] > 0
  <2>1. VaultsOf(owner) # {}
    BY <1>1
  <2> QED
    BY <1>1, <2>1, VaultsOfFinite, FS_EmptySet, BalancesAreCounts
<1>3. balances' = [balances EXCEPT ![owner] = balances[owner] - 1]
      /\ balances[owner] - 1 \in 0..MaxBalance
  <2>1. Decremented(balances[owner]) = balances[owner] - 1
        /\ balances[owner] \in 0..MaxVaults
    BY <1>1, <1>2, BalancesAreCounts
  <2>2. balances[owner] - 1 \in 0..MaxBalance
    BY <1>2, <2>1, OwnershipAssumption
  <2> QED
    BY <2>1, <2>2
<1>4. NFTTypeOK'
  BY <1>3 DEF Addresses
<1>5. ASSUME NEW u \in Users
      PROVE  balances'[u] = Cardinality(VaultsOf(u)')
  <2>1. CASE u = owner
    <3>1. VaultsOf(u)' = VaultsOf(u) \ {v}
      BY <2>1, OwnershipAssumption DEF VaultsOf
    <3>2. Cardinality(VaultsOf(u)') = Cardinality(VaultsOf(u)) - 1
      BY <1>1, <2>1, <3>1, VaultsOfFinite, FS_RemoveElement
    <3> QED
      BY <1>3, <2>1, <3>2, BalancesAreCounts
  <2>2. CASE u # owner
    <3>1. VaultsOf(u)' = VaultsOf(u)
      BY <2>2, OwnershipAssumption DEF VaultsOf
    <3> QED
      BY <1>3, <2>2, <3>1, BalancesAreCounts
  <2> QED
    BY <2>1, <2>2
<1>6. FreeIDsCarryNoRights'
  BY DEF FreeIDsCarryNoRights
<1> QED
  BY <1>4, <1>5, <1>6 DEF BalancesCountOwners

LEMMA TransferPreservesOwnership ==
    ASSUME OwnershipInv, NEW sender \in Users, NEW from \in Users, NEW to \in Users,
           NEW v \in VaultIDs, TransferFrom(sender, from, to, v)
    PROVE  OwnershipInv'
<1> USE DEF OwnershipInv, NFTTypeOK, TransferFrom
<1>1. v \in VaultsOf(from) /\ owners[v] = from
  BY DEF VaultsOf
<1>2. balances[from] > 0
  <2>1. VaultsOf(from) # {}
    BY <1>1
  <2> QED
    BY <2>1, VaultsOfFinite, FS_EmptySet, BalancesAreCounts
<1>3. FreeIDsCarryNoRights'
  BY <1>1, OwnershipAssumption DEF FreeIDsCarryNoRights
<1>4. CASE from = to
  <2>1. balances' = balances
    <3>1. Decremented(balances[from]) = balances[from] - 1
      BY <1>2, BalancesAreCounts
    <3>2. balances[from] - 1 \in 0..MaxVaults
      BY <1>2, BalancesAreCounts, OwnershipAssumption
    <3>3. Incremented(balances[from] - 1) = balances[from]
      BY <3>2, NoWrap, BalancesAreCounts
    <3> QED
      BY <1>4, <3>1, <3>3
  <2>2. owners' = owners
    BY <1>1, <1>4
  <2>3. \A u \in Users : VaultsOf(u)' = VaultsOf(u)
    BY <2>2 DEF VaultsOf
  <2>4. NFTTypeOK'
    BY <2>1, <2>2 DEF Addresses
  <2> QED
    BY <1>3, <2>1, <2>3, <2>4 DEF BalancesCountOwners
<1>5. CASE from # to
  <2>1. /\ balances' = [balances EXCEPT ![from] = balances[from] - 1,
                                        ![to] = balances[to] + 1]
        /\ balances[from] - 1 \in 0..MaxBalance
        /\ balances[to] + 1 \in 0..MaxBalance
    <3>1. /\ Decremented(balances[from]) = balances[from] - 1
          /\ Incremented(balances[to]) = balances[to] + 1
          /\ balances[from] \in 0..MaxVaults
          /\ balances[to] \in 0..MaxVaults
      BY <1>2, BalancesAreCounts
    <3>2. balances[from] - 1 \in 0..MaxBalance /\ balances[to] + 1 \in 0..MaxBalance
      BY <1>2, <3>1, OwnershipAssumption
    <3> QED
      BY <1>5, <3>1, <3>2
  <2>2. NFTTypeOK'
    BY <2>1 DEF Addresses
  <2>3. ASSUME NEW u \in Users
        PROVE  balances'[u] = Cardinality(VaultsOf(u)')
    <3>1. CASE u = from
      <4>1. VaultsOf(u)' = VaultsOf(u) \ {v}
        BY <1>5, <3>1 DEF VaultsOf
      <4>2. Cardinality(VaultsOf(u)') = Cardinality(VaultsOf(u)) - 1
        BY <1>1, <3>1, <4>1, VaultsOfFinite, FS_RemoveElement
      <4> QED
        BY <1>5, <2>1, <3>1, <4>2, BalancesAreCounts
    <3>2. CASE u = to
      <4>1. VaultsOf(u)' = VaultsOf(u) \cup {v} /\ v \notin VaultsOf(u)
        BY <1>1, <1>5, <3>2 DEF VaultsOf
      <4>2. Cardinality(VaultsOf(u)') = Cardinality(VaultsOf(u)) + 1
        BY <4>1, VaultsOfFinite, FS_AddElement
      <4> QED
        BY <2>1, <3>2, <4>2, BalancesAreCounts
    <3>3. CASE u # from /\ u # to
      <4>1. VaultsOf(u)' = VaultsOf(u)
        BY <1>1, <3>3 DEF VaultsOf
      <4> QED
        BY <2>1, <3>3, <4>1, BalancesAreCounts
    <3> QED
      BY <3>1, <3>2, <3>3
  <2> QED
    BY <1>3, <2>2, <2>3 DEF BalancesCountOwners
<1> QED
  BY <1>4, <1>5

\* What leaves the owners alone keeps the counts.
LEMMA ApprovalsPreserveOwnership ==
    ASSUME OwnershipInv,
           UNCHANGED <<vaultIDCount, owners, balances>>,
           vaultApprovals' \in [VaultIDs -> Addresses],
           operatorApprovals' \subseteq Users \X Users,
           \A v \in VaultIDs : owners[v] = NoOne => vaultApprovals'[v] = vaultApprovals[v]
    PROVE  OwnershipInv'
<1>1. NFTTypeOK'
  BY DEF OwnershipInv, NFTTypeOK
<1>2. BalancesCountOwners'
  BY DEF OwnershipInv, BalancesCountOwners, VaultsOf
<1>3. FreeIDsCarryNoRights'
  BY DEF OwnershipInv, FreeIDsCarryNoRights
<1> QED
  BY <1>1, <1>2, <1>3 DEF OwnershipInv

LEMMA StutteringPreservesOwnership ==
    ASSUME OwnershipInv, UNCHANGED nftVars
    PROVE  OwnershipInv'
  BY ApprovalsPreserveOwnership DEF nftVars, OwnershipInv, NFTTypeOK

LEMMA TransferOrApprovePreservesOwnership ==
    ASSUME OwnershipInv, TransferOrApprove
    PROVE  OwnershipInv'
<1>1. CASE \E sender, from, to \in Users, v \in VaultIDs : TransferFrom(sender, from, to, v)
  BY <1>1, TransferPreservesOwnership
<1>2. ASSUME NEW sender \in Users, NEW to \in Addresses, NEW v \in VaultIDs,
             Approve(sender, to, v)
      PROVE  OwnershipInv'
  <2>1. /\ UNCHANGED <<vaultIDCount, owners, balances, operatorApprovals>>
        /\ vaultApprovals' = [vaultApprovals EXCEPT ![v] = to]
        /\ owners[v] # NoOne
    BY <1>2 DEF Approve, Exists
  <2>2. /\ vaultApprovals' \in [VaultIDs -> Addresses]
        /\ operatorApprovals' \subseteq Users \X Users
        /\ \A w \in VaultIDs : owners[w] = NoOne => vaultApprovals'[w] = vaultApprovals[w]
    BY <2>1 DEF OwnershipInv, NFTTypeOK
  <2> QED
    BY <2>1, <2>2, ApprovalsPreserveOwnership
<1>3. ASSUME NEW approver \in Users, NEW operator \in Users, NEW approved \in BOOLEAN,
             SetApprovalForAll(approver, operator, approved)
      PROVE  OwnershipInv'
  <2>1. /\ UNCHANGED <<vaultIDCount, owners, balances, vaultApprovals>>
        /\ vaultApprovals' \in [VaultIDs -> Addresses]
        /\ operatorApprovals' \subseteq Users \X Users
    BY <1>3 DEF SetApprovalForAll, OwnershipInv, NFTTypeOK
  <2> QED
    BY <2>1, ApprovalsPreserveOwnership
<1> QED
  BY <1>1, <1>2, <1>3 DEF TransferOrApprove

LEMMA OwnershipStep == OwnershipInv /\ [NFTNext]_nftVars => OwnershipInv'
<1> SUFFICES ASSUME OwnershipInv, [NFTNext]_nftVars PROVE OwnershipInv'
  OBVIOUS
<1>1. CASE \E to \in Users : Mint(to)
  BY <1>1, MintPreservesOwnership
<1>2. CASE \E sender \in Users, v \in VaultIDs : IsApprovedOrOwner(sender, v) /\ Burn(v)
  BY <1>2, BurnPreservesOwnership
<1>3. CASE TransferOrApprove
  BY <1>3, TransferOrApprovePreservesOwnership
<1>4. CASE UNCHANGED nftVars
  BY <1>4, StutteringPreservesOwnership
<1> QED
  BY <1>1, <1>2, <1>3, <1>4 DEF NFTNext

(***************************************************************************)
(* In every state _balances counts the vaults of each owner: the unchecked *)
(* arithmetic of _mint, _burn and _transfer never wraps.                   *)
(***************************************************************************)
THEOREM BalancesAlwaysCountOwners == NFTSpec => []BalancesCountOwners
<1>1. OwnershipInv => BalancesCountOwners
  BY DEF OwnershipInv
<1> QED
  BY <1>1, OwnershipInit, OwnershipStep, PTL DEF NFTSpec

(***************************************************************************)
(* In every state a vaultID that nobody owns carries no approval, and no   *)
(* id above vaultIDCount is owned.                                         *)
(***************************************************************************)
THEOREM FreeIDsNeverCarryRights == NFTSpec => []FreeIDsCarryNoRights
<1>1. OwnershipInv => FreeIDsCarryNoRights
  BY DEF OwnershipInv
<1> QED
  BY <1>1, OwnershipInit, OwnershipStep, PTL DEF NFTSpec

(***************************************************************************)
(* Every step that changes the owner of a vault clears its approval, and   *)
(* gives an id that was free only as the next one of the count: a burnt id *)
(* is never given again.                                                   *)
(***************************************************************************)
THEOREM OwnershipAlwaysChangesCleanly == NFTSpec => OwnershipChangesCleanly
<1> DEFINE Clean ==
      \A v \in VaultIDs :
         owners'[v] # owners[v] =>
            /\ vaultApprovals'[v] = NoOne
            /\ owners[v] = NoOne => v = vaultIDCount + 1
<1>1. OwnershipInv /\ [NFTNext]_nftVars => [Clean]_nftVars
  <2> SUFFICES ASSUME OwnershipInv, NFTNext PROVE Clean
    OBVIOUS
  <2> USE DEF OwnershipInv, NFTTypeOK
  <2>1. CASE \E to \in Users : Mint(to)
    BY <2>1, OwnershipAssumption DEF Mint, FreeIDsCarryNoRights
  <2>2. CASE \E sender \in Users, v \in VaultIDs : IsApprovedOrOwner(sender, v) /\ Burn(v)
    BY <2>2 DEF Burn, Exists
  <2>3. CASE TransferOrApprove
    BY <2>3 DEF TransferOrApprove, TransferFrom, Approve, SetApprovalForAll,
                IsApprovedOrOwner, Exists
  <2> QED
    BY <2>1, <2>2, <2>3 DEF NFTNext
<1> QED
  BY <1>1, OwnershipInit, OwnershipStep, PTL DEF NFTSpec, OwnershipChangesCleanly

-----------------------------------------------------------------------------
\* Permits.

PermitTypeOK ==
    /\ nonces \in [Users -> Nat]
    /\ signed \subseteq Permits
    /\ used \subseteq signed

PermitInv ==
    /\ PermitTypeOK
    /\ \A u \in Users : IsFiniteSet(UsedBy(u))
    /\ PermitsAreUsedOnce

LEMMA PermitInvInit == PermitInit => PermitInv
<1> SUFFICES ASSUME PermitInit PROVE PermitInv
  OBVIOUS
<1>1. PermitTypeOK
  BY DEF PermitInit, PermitTypeOK
<1>2. \A u \in Users : UsedBy(u) = {} /\ nonces[u] = 0
  BY DEF PermitInit, UsedBy
<1>3. 0..(0 - 1) = {}
  OBVIOUS
<1> QED
  BY <1>1, <1>2, <1>3, FS_EmptySet DEF PermitInv, PermitsAreUsedOnce

\* The nonce of the permit is new to its owner, and the next one in order.
LEMMA PermitKeepsInv ==
    ASSUME PermitInv, NEW p \in signed, Permit(p)
    PROVE  PermitInv'
<1> USE DEF PermitInv, PermitTypeOK
<1> DEFINE o == p.owner
<1>1. p \in Permits /\ o \in Users /\ nonces[o] \in Nat /\ p.nonce = nonces[o]
  BY DEF Permit, Permits
<1>2. /\ nonces' = [nonces EXCEPT ![o] = nonces[o] + 1]
      /\ used' = used \cup {p} /\ signed' = signed
  BY DEF Permit, UseNonce
<1>3. PermitTypeOK'
  BY <1>1, <1>2
<1>4. p \notin UsedBy(o)
  <2>1. p.nonce \notin 0..(nonces[o] - 1)
    BY <1>1
  <2> QED
    BY <2>1, <1>1 DEF PermitsAreUsedOnce
<1>5. /\ UsedBy(o)' = UsedBy(o) \cup {p}
      /\ nonces'[o] = nonces[o] + 1
  BY <1>1, <1>2 DEF UsedBy
<1>6. IsFiniteSet(UsedBy(o)') /\ Cardinality(UsedBy(o)') = nonces'[o]
  BY <1>1, <1>4, <1>5, FS_AddElement DEF PermitsAreUsedOnce
<1>7. {q.nonce : q \in UsedBy(o)'} = 0..(nonces'[o] - 1)
  <2>1. {q.nonce : q \in UsedBy(o)'} = {q.nonce : q \in UsedBy(o)} \cup {p.nonce}
    BY <1>5
  <2>2. {q.nonce : q \in UsedBy(o)} = 0..(nonces[o] - 1)
    BY <1>1 DEF PermitsAreUsedOnce
  <2>3. (0..(nonces[o] - 1)) \cup {nonces[o]} = 0..((nonces[o] + 1) - 1)
    BY <1>1
  <2> QED
    BY <2>1, <2>2, <2>3, <1>1, <1>5
<1>8. ASSUME NEW u \in Users, u # o
      PROVE  UsedBy(u)' = UsedBy(u) /\ nonces'[u] = nonces[u]
  BY <1>2, <1>8 DEF UsedBy
<1>9. \A u \in Users : IsFiniteSet(UsedBy(u)')
  BY <1>6, <1>8
<1>10. PermitsAreUsedOnce'
  <2> SUFFICES ASSUME NEW u \in Users
               PROVE  /\ nonces'[u] = Cardinality(UsedBy(u)')
                      /\ {q.nonce : q \in UsedBy(u)'} = 0..(nonces'[u] - 1)
    BY DEF PermitsAreUsedOnce
  <2>1. CASE u = o
    BY <2>1, <1>6, <1>7
  <2>2. CASE u # o
    BY <2>2, <1>8 DEF PermitsAreUsedOnce
  <2> QED
    BY <2>1, <2>2
<1> QED
  BY <1>3, <1>9, <1>10

LEMMA PermitInvStep == PermitInv /\ [PermitNext]_permitVars => PermitInv'
<1> SUFFICES ASSUME PermitInv, [PermitNext]_permitVars PROVE PermitInv'
  OBVIOUS
<1>1. CASE \E p \in signed : Permit(p)
  BY <1>1, PermitKeepsInv
<1>2. ASSUME UNCHANGED <<nonces, used>>, signed' \subseteq Permits, signed \subseteq signed'
      PROVE  PermitInv'
  <2>1. \A u \in Users : UsedBy(u)' = UsedBy(u)
    BY <1>2 DEF UsedBy
  <2> QED
    BY <1>2, <2>1 DEF PermitInv, PermitTypeOK, PermitsAreUsedOnce
<1>3. CASE NFTNext /\ UNCHANGED signatureVars
  BY <1>3, <1>2 DEF signatureVars, PermitInv, PermitTypeOK
<1>4. CASE \E p \in Permits : Sign(p)
  BY <1>4, <1>2 DEF Sign, PermitInv, PermitTypeOK
<1>5. CASE Elapse
  BY <1>5, <1>2 DEF Elapse, PermitInv, PermitTypeOK
<1>6. CASE UNCHANGED permitVars
  BY <1>6, <1>2 DEF permitVars, signatureVars, PermitInv, PermitTypeOK
<1> QED
  BY <1>1, <1>3, <1>4, <1>5, <1>6 DEF PermitNext

(***************************************************************************)
(* A signature is used once, in the order of the nonces: _useNonce leaves  *)
(* no permit to replay, whoever submits them and whatever else is signed.  *)
(***************************************************************************)
THEOREM PermitsAreAlwaysUsedOnce == PermitSpec => []PermitsAreUsedOnce
<1>1. PermitInv => PermitsAreUsedOnce
  BY DEF PermitInv
<1> QED
  BY <1>1, PermitInvInit, PermitInvStep, PTL DEF PermitSpec

\* permit() approves an operator as its owner would.
LEMMA PermitStepIsOwnershipStep ==
    PermitInv /\ [PermitNext]_permitVars => [NFTNext]_nftVars
<1> SUFFICES ASSUME PermitInv, PermitNext, ~UNCHANGED nftVars PROVE NFTNext
  BY DEF permitVars
<1>1. CASE \E p \in signed : Permit(p)
  BY <1>1 DEF Permit, NFTNext, TransferOrApprove, PermitInv, PermitTypeOK, Permits
<1> QED
  BY <1>1 DEF PermitNext, Sign, Elapse

(***************************************************************************)
(* The contract with permit() implements the ownership component: what is  *)
(* proved of NFTSpec holds whatever is signed and submitted.               *)
(***************************************************************************)
THEOREM PermitsAreOwnership == PermitSpec => NFTSpec
<1>1. PermitInit => NFTInit
  BY DEF PermitInit
<1> QED
  BY <1>1, PermitInvInit, PermitInvStep, PermitStepIsOwnershipStep, PTL
  DEF PermitSpec, NFTSpec
=============================================================================
