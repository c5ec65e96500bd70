------------------------- MODULE VaultManagerPermit -------------------------
(***************************************************************************)
(* VaultManagerPermit.sol: approvals of an operator for all the vaults of  *)
(* an owner, by signatures that anybody can submit, in any order and again *)
(* and again.  A signature is what the owner signed: the nonce in it is    *)
(* the owner's guess of the one it will be used with.  What a contract     *)
(* that owns vaults accepts in isValidSignature counts as signed.          *)
(***************************************************************************)
EXTENDS VaultManagerERC721

CONSTANTS
    Deadlines,   \* the deadlines that are signed
    MaxSigned,   \* bound on the signatures made
    MaxNonce,    \* bound on the nonces signed
    MaxTimestamp \* bound on time

ASSUME PermitAssumption ==
    Deadlines \subseteq Nat /\ {MaxSigned, MaxNonce, MaxTimestamp} \subseteq Nat

VARIABLES
    nonces,      \* _nonces
    signed,      \* the permits signed so far
    used,        \* those that permit() has accepted
    timestamp    \* block.timestamp

signatureVars == <<nonces, signed, used, timestamp>>
permitVars == <<nftVars, signatureVars>>

Permits == [owner : Users, spender : Users, approved : BOOLEAN,
            nonce : 0..MaxNonce, deadline : Deadlines]

PermitInit ==
    /\ NFTInit
    /\ nonces = [u \in Users |-> 0]
    /\ signed = {}
    /\ used = {}
    /\ timestamp = 0

\* Mutant: the nonce is read and not consumed.
ReadNonce(owner) == UNCHANGED nonces

\* _useNonce
UseNonce(owner) == nonces' = [nonces EXCEPT ![owner] = @ + 1]

\* permit(): the digest holds the owner's current nonce, so that the signature of another
\* permit does not verify.
Permit(p) ==
    /\ timestamp <= p.deadline
    /\ p.nonce = nonces[p.owner]
    /\ UseNonce(p.owner)
    /\ used' = used \cup {p}
    /\ SetApprovalForAll(p.owner, p.spender, p.approved)
    /\ UNCHANGED <<signed, timestamp>>

\* Off chain.
Sign(p) ==
    /\ Cardinality(signed) < MaxSigned
    /\ signed' = signed \cup {p}
    /\ UNCHANGED <<nftVars, nonces, used, timestamp>>

Elapse ==
    /\ timestamp < MaxTimestamp
    /\ timestamp' = timestamp + 1
    /\ UNCHANGED <<nftVars, nonces, signed, used>>

PermitNext ==
    \/ NFTNext /\ UNCHANGED signatureVars
    \/ \E p \in signed : Permit(p)
    \/ \E p \in Permits : Sign(p)
    \/ Elapse

PermitSpec == PermitInit /\ [][PermitNext]_permitVars

-----------------------------------------------------------------------------

UsedBy(u) == {p \in used : p.owner = u}

(***************************************************************************)
(* A permit takes effect once, whoever submits it and whatever else is     *)
(* signed: an owner's nonce counts the permits used, one for each nonce    *)
(* below, so that an approval that was revoked by a later permit cannot be *)
(* given again with the same signature (_useNonce,                         *)
(* VaultManagerPermit.sol:108).                                            *)
(***************************************************************************)
PermitsAreUsedOnce ==
    \A u \in Users :
        /\ nonces[u] = Cardinality(UsedBy(u))
        /\ {p.nonce : p \in UsedBy(u)} = 0..(nonces[u] - 1)
=============================================================================
