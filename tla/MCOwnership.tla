---------------------------- MODULE MCOwnership -----------------------------
(***************************************************************************)
(* Instances of VaultManagerPermit: the users are interchangeable.         *)
(* Signatures are about all the vaults of an owner, so that they are       *)
(* explored with one vault, and two vaults without signatures.             *)
(***************************************************************************)
EXTENDS VaultManagerPermit, TLC

SignaturesOrTwoVaults == signed = {} \/ vaultIDCount <= 1

MCSymmetry == Permutations(Users)
=============================================================================
