---------------------------- MODULE MCSettlement -----------------------------
(***************************************************************************)
(* Instances of Settlement.                                                *)
(***************************************************************************)
EXTENDS Settlement, TLC

MCSymmetry == Permutations(VaultIDs) \union Permutations(Users)
=============================================================================
