---------------------------- MODULE MCMultiBridge ----------------------------
(***************************************************************************)
(* Instances of MultiBridge, from a stablecoin without bridges.            *)
(***************************************************************************)
EXTENDS MultiBridge, TLC

\* Bridge tokens are interchangeable: no property is about one of them.
MCSymmetry == Permutations(BridgeTokens)
=============================================================================
