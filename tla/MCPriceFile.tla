----------------------------- MODULE MCPriceFile ------------------------------
(***************************************************************************)
(* PriceFile for TLC; the pulls are alike, so are the edits.               *)
(***************************************************************************)
EXTENDS PriceFile, TLC

Alike == Permutations(Pulls) \cup Permutations(Edits)
=============================================================================
