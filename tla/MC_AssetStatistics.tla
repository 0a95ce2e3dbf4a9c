------------------------ MODULE MC_AssetStatistics ------------------------
(* Model-checking instance of AssetStatistics: two basic names, a ledger  *)
(* of at most three transfers.                                            *)
EXTENDS AssetStatistics, TLC

CONSTANTS n1, n2

MCNames == {n1, n2}

\* Names are interchangeable model values.
MCSymmetry == Permutations(MCNames)
=============================================================================
