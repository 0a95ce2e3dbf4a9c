------------------------- MODULE MC_ChainStatistics -------------------------
(* The poly chain, the reference chain and one more ordinary chain.        *)
EXTENDS ChainStatistics, TLC

CONSTANTS poly, eth, bsc

MCChains == {poly, eth, bsc}

=============================================================================
