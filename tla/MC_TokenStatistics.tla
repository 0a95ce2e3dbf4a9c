------------------------- MODULE MC_TokenStatistics -------------------------
(* Two tokens of one basic for TLC, the first on the basic's home chain.   *)
EXTENDS TokenStatistics, TLC

CONSTANTS t1, t2, b1

MCTokens == {t1, t2}

MCHome == {t1}

MCBasics == {b1}

MCBasicOf == [t \in MCTokens |-> b1]

=============================================================================
