---------------------------- MODULE MC_Scheduler ----------------------------
(* Three passes for TLC.                                                   *)
EXTENDS Scheduler, TLC

CONSTANTS p1, p2, p3

MCPasses == {p1, p2, p3}

MCSymmetry == Permutations(MCPasses)

=============================================================================
