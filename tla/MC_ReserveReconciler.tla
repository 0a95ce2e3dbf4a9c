------------------------ MODULE MC_ReserveReconciler ------------------------
(***************************************************************************)
(* A small instance of the reserve check: WBTC-like basic b1 with its home *)
(* token on c1, a minted token on c2 and an unlisted one on c3; extra      *)
(* basic b2 with a misprecise token on c1 and an overridden one on c2.     *)
(***************************************************************************)
EXTENDS ReserveReconciler

CONSTANTS b1, b2, c1, c2, c3

MCBasics == {b1, b2}
MCChains == {c1, c2, c3}
MCEntries == {<<b1, c1>>, <<b1, c2>>, <<b1, c3>>, <<b2, c1>>, <<b2, c2>>}
MCHome == [b \in MCBasics |-> c1]
MCExtra == {b2}
MCMisprecise == {<<b2, c1>>}
MCUnlisted == {<<b1, c3>>}
MCOverridden == {<<b2, c2>>}
MCOverrideVal == [e \in MCEntries |-> 1]
MCPrice == [b \in MCBasics |-> 1]
MCReasons == {"all node is not working", "timeout"}
=============================================================================
