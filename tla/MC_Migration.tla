----------------------------- MODULE MC_Migration -----------------------------
(***************************************************************************)
(* Three rows over three timestamps, pages of two rows, the latest row     *)
(* verified: a tie can straddle a page boundary, and a row can be alone at *)
(* its timestamp.  The operator copies two basic tables, runs the three    *)
(* explorer steps and the bridge step over two tables, then verifies.      *)
(***************************************************************************)
EXTENDS Migration

CONSTANTS k1, k2, k3

MCKeys == {k1, k2, k3}
MCStepSeq == <<"migrateBridgeBasicTables", "migrateExplorerSrcTransactions",
               "migrateExplorerPolyTransactions", "migrateExplorerDstTransactions", "migrateBridgeTxs", "verifyTables">>
MCBasicTables == <<"token_basics", "chains">>
MCBridgeTables == <<"src_transactions", "poly_transactions">>
=============================================================================
