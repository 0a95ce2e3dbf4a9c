------------------------------ MODULE Migration ------------------------------
(***************************************************************************)
(* The transaction-copy steps of the database migration tool               *)
(* (src/unnamed/part_003), run one MERGE_STEP after another.  Each copy    *)
(* step is a loop of pages of 1000 rows, taken with Limit/Offset in        *)
(* timestamp order until a page comes back empty, followed by a            *)
(* countTables log line: the three explorer steps copy one explorer table  *)
(* each, migrateBridgeTxs copies its list of bridge tables with            *)
(* migrateTableInBatches.  The verifyTables step then checks that the      *)
(* latest 200 rows of the bridge tables are in the target, and panics on  *)
(* the first row it samples: a missing row fails First, and a present one *)
(* fails assert(reflect.DeepEqual(a, b)), which compares a *T with a T.   *)
(*                                                                         *)
(* Timestamps are not unique, and MySQL orders rows with equal keys as it  *)
(* pleases, independently for every query: each page is cut from an order  *)
(* chosen anew among those sorted by time.  A row is a model value, and    *)
(* every table holds the same rows with the same timestamps; Save is an    *)
(* upsert by primary key, so a target table is a set of rows.  Only rows   *)
(* older than a day are verified (line 675): every row is old.             *)
(***************************************************************************)
EXTENDS Naturals, FiniteSets, SequencesExt

CONSTANTS
    Keys,         \* the rows of each source table (model values)
    Times,        \* the timestamps rows may carry
    StepSeq,      \* the MERGE_STEP values the operator runs, in order
    BasicTables,  \* the tables migrateBridgeBasicTables copies, in order
    BridgeTables, \* the tables migrateBridgeTxs copies, in order
    PageSize,     \* selectNum (1000)
    VerifyLimit,  \* the rows verifyTables checks per table (200)
    Faults        \* TRUE: a query or a save may fail (the tool panics)

ExplorerSteps == {"migrateExplorerSrcTransactions",
                  "migrateExplorerPolyTransactions",
                  "migrateExplorerDstTransactions"}

ASSUME MigrationAssumption ==
    /\ IsFiniteSet(Keys) /\ Keys # {} /\ Times \subseteq Nat
    /\ StepSeq \in Seq(ExplorerSteps \cup {"migrateBridgeBasicTables",
                                           "migrateBridgeTxs", "verifyTables"})
    /\ Len(StepSeq) > 0 /\ BasicTables \in Seq(STRING) /\ BridgeTables \in Seq(STRING)
    /\ PageSize \in Nat \ {0} /\ VerifyLimit \in Nat
    /\ Faults \in BOOLEAN

VARIABLES
    time,     \* time[k]: the timestamp (time, tt) of row k, in every table
    step,     \* the index in StepSeq of the step being run
    tix,      \* the index of the table being copied within the step
    count,    \* the page counter of the copy loop
    dst,      \* dst[t]: the rows of source table t in the target database
    report,   \* report[t]: the two sizes countTables logged for t
    pc        \* "run", "done", "failed"

vars == <<time, step, tix, count, dst, report, pc>>

(***************************************************************************)
(* The source tables each step copies: the explorer steps one table each   *)
(* (fchain_tx, mchain_tx, tchain_tx, lines 477-599), the basic-table and  *)
(* transaction steps their lists (413-421, 623-666).                       *)
(***************************************************************************)
TablesOf(st) ==
    CASE st = "migrateExplorerSrcTransactions" -> <<"fchain_tx">>
      [] st = "migrateExplorerPolyTransactions" -> <<"mchain_tx">>
      [] st = "migrateExplorerDstTransactions" -> <<"tchain_tx">>
      [] st = "migrateBridgeBasicTables" -> BasicTables
      [] st = "migrateBridgeTxs" -> BridgeTables
      [] OTHER -> <<>>

Sources == UNION {Range(TablesOf(StepSeq[i])) : i \in 1..Len(StepSeq)}
Step == StepSeq[step]
Table == TablesOf(Step)[tix]

\* The orders MySQL may return the rows in for ORDER BY time (tt) asc/desc.
Ascending == {s \in SetToSeqs(Keys) : \A i, j \in 1..Len(s) : i < j => time[s[i]] <= time[s[j]]}
Descending == {s \in SetToSeqs(Keys) : \A i, j \in 1..Len(s) : i < j => time[s[i]] >= time[s[j]]}

\* Limit(PageSize).Offset(PageSize * n) over the order s.
Page(s, n) == {s[i] : i \in {j \in 1..Len(s) : n * PageSize < j /\ j <= (n + 1) * PageSize}}

\* checkError (lines 316-320), and the explorer loops' panic(err): the tool ends.
CheckError == pc' = "failed"

\* countTables (lines 468-475): both sizes are counted on the source.
CountTables(t) == [a |-> Cardinality(Keys), b |-> Cardinality(Keys)]

NoReport == [a |-> 0, b |-> 0]

TypeOK ==
    /\ time \in [Keys -> Times]
    /\ step \in 1..Len(StepSeq) /\ tix \in Nat /\ count \in Nat
    /\ dst \in [Sources -> SUBSET Keys]
    /\ report \in [Sources -> [a : Nat, b : Nat]]
    /\ pc \in {"run", "done", "failed"}

Init ==
    /\ time \in [Keys -> Times]
    /\ step = 1
    /\ tix = 1
    /\ count = 0
    /\ dst = [t \in Sources |-> {}]
    /\ report = [t \in Sources |-> NoReport]
    /\ pc = "run"

-----------------------------------------------------------------------------
(* The page loops                                                          *)

\* Mutant (checks LossOnlyAtTies): the Limit is one row short of the Offset step.
FetchPageSkip(s) ==
    LET pg == {s[i] : i \in {j \in 1..Len(s) : count * PageSize < j /\ j < (count + 1) * PageSize}} IN
    /\ s \in Ascending
    /\ pg # {}
    /\ dst' = [dst EXCEPT ![Table] = @ \cup pg]
    /\ count' = count + 1
    /\ UNCHANGED <<time, step, tix, report, pc>>

\* Mutant (checks Terminates): count++ is missing.
FetchPageStuck(s) ==
    /\ s \in Ascending
    /\ Page(s, count) # {}
    /\ dst' = [dst EXCEPT ![Table] = @ \cup Page(s, count)]
    /\ UNCHANGED <<time, step, tix, count, report, pc>>

(***************************************************************************)
(* migrateTableInBatches, lines 607-615: a nonempty page is fetched in     *)
(* order s, saved (an upsert by primary key), and count advances.          *)
(***************************************************************************)
FetchPage(s) ==
    /\ s \in Ascending
    /\ Page(s, count) # {}
    /\ dst' = [dst EXCEPT ![Table] = @ \cup Page(s, count)]
    /\ count' = count + 1
    /\ UNCHANGED <<time, step, tix, report, pc>>

StepIs(st) == pc = "run" /\ Step = st

(***************************************************************************)
(* The explorer loops: the same page loop in "tt asc" order.  The JSON     *)
(* round trip and the address and hash conversions rewrite fields other    *)
(* than the primary key, which the properties do not read.                 *)
(***************************************************************************)
ExplorerSrcPage(s) == StepIs("migrateExplorerSrcTransactions") /\ FetchPage(s)

ExplorerPolyPage(s) == StepIs("migrateExplorerPolyTransactions") /\ FetchPage(s)

ExplorerDstPage(s) == StepIs("migrateExplorerDstTransactions") /\ FetchPage(s)

BridgePage(s) == StepIs("migrateBridgeTxs") /\ FetchPage(s)

\* The operator moves on to the next MERGE_STEP; after the last one, stop.
NextStep ==
    IF step < Len(StepSeq)
      THEN step' = step + 1 /\ tix' = 1 /\ count' = 0 /\ UNCHANGED pc
      ELSE pc' = "done" /\ UNCHANGED <<step, tix, count>>

(***************************************************************************)
(* migrateTable (lines 404-411): the whole table is loaded and saved in    *)
(* one go, then countTables logs the sizes.                                *)
(***************************************************************************)
CopyTable ==
    /\ StepIs("migrateBridgeBasicTables")
    /\ dst' = [dst EXCEPT ![Table] = Keys]
    /\ report' = [report EXCEPT ![Table] = CountTables(Table)]
    /\ IF tix < Len(TablesOf(Step))
         THEN tix' = tix + 1 /\ UNCHANGED <<step, count, pc>>
         ELSE NextStep
    /\ UNCHANGED time

\* A fetch, a conversion or a save fails and the tool panics.
PageFails ==
    /\ Faults
    /\ pc = "run"
    /\ Step # "verifyTables"
    /\ CheckError
    /\ UNCHANGED <<time, step, tix, count, dst, report>>

(***************************************************************************)
(* An empty page ends the loop (lines 616-620, 518-522, 553-557, 594-598), *)
(* countTables logs the sizes, and the next table of migrateBridgeTxs or   *)
(* the next step starts.                                                   *)
(***************************************************************************)
EndTable ==
    /\ pc = "run"
    /\ Step \notin {"verifyTables", "migrateBridgeBasicTables"}
    /\ count * PageSize >= Cardinality(Keys)
    /\ report' = [report EXCEPT ![Table] = CountTables(Table)]
    /\ IF tix < Len(TablesOf(Step))
         THEN tix' = tix + 1 /\ count' = 0 /\ UNCHANGED <<step, pc>>
         ELSE NextStep
    /\ UNCHANGED <<time, dst>>

Latest(s) == {s[i] : i \in {j \in 1..Len(s) : j <= VerifyLimit}}

\* reflect.DeepEqual(a, b) with a of type *T and b of type T: never TRUE.
DeepEqualPtrVal == FALSE

(***************************************************************************)
(* verifyTables (lines 668-710): for each bridge table the latest          *)
(* VerifyLimit rows, in a "time desc" order d[t], are looked up by hash in *)
(* the target; a missing one makes First fail and checkError panic, a     *)
(* present one reaches assert(reflect.DeepEqual(a, b)), which panics.      *)
(***************************************************************************)
Verify(d) ==
    /\ StepIs("verifyTables")
    /\ \A t \in DOMAIN d : d[t] \in Descending
    /\ IF \A t \in DOMAIN d : \A k \in Latest(d[t]) : k \in dst[t] /\ DeepEqualPtrVal
         THEN NextStep
         ELSE CheckError /\ UNCHANGED <<step, tix, count>>
    /\ UNCHANGED <<time, dst, report>>

Next ==
    \/ \E s \in SetToSeqs(Keys) :
          \/ ExplorerSrcPage(s) \/ ExplorerPolyPage(s) \/ ExplorerDstPage(s)
          \/ BridgePage(s)
    \/ CopyTable
    \/ PageFails
    \/ EndTable
    \/ \E d \in [Range(BridgeTables) -> SetToSeqs(Keys)] : Verify(d)

(***************************************************************************)
(* The tool is one sequential goroutine and the operator runs each step:   *)
(* the next step is taken.  An injected query or save failure is possible  *)
(* but never forced; verifyTables' panic is the code's own next step.      *)
(***************************************************************************)
Fairness == WF_vars(Next /\ ~PageFails)

Spec == Init /\ [][Next]_vars /\ Fairness

-----------------------------------------------------------------------------
(* Properties                                                              *)

(***************************************************************************)
(* Only ties lose rows: once a table has been copied, every source row     *)
(* missing from the target shares its timestamp with another row.  The    *)
(* Limit/Offset pages of migrateTableInBatches can only disagree on rows   *)
(* whose order the ORDER BY leaves open.                                   *)
(***************************************************************************)
LossOnlyAtTies ==
    \A t \in Sources : report[t] # NoReport =>
        \A k \in Keys \ dst[t] : \E k2 \in Keys \ {k} : time[k2] = time[k]

\* The migration ends: every table's page loop reaches an empty page.
Terminates == <>(pc \in {"done", "failed"})

(***************************************************************************)
(* A lost row is reported: every table whose copy has ended and lost rows  *)
(* shows it in the two sizes countTables logged for it ("Compare table     *)
(* size", line 473).                                                       *)
(***************************************************************************)
LossReported ==
    \A t \in Sources : report[t] # NoReport =>
        dst[t] = Keys \/ report[t].a # report[t].b

=============================================================================
