-------------------------- MODULE Migration_proofs --------------------------
(***************************************************************************)
(* Machine-checked proof that the Limit/Offset page loops of the migration *)
(* tool lose only rows that tie on their timestamp with another row, for   *)
(* every set of rows, timestamps, page size and list of steps and tables.  *)
(*                                                                         *)
(* The argument: a row k whose timestamp no other row has sits, in every   *)
(* order sorted by time, at the same position Pos(k), one past the number  *)
(* of rows older than it.  Page n covers positions (n * PageSize,          *)
(* (n + 1) * PageSize] whatever order MySQL picks for it, so after n pages *)
(* every such row with Pos(k) <= n * PageSize has been saved; the loop     *)
(* ends only when n * PageSize reaches the table size.                     *)
(***************************************************************************)
EXTENDS Migration, FiniteSetTheorems, TLAPS

USE MigrationAssumption

\* No other row carries k's timestamp: the ORDER BY fixes k's place.
Unique(k) == \A o \in Keys \ {k} : time[o] # time[k]

\* The position of k in every order sorted by time, when k is unique.
Pos(k) == Cardinality({o \in Keys : time[o] < time[k]}) + 1

\* The steps whose tables are copied page by page.
Paged(st) == st \in ExplorerSteps \cup {"migrateBridgeTxs"}

\* After n pages of table t, every unique row up to position n * PageSize is saved.
Covered(t, n) == \A k \in Keys : Unique(k) /\ Pos(k) <= n * PageSize => k \in dst[t]

-----------------------------------------------------------------------------
(* Positions in a sorted order.                                            *)

LEMMA PosBound ==
    ASSUME time \in [Keys -> Times], NEW k \in Keys
    PROVE  Pos(k) \in 1..Cardinality(Keys)
<1> DEFINE L == {o \in Keys : time[o] < time[k]}
<1>1. L \subseteq Keys \ {k}
    <2>1. \A o \in Keys : time[o] \in Nat
        OBVIOUS
    <2>2. QED
        BY <2>1
<1>2. IsFiniteSet(Keys \ {k}) /\ Cardinality(Keys \ {k}) = Cardinality(Keys) - 1
    BY FS_RemoveElement
<1>3. Cardinality(L) \in Nat /\ Cardinality(L) <= Cardinality(Keys \ {k})
    BY <1>1, <1>2, FS_Subset, FS_CardinalityType
<1>4. Cardinality(Keys) \in Nat
    BY FS_CardinalityType
<1>5. QED
    BY <1>2, <1>3, <1>4 DEF Pos

(***************************************************************************)
(* In an order s sorted by time, a row k with a timestamp of its own is at *)
(* position Pos(k): the rows before it are exactly the older rows.         *)
(***************************************************************************)
LEMMA AscendingPos ==
    ASSUME time \in [Keys -> Times], NEW s \in Ascending, NEW k \in Keys, Unique(k)
    PROVE  Pos(k) \in 1..Cardinality(Keys) /\ s[Pos(k)] = k
<1> DEFINE N == Cardinality(Keys)
           L == {o \in Keys : time[o] < time[k]}
<1>1. /\ N \in Nat
      /\ s \in [1..N -> Keys]
      /\ \A i, j \in 1..N : i # j => s[i] # s[j]
      /\ Len(s) = N
    BY FS_CardinalityType DEF Ascending, SetToSeqs
<1>2. \A i, j \in 1..N : i < j => time[s[i]] <= time[s[j]]
    BY <1>1 DEF Ascending
<1>3. s \in Injection(1..N, Keys)
    BY <1>1 DEF Injection, IsInjective
<1>4. s \in Surjection(1..N, Keys)
    <2>1. IsFiniteSet(1..N) /\ Cardinality(1..N) = N
        BY <1>1, FS_Interval
    <2>2. QED
        BY <1>3, <2>1, FS_Injection
<1>5. PICK i \in 1..N : s[i] = k
    BY <1>4 DEF Surjection
<1> DEFINE f == [j \in 1..(i - 1) |-> s[j]]
<1>6. f \in [1..(i - 1) -> L]
    <2> SUFFICES ASSUME NEW j \in 1..(i - 1) PROVE s[j] \in L
        OBVIOUS
    <2>1. j \in 1..N /\ j < i /\ s[j] \in Keys
        BY <1>1
    <2>2. time[s[j]] <= time[k] /\ s[j] # k
        BY <1>1, <1>2, <1>5, <2>1
    <2>3. time[s[j]] # time[k]
        BY <2>1, <2>2 DEF Unique
    <2>4. time[s[j]] \in Nat /\ time[k] \in Nat
        BY <2>1
    <2>5. QED
        BY <2>1, <2>2, <2>3, <2>4
<1>7. \A o \in L : \E j \in 1..(i - 1) : f[j] = o
    <2> SUFFICES ASSUME NEW o \in L PROVE \E j \in 1..(i - 1) : s[j] = o
        OBVIOUS
    <2>1. PICK j \in 1..N : s[j] = o
        BY <1>4 DEF Surjection
    <2>2. time[o] < time[k] /\ time[o] \in Nat /\ time[k] \in Nat
        OBVIOUS
    <2>3. ~(i <= j)
        <3>1. CASE i = j
            BY <1>5, <2>1, <2>2, <3>1
        <3>2. CASE i < j
            BY <1>2, <1>5, <2>1, <2>2, <3>2
        <3>3. QED
            BY <3>1, <3>2
    <2>4. QED
        BY <2>1, <2>3
<1>8. f \in Bijection(1..(i - 1), L)
    <2>1. \A a, b \in 1..(i - 1) : f[a] = f[b] => a = b
        BY <1>1, <1>5
    <2>2. f \in Injection(1..(i - 1), L)
        BY <1>6, <2>1 DEF Injection, IsInjective
    <2>3. f \in Surjection(1..(i - 1), L)
        BY <1>6, <1>7 DEF Surjection
    <2>4. QED
        BY <2>2, <2>3 DEF Bijection
<1>9. Cardinality(L) = i - 1
    <2>1. IsFiniteSet(1..(i - 1)) /\ Cardinality(1..(i - 1)) = i - 1
        <3>1. i \in Nat /\ 1 <= i
            BY <1>1, <1>5
        <3>2. i - 1 \in Int /\ 1 \in Int
            BY <3>1
        <3>3. IsFiniteSet(1..(i - 1))
              /\ Cardinality(1..(i - 1)) = IF 1 > i - 1 THEN 0 ELSE (i - 1) - 1 + 1
            BY <3>2, FS_Interval
        <3>4. QED
            BY <3>1, <3>3
    <2>2. QED
        BY <1>8, <2>1, FS_Bijection DEF ExistsBijection
<1>10. QED
    BY <1>5, <1>9 DEF Pos
\* A row is never before position 1: after zero pages nothing is claimed.
LEMMA CoveredZero ==
    ASSUME time \in [Keys -> Times], NEW t
    PROVE  Covered(t, 0)
BY PosBound DEF Covered

-----------------------------------------------------------------------------
(* Type correctness.                                                       *)

\* Every page is a set of rows of the table.
LEMMA PageRows ==
    ASSUME NEW s \in SetToSeqs(Keys), NEW n \in Nat
    PROVE  Page(s, n) \subseteq Keys
<1>1. Cardinality(Keys) \in Nat
    BY FS_CardinalityType
<1>2. s \in [1..Cardinality(Keys) -> Keys] /\ Len(s) = Cardinality(Keys)
    BY <1>1 DEF SetToSeqs
<1>3. QED
    BY <1>2 DEF Page

LEMMA InitTypeOK == Init => TypeOK
BY DEF Init, TypeOK, NoReport

\* NextStep keeps the step an index of StepSeq and the counters natural.
LEMMA NextStepTypeOK ==
    ASSUME TypeOK, NextStep
    PROVE  step' \in 1..Len(StepSeq) /\ tix' \in Nat /\ count' \in Nat
           /\ pc' \in {"run", "done", "failed"}
BY DEF NextStep, TypeOK

\* A fetched page keeps the target a set of rows of the table.
LEMMA FetchTypeOK ==
    ASSUME TypeOK, NEW s \in SetToSeqs(Keys), FetchPage(s)
    PROVE  TypeOK'
<1>1. Page(s, count) \subseteq Keys
    BY PageRows DEF TypeOK
<1>2. dst' \in [Sources -> SUBSET Keys]
    <2>1. CASE Table \in Sources
        BY <1>1, <2>1 DEF FetchPage, TypeOK
    <2>2. CASE Table \notin Sources
        BY <2>2 DEF FetchPage, TypeOK
    <2>3. QED
        BY <2>1, <2>2
<1>3. QED
    BY <1>2 DEF FetchPage, TypeOK

LEMMA NextTypeOK == TypeOK /\ [Next]_vars => TypeOK'
<1> SUFFICES ASSUME TypeOK, [Next]_vars PROVE TypeOK'
    OBVIOUS
<1>1. ASSUME NEW s \in SetToSeqs(Keys), FetchPage(s) PROVE TypeOK'
    BY <1>1, FetchTypeOK
<1>2. CASE CopyTable
    <2>1. CountTables(Table) \in [a : Nat, b : Nat]
        BY FS_CardinalityType DEF CountTables
    <2>2. step' \in 1..Len(StepSeq) /\ tix' \in Nat /\ count' \in Nat
          /\ pc' \in {"run", "done", "failed"}
        BY <1>2, NextStepTypeOK DEF CopyTable, StepIs, TypeOK
    <2>3. QED
        BY <1>2, <2>1, <2>2 DEF CopyTable, TypeOK
<1>3. CASE PageFails
    BY <1>3 DEF PageFails, CheckError, TypeOK
<1>4. CASE EndTable
    <2>1. CountTables(Table) \in [a : Nat, b : Nat]
        BY FS_CardinalityType DEF CountTables
    <2>2. step' \in 1..Len(StepSeq) /\ tix' \in Nat /\ count' \in Nat
          /\ pc' \in {"run", "done", "failed"}
        BY <1>4, NextStepTypeOK DEF EndTable, TypeOK
    <2>3. QED
        BY <1>4, <2>1, <2>2 DEF EndTable, TypeOK
<1>5. ASSUME NEW d, Verify(d) PROVE TypeOK'
    <2>1. step' \in 1..Len(StepSeq) /\ tix' \in Nat /\ count' \in Nat
          /\ pc' \in {"run", "done", "failed"}
        BY <1>5, NextStepTypeOK DEF Verify, CheckError, TypeOK
    <2>2. QED
        BY <1>5, <2>1 DEF Verify, TypeOK
<1>6. CASE UNCHANGED vars
    BY <1>6 DEF vars, TypeOK
<1>7. QED
    BY <1>1, <1>2, <1>3, <1>4, <1>5, <1>6
    DEF Next, ExplorerSrcPage, ExplorerPolyPage, ExplorerDstPage, BridgePage

\* Every reachable state of the migration tool is well typed.
THEOREM TypeCorrect == Spec => []TypeOK
BY InitTypeOK, NextTypeOK, PTL DEF Spec

-----------------------------------------------------------------------------
(* The inductive invariant behind LossOnlyAtTies.                          *)

\* A table that countTables has reported holds every row of unique time.
ReportedRows ==
    \A t \in Sources : report[t] # NoReport =>
        \A k \in Keys : Unique(k) => k \in dst[t]

\* While a paged loop runs, its count pages hold every row of unique time
\* among the first count * PageSize of the time order.
RunCovered ==
    pc = "run" /\ Paged(Step) /\ Table \in Sources => Covered(Table, count)

MInv == TypeOK /\ ReportedRows /\ RunCovered

\* A sequence of SetToSeqs(Keys) lists each row once: its length is |Keys|.
LEMMA OrderLen ==
    ASSUME NEW s \in SetToSeqs(Keys)
    PROVE  Len(s) = Cardinality(Keys)
BY FS_CardinalityType DEF SetToSeqs

\* The step being run is one of the steps the tool knows.
LEMMA StepKind ==
    ASSUME TypeOK
    PROVE  Step \in ExplorerSteps \cup {"migrateBridgeBasicTables",
                                        "migrateBridgeTxs", "verifyTables"}
BY DEF TypeOK, Step

\* The rank of a row depends on the timestamps only.
LEMMA PosKept ==
    ASSUME time' = time, NEW k \in Keys
    PROVE  Pos(k)' = Pos(k) /\ Unique(k)' = Unique(k)
BY DEF Pos, Unique

LEMMA InitMInv == Init => MInv
<1> SUFFICES ASSUME Init PROVE MInv
    OBVIOUS
<1>1. TypeOK
    BY InitTypeOK
<1>2. ReportedRows
    BY DEF Init, ReportedRows
<1>3. RunCovered
    BY CoveredZero DEF Init, RunCovered
<1>4. QED
    BY <1>1, <1>2, <1>3 DEF MInv

\* A loop that starts over (count' = 0) or has stopped owes no rows.
LEMMA RestartCovered ==
    ASSUME TypeOK, time' = time, count' = 0 \/ pc' # "run"
    PROVE  RunCovered'
<1>1. CASE pc' # "run"
    BY <1>1 DEF RunCovered
<1>2. CASE count' = 0
    <2>1. \A k \in Keys : Pos(k)' = Pos(k) /\ Pos(k) \in 1..Cardinality(Keys)
        BY PosKept, PosBound DEF TypeOK
    <2>2. QED
        BY <1>2, <2>1 DEF RunCovered, Covered
<1>3. QED
    BY <1>1, <1>2

\* A fetched page extends the covered prefix by PageSize positions.
LEMMA FetchCovers ==
    ASSUME MInv, NEW s \in SetToSeqs(Keys), pc = "run", FetchPage(s)
    PROVE  MInv'
<1>0. TypeOK'
    BY FetchTypeOK DEF MInv
<1>1. \A t \in Sources : dst[t] \subseteq dst'[t]
    BY DEF FetchPage, MInv, TypeOK
<1>2. \A k \in Keys : Unique(k)' = Unique(k) /\ Pos(k)' = Pos(k)
    BY PosKept DEF FetchPage
<1>3. ReportedRows'
    BY <1>1, <1>2 DEF FetchPage, MInv, ReportedRows
<1>4. RunCovered'
    <2>1. Step' = Step /\ Table' = Table
        BY DEF FetchPage, Step, Table
    <2> SUFFICES ASSUME Paged(Step), Table \in Sources
                 PROVE  Covered(Table, count)'
        BY <2>1 DEF FetchPage, RunCovered
    <2>2. Covered(Table, count)
        BY DEF MInv, RunCovered
    <2>3. dst'[Table] = dst[Table] \cup Page(s, count)
        BY DEF FetchPage, MInv, TypeOK
    <2>4. SUFFICES ASSUME NEW k \in Keys, Unique(k),
                          Pos(k) <= (count + 1) * PageSize
                   PROVE  k \in dst'[Table]
        BY <1>2, <2>1 DEF FetchPage, Covered
    <2>5. CASE Pos(k) <= count * PageSize
        BY <2>2, <2>3, <2>4, <2>5 DEF Covered
    <2>6. CASE ~(Pos(k) <= count * PageSize)
        <3>1. s \in Ascending
            BY DEF FetchPage
        <3>2. Pos(k) \in 1..Cardinality(Keys) /\ s[Pos(k)] = k
            BY <2>4, <3>1, AscendingPos DEF MInv, TypeOK
        <3>3. Len(s) = Cardinality(Keys)
            BY OrderLen
        <3>4. Pos(k) \in {j \in 1..Len(s) : count * PageSize < j
                                             /\ j <= (count + 1) * PageSize}
            BY <2>6, <3>2, <3>3, <2>4 DEF MInv, TypeOK
        <3>5. k \in Page(s, count)
            BY <3>2, <3>4 DEF Page
        <3>6. QED
            BY <2>3, <3>5
    <2>7. QED
        BY <2>5, <2>6
<1>5. QED
    BY <1>0, <1>3, <1>4 DEF MInv

\* migrateTable copies the whole table: the basic step is not paged, and
\* the next step, if any, starts at page 0.
LEMMA CopyKeeps ==
    ASSUME MInv, CopyTable
    PROVE  MInv'
<1>0. TypeOK'
    BY NextTypeOK DEF MInv, Next
<1>1. \A k \in Keys : Unique(k)' = Unique(k)
    BY PosKept DEF CopyTable
<1>2. ReportedRows'
    <2> SUFFICES ASSUME NEW t \in Sources, report'[t] # NoReport,
                        NEW k \in Keys, Unique(k)
                 PROVE  k \in dst'[t]
        BY <1>1 DEF ReportedRows
    <2>1. CASE t = Table
        BY <2>1 DEF CopyTable, MInv, TypeOK
    <2>2. CASE t # Table
        BY <2>2 DEF CopyTable, MInv, TypeOK, ReportedRows
    <2>3. QED
        BY <2>1, <2>2
<1>3. RunCovered'
    <2>1. CASE tix < Len(TablesOf(Step))
        <3>1. Step' = "migrateBridgeBasicTables"
            BY <2>1 DEF CopyTable, StepIs, Step
        <3>2. ~Paged(Step)'
            BY <3>1 DEF Paged, ExplorerSteps
        <3>3. QED
            BY <3>2 DEF RunCovered
    <2>2. CASE ~(tix < Len(TablesOf(Step)))
        BY <2>2, RestartCovered DEF CopyTable, NextStep, MInv
    <2>3. QED
        BY <2>1, <2>2
<1>4. QED
    BY <1>0, <1>2, <1>3 DEF MInv

\* An empty page ends a paged loop only past the last row, so every row of
\* unique time is in the target when countTables reports the table.
LEMMA EndKeeps ==
    ASSUME MInv, EndTable
    PROVE  MInv'
<1>0. TypeOK'
    BY NextTypeOK DEF MInv, Next
<1>1. \A k \in Keys : Unique(k)' = Unique(k)
    BY PosKept DEF EndTable
<1>2. Paged(Step)
    BY StepKind DEF EndTable, MInv, Paged
<1>3. Table \in Sources => \A k \in Keys : Unique(k) => k \in dst[Table]
    <2> SUFFICES ASSUME Table \in Sources, NEW k \in Keys, Unique(k)
                 PROVE  k \in dst[Table]
        OBVIOUS
    <2>1. Covered(Table, count)
        BY <1>2 DEF EndTable, MInv, RunCovered
    <2>2. Pos(k) \in 1..Cardinality(Keys)
        BY PosBound DEF MInv, TypeOK
    <2>3. Pos(k) <= count * PageSize
        <3>1. Cardinality(Keys) \in Nat /\ count * PageSize \in Nat
            BY FS_CardinalityType DEF MInv, TypeOK
        <3>2. Cardinality(Keys) <= count * PageSize
            BY DEF EndTable
        <3>3. QED
            BY <2>2, <3>1, <3>2
    <2>4. QED
        BY <2>1, <2>3 DEF Covered
<1>4. ReportedRows'
    <2> SUFFICES ASSUME NEW t \in Sources, report'[t] # NoReport,
                        NEW k \in Keys, Unique(k)
                 PROVE  k \in dst'[t]
        BY <1>1 DEF ReportedRows
    <2>1. CASE t = Table
        BY <1>3, <2>1 DEF EndTable
    <2>2. CASE t # Table
        BY <2>2 DEF EndTable, MInv, TypeOK, ReportedRows
    <2>3. QED
        BY <2>1, <2>2
<1>5. RunCovered'
    BY RestartCovered DEF EndTable, NextStep, MInv
<1>6. QED
    BY <1>0, <1>4, <1>5 DEF MInv

\* A failed query or save stops the tool; verifyTables moves no rows.
LEMMA FailKeeps ==
    ASSUME MInv, PageFails \/ \E d : Verify(d)
    PROVE  MInv'
<1>0. TypeOK'
    <2>1. CASE PageFails
        BY <2>1 DEF PageFails, CheckError, MInv, TypeOK
    <2>2. CASE \E d : Verify(d)
        <3>1. PICK d : Verify(d)
            BY <2>2
        <3>2. step' \in 1..Len(StepSeq) /\ tix' \in Nat /\ count' \in Nat
              /\ pc' \in {"run", "done", "failed"}
            BY <3>1, NextStepTypeOK DEF Verify, CheckError, MInv, TypeOK
        <3>3. QED
            BY <3>1, <3>2 DEF Verify, MInv, TypeOK
    <2>3. QED
        BY <2>1, <2>2
<1>1. \A k \in Keys : Unique(k)' = Unique(k)
    BY PosKept DEF PageFails, Verify
<1>2. ReportedRows'
    BY <1>1 DEF PageFails, Verify, MInv, ReportedRows
<1>3. RunCovered'
    BY RestartCovered DEF PageFails, CheckError, Verify, NextStep, MInv
<1>4. QED
    BY <1>0, <1>2, <1>3 DEF MInv

LEMMA MStep == MInv /\ [Next]_vars => MInv'
<1> SUFFICES ASSUME MInv, [Next]_vars PROVE MInv'
    OBVIOUS
<1>1. ASSUME NEW s \in SetToSeqs(Keys),
             \/ ExplorerSrcPage(s) \/ ExplorerPolyPage(s) \/ ExplorerDstPage(s)
             \/ BridgePage(s)
      PROVE  MInv'
    BY <1>1, FetchCovers
    DEF ExplorerSrcPage, ExplorerPolyPage, ExplorerDstPage, BridgePage, StepIs
<1>2. CASE UNCHANGED vars
    BY <1>2 DEF vars, MInv, TypeOK, ReportedRows, RunCovered, Covered,
                Unique, Pos, Paged, Step, Table
<1>3. QED
    BY <1>1, <1>2, CopyKeeps, EndKeeps, FailKeeps DEF Next

(***************************************************************************)
(* Only ties lose rows, for every table list, page size and set of rows:   *)
(* the Limit/Offset pages of migrateTableInBatches, each cut from its own  *)
(* time order, together hold every row whose timestamp no other row       *)
(* shares, by the time the empty page ends the loop and countTables        *)
(* reports the table.                                                      *)
(***************************************************************************)
THEOREM LossOnlyAtTiesHolds == Spec => []LossOnlyAtTies
<1>1. MInv => LossOnlyAtTies
    BY DEF MInv, ReportedRows, LossOnlyAtTies, Unique
<1>2. QED
    BY InitMInv, MStep, <1>1, PTL DEF Spec

=============================================================================
