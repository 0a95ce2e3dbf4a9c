-------------------------- MODULE TokenStatistics --------------------------
(***************************************************************************)
(* The token-statistics pass, Stats.computeTokenStatistics                 *)
(* (crosschainstats.go, lines 186-308), against a dst_transfers ledger (in *)
(* transfers) and a src_transfers ledger (out transfers) that keep growing *)
(* and a tokens catalog that gains entries.                                *)
(*                                                                         *)
(* One token_statistics row per token (chain id, hash) holds InCounter,    *)
(* OutCounter and two checkpoints, LastInCheckId (a dst_transfers id) and  *)
(* LastOutCheckId (a src_transfers id).  Amounts are left out: they follow *)
(* the counters, except on the home chain where InAmount is replaced by a  *)
(* live balance read that no property here is about.                       *)
(*                                                                         *)
(* Line 251 reads `if err == nil { continue }`: a row whose token is found *)
(* is skipped, and a row whose lookup fails goes on with a nil token and   *)
(* panics at line 255, which ends the process (not modelled: the runs with *)
(* the guard as written have reliable lookups).  GuardAsWritten = TRUE     *)
(* models that line as written;                                            *)
(* FALSE models the guard its log message states (skip on error), which    *)
(* is what makes the rest of the loop body reachable.                      *)
(*                                                                         *)
(* The module also holds the token-basic pass, Stats.computeStats and      *)
(* computeTokenBasicStats (lines 109-161), which folds the same            *)
(* src_transfers ledger into per-basic totals (TotalCount) under the       *)
(* checkpoint StatsUpdateTime.  The two passes run in goroutines of their  *)
(* own and share nothing but the ledgers and the catalog.                  *)
(***************************************************************************)
EXTENDS Naturals, Sequences, FiniteSets

CONSTANTS
    Tokens,          \* tokens (chain id, hash) of Standard 0 (model values)
    Home,            \* tokens that sit on their basic's home chain
    MaxIds,          \* bound on the length of each ledger
    Faults,          \* TRUE: lookups, queries and saves may fail
    GuardAsWritten,  \* TRUE: line 251 as written; FALSE: the intended guard
    Basics,          \* token basics (model values)
    BasicOf,         \* the basic of each token
    Epoch            \* unix time of the first transfer

ASSUME TokensAssumption == IsFiniteSet(Tokens) /\ Home \subseteq Tokens
ASSUME MaxIdsAssumption == MaxIds \in Nat
\* Transfer times are unix seconds, far above any id.
ASSUME BasicsAssumption ==
    /\ BasicOf \in [Tokens -> Basics]
    /\ Epoch \in Nat /\ Epoch > MaxIds

\* With the guard as written a failed lookup panics (line 255); such runs
\* keep lookups reliable.
ASSUME FlagsAssumption ==
    /\ Faults \in BOOLEAN /\ GuardAsWritten \in BOOLEAN
    /\ GuardAsWritten => ~Faults

VARIABLES
    dst,        \* dst_transfers: the token of each in transfer, by id
    src,        \* src_transfers: the token of each out transfer, by id
    catalog,    \* tokens registered so far
    stat,       \* the token_statistics table, one slot per token
    pc,         \* "idle" or "fold"
    nowIn,      \* dst_transfers high-water mark read by the pass
    nowOut,     \* src_transfers high-water mark read by the pass
    todo,       \* rows of the current pass not yet handled
    bstat,      \* token_basics: TotalCount and StatsUpdateTime per basic
    bpc,        \* "idle" or "fold": the token-basic pass
    btodo       \* basics of the current token-basic pass not yet handled

tokenVars == <<dst, src, catalog, stat, pc, nowIn, nowOut, todo>>
basicVars == <<bstat, bpc, btodo>>
vars == <<tokenVars, basicVars>>

Row == [present : BOOLEAN, inCnt : Nat, outCnt : Nat, inChk : Nat, outChk : Nat]

\* Lines 225-242: a row created in memory for a token that has none.
ZeroRow == [present |-> TRUE, inCnt |-> 0, outCnt |-> 0, inChk |-> 0, outChk |-> 0]

\* The transfers of token t in a ledger with id in (lo, hi].
IdRange(ledger, t, lo, hi) ==
    {i \in 1..Len(ledger) : ledger[i] = t /\ lo < i /\ i <= hi}

TypeOK ==
    /\ dst \in Seq(Tokens) /\ Len(dst) <= MaxIds
    /\ src \in Seq(Tokens) /\ Len(src) <= MaxIds
    /\ catalog \subseteq Tokens
    /\ stat \in [Tokens -> Row]
    /\ pc \in {"idle", "fold"}
    /\ nowIn \in Nat /\ nowOut \in Nat
    /\ todo \subseteq Tokens
    /\ bstat \in [Basics -> [total : Nat, chk : Nat]]
    /\ bpc \in {"idle", "fold"}
    /\ btodo \subseteq Basics

Init ==
    /\ dst = <<>>
    /\ src = <<>>
    /\ catalog = {}
    /\ stat = [t \in Tokens |-> [ZeroRow EXCEPT !.present = FALSE]]
    /\ pc = "idle"
    /\ nowIn = 0
    /\ nowOut = 0
    /\ todo = {}
    /\ bstat = [b \in Basics |-> [total |-> 0, chk |-> 0]]
    /\ bpc = "idle"
    /\ btodo = {}

-----------------------------------------------------------------------------
(* Environment: ingestion of transfers and registration of tokens.        *)

AddDst(t) ==
    /\ Len(dst) < MaxIds
    /\ dst' = Append(dst, t)
    /\ UNCHANGED <<src, catalog, stat, pc, nowIn, nowOut, todo>>

AddSrc(t) ==
    /\ Len(src) < MaxIds
    /\ src' = Append(src, t)
    /\ UNCHANGED <<dst, catalog, stat, pc, nowIn, nowOut, todo>>

AddToken(t) ==
    /\ t \notin catalog
    /\ catalog' = catalog \cup {t}
    /\ UNCHANGED <<dst, src, stat, pc, nowIn, nowOut, todo>>

-----------------------------------------------------------------------------
(* computeTokenStatistics                                                  *)

\* Mutant (checks TokenRowsCreated): no new row for a token without one.
StartPassNoNewRows ==
    /\ pc = "idle"
    /\ dst # <<>> /\ src # <<>>
    /\ nowIn' = Len(dst) /\ nowOut' = Len(src)
    /\ todo' = {t \in Tokens : stat[t].present}
    /\ pc' = "fold"
    /\ UNCHANGED <<dst, src, catalog, stat>>

(***************************************************************************)
(* Lines 188-246: read both high-water marks (an empty ledger makes the    *)
(* read fail and the pass return), the rows and the catalog; the pass      *)
(* covers every existing row and a zero row per token without one.         *)
(***************************************************************************)
StartPass ==
    /\ pc = "idle"
    /\ dst # <<>> /\ src # <<>>
    /\ nowIn' = Len(dst) /\ nowOut' = Len(src)
    /\ todo' = catalog \cup {t \in Tokens : stat[t].present}
    /\ pc' = "fold"
    /\ UNCHANGED <<dst, src, catalog, stat>>

Base(t) == IF stat[t].present THEN stat[t] ELSE ZeroRow

(***************************************************************************)
(* Lines 249-254: GetTokenBasicByHash, then the guard of line 251.  The    *)
(* row is skipped when the lookup's outcome is the one the guard skips.    *)
(***************************************************************************)
SkipToken(t) ==
    /\ pc = "fold"
    /\ t \in todo
    /\ \E found \in BOOLEAN :
          /\ Faults \/ found
          /\ found = GuardAsWritten
    /\ todo' = todo \ {t}
    /\ UNCHANGED <<dst, src, catalog, stat, pc, nowIn, nowOut>>

\* Mutant (checks InCountExact): the in range is closed on the left.
InAfterClosed(t, inOk) ==
    IF t \in Home \/ ~inOk THEN Base(t).inCnt
    ELSE Base(t).inCnt + Cardinality(IdRange(dst, t, Base(t).inChk - 1, nowIn))

\* Mutant (checks InCounterSpec): the counter is replaced by the delta.
InAfterReplaced(t, inOk) ==
    IF t \in Home \/ ~inOk THEN Base(t).inCnt
    ELSE Cardinality(IdRange(dst, t, Base(t).inChk, nowIn))

\* In counter after the in branch (lines 258-276).
InAfter(t, inOk) ==
    IF t \in Home \/ ~inOk THEN Base(t).inCnt
    ELSE Base(t).inCnt + Cardinality(IdRange(dst, t, Base(t).inChk, nowIn))

(***************************************************************************)
(* Lines 249-302 for one row whose lookup succeeded, the save succeeding.  *)
(* On the home chain the in branch reads a balance (258-265) and the       *)
(* counter is left alone; elsewhere CalculateInTokenStatistics counts the  *)
(* in transfers in (LastInCheckId, nowInId] (266-276).  The out query is   *)
(* CalculateOutTokenStatistics(.., LastInCheckId, nowInId) (282-299).  A   *)
(* query error is only logged.  Both checkpoints advance (300-301) and the *)
(* row is saved (302).                                                     *)
(***************************************************************************)
FoldToken(t, inOk, outOk) ==
    /\ pc = "fold"
    /\ t \in todo
    /\ ~GuardAsWritten
    /\ Faults \/ (inOk /\ outOk)
    /\ stat' = [stat EXCEPT ![t] =
                  [present |-> TRUE,
                   inCnt |-> InAfter(t, inOk),
                   outCnt |-> Base(t).outCnt +
                       (IF outOk THEN Cardinality(IdRange(src, t, Base(t).inChk, nowIn))
                        ELSE 0),
                   inChk |-> nowIn,
                   outChk |-> nowOut]]
    /\ todo' = todo \ {t}
    /\ UNCHANGED <<dst, src, catalog, pc, nowIn, nowOut>>

\* Lines 302-305: SaveTokenStatistic fails and the pass returns.
SaveFails(t) ==
    /\ Faults
    /\ pc = "fold"
    /\ t \in todo
    /\ ~GuardAsWritten
    /\ pc' = "idle"
    /\ todo' = {}
    /\ UNCHANGED <<dst, src, catalog, stat, nowIn, nowOut>>

\* Lines 306-307: every row has been handled.
EndPass ==
    /\ pc = "fold"
    /\ todo = {}
    /\ pc' = "idle"
    /\ UNCHANGED <<dst, src, catalog, stat, nowIn, nowOut, todo>>

-----------------------------------------------------------------------------
(* computeStats / computeTokenBasicStats                                   *)

\* The registered tokens of basic b: the assets of lines 131-134.
AssetsOf(b) == {t \in catalog : BasicOf[t] = b}

\* The src transfers of b's tokens with id in (lo, hi].
BasicRange(b, lo, hi) ==
    {i \in 1..Len(src) : src[i] \in AssetsOf(b) /\ lo < i /\ i <= hi}

\* Mutant (checks CheckpointsNeverRegress): the first transfer, not the last.
LastOfFirst(b) ==
    LET ids == BasicRange(b, 0, Len(src))
    IN IF ids = {} THEN 0 ELSE CHOOSE i \in ids : \A j \in ids : i <= j

\* GetLastSrcTransferForToken: the last src transfer of b's tokens (0: none).
LastOf(b) ==
    LET ids == BasicRange(b, 0, Len(src))
    IN IF ids = {} THEN 0 ELSE CHOOSE i \in ids : \A j \in ids : j <= i

\* The Time column of src transfer i.
TimeOf(i) == Epoch + i

\* Lines 111-115: GetTokenBasics; the pass visits every basic with tokens.
BasicStart ==
    /\ bpc = "idle"
    /\ btodo' = {b \in Basics : AssetsOf(b) # {}}
    /\ bpc' = "fold"
    /\ UNCHANGED bstat

(***************************************************************************)
(* Lines 128-142 and the failures of lines 143-146 and 159: no transfer of *)
(* the basic (GetLastSrcTransferForToken fails), StatsUpdateTime equal to  *)
(* the last transfer's Time, or a failed aggregate or update: the stored   *)
(* row is left as it is and the error only logged (line 119).              *)
(***************************************************************************)
BasicSkip(b) ==
    /\ bpc = "fold"
    /\ b \in btodo
    /\ \/ LastOf(b) = 0
       \/ bstat[b].chk = TimeOf(LastOf(b))
       \/ Faults
    /\ btodo' = btodo \ {b}
    /\ UNCHANGED <<bstat, bpc>>

\* Mutant (checks BasicNoOverCount): the aggregate starts from id 0.
BasicFoldFromZero(b) ==
    LET chk == bstat[b].chk
        d == Cardinality(BasicRange(b, 0, LastOf(b)))
    IN /\ bpc = "fold"
       /\ b \in btodo
       /\ LastOf(b) # 0 /\ chk # TimeOf(LastOf(b))
       /\ bstat' = [bstat EXCEPT ![b] =
                      [total |-> IF chk = 0 THEN d ELSE @.total + d, chk |-> LastOf(b)]]
       /\ btodo' = btodo \ {b}
       /\ UNCHANGED bpc

(***************************************************************************)
(* Lines 135-159: AggregateTokenBasicSrcTransfers over (StatsUpdateTime,   *)
(* last.Id], then StatsUpdateTime := last.Id and TotalCount replaced by    *)
(* the delta on a first fold (checkpoint 0) and increased by it otherwise, *)
(* saved by UpdateTokenBasicStatsWithCheckPoint.                           *)
(***************************************************************************)
BasicFold(b) ==
    LET chk == bstat[b].chk
        d == Cardinality(BasicRange(b, chk, LastOf(b)))
    IN /\ bpc = "fold"
       /\ b \in btodo
       /\ LastOf(b) # 0 /\ chk # TimeOf(LastOf(b))
       /\ bstat' = [bstat EXCEPT ![b] =
                      [total |-> IF chk = 0 THEN d ELSE @.total + d, chk |-> LastOf(b)]]
       /\ btodo' = btodo \ {b}
       /\ UNCHANGED bpc

\* Line 123: every basic has been handled.
BasicEnd ==
    /\ bpc = "fold"
    /\ btodo = {}
    /\ bpc' = "idle"
    /\ UNCHANGED <<bstat, btodo>>

BasicPass ==
    \/ BasicStart
    \/ \E b \in Basics : BasicSkip(b) \/ BasicFold(b)
    \/ BasicEnd

Environment ==
    \/ \E t \in Tokens : AddDst(t) \/ AddSrc(t) \/ AddToken(t)

Pass ==
    \/ StartPass
    \/ \E t \in Tokens : SkipToken(t)
    \/ \E t \in Tokens, inOk, outOk \in BOOLEAN : FoldToken(t, inOk, outOk)
    \/ \E t \in Tokens : SaveFails(t)
    \/ EndPass

Next ==
    \/ (Environment \/ Pass) /\ UNCHANGED basicVars
    \/ BasicPass /\ UNCHANGED tokenVars

\* The run loop fires the pass forever on its ticker (see Scheduler).
Fairness ==
    /\ WF_vars(StartPass /\ UNCHANGED basicVars)
    /\ WF_vars(\E t \in Tokens : SkipToken(t) /\ UNCHANGED basicVars)
    /\ WF_vars(\E t \in Tokens : FoldToken(t, TRUE, TRUE) /\ UNCHANGED basicVars)
    /\ WF_vars(EndPass /\ UNCHANGED basicVars)
    /\ WF_vars(BasicPass /\ UNCHANGED tokenVars)

Spec == Init /\ [][Next]_vars /\ Fairness

(***************************************************************************)
(* The in side of the token_statistics rows off the home chain seen as     *)
(* checkpointed counters over dst_transfers: InCounter is the count and    *)
(* LastInCheckId the checkpoint; every dst transfer is visible once it is  *)
(* inserted, and a failed CalculateInTokenStatistics is the lossy step.    *)
(***************************************************************************)
InLedger == [i \in 1..Len(dst) |-> [name |-> dst[i]]]

InRow ==
    [t \in Tokens \ Home |->
        [present |-> stat[t].present, cnt |-> stat[t].inCnt, chk |-> stat[t].inChk]]

InCounter == INSTANCE CheckpointCounter
    WITH Names <- Tokens \ Home, Entry <- [name : Tokens], MaxId <- MaxIds,
         Lossy <- Faults, ledger <- InLedger, committed <- 1..Len(dst), row <- InRow

-----------------------------------------------------------------------------
(* Properties                                                              *)

(***************************************************************************)
(* Exactly-once in counting: off the home chain, every stored InCounter    *)
(* equals the number of in transfers of its token up to LastInCheckId.     *)
(***************************************************************************)
InCountExact ==
    \A t \in Tokens \ Home : stat[t].present =>
        stat[t].inCnt = Cardinality(IdRange(dst, t, 0, stat[t].inChk))

(***************************************************************************)
(* Never over-counting in transfers: whatever lookups, queries and saves   *)
(* fail, no in transfer is ever folded into an InCounter twice.            *)
(***************************************************************************)
InNoOverCount ==
    \A t \in Tokens \ Home : stat[t].present =>
        stat[t].inCnt <= Cardinality(IdRange(dst, t, 0, stat[t].inChk))

(***************************************************************************)
(* Exactly-once out counting: every stored OutCounter equals the number of *)
(* out transfers of its token up to LastOutCheckId, the src_transfers      *)
(* cursor the pass stores with it.                                         *)
(***************************************************************************)
(* Every cataloged token gets its row: once both ledgers are non-empty,    *)
(* the pass eventually saves a token_statistics row for every registered   *)
(* token ("created with zero accumulators on first sight, never skipped"). *)
(***************************************************************************)
TokenRowsCreated ==
    <>[]((dst # <<>> /\ src # <<>>) => \A t \in catalog : stat[t].present)

(***************************************************************************)
(* The token-basic totals never over-count: whatever queries and updates   *)
(* fail, TotalCount never exceeds the number of src transfers of the       *)
(* basic's tokens up to StatsUpdateTime, i.e. computeTokenBasicStats never *)
(* folds a transfer in twice.                                              *)
(***************************************************************************)
BasicNoOverCount ==
    \A b \in Basics : bstat[b].total <= Cardinality(BasicRange(b, 0, bstat[b].chk))

(***************************************************************************)
(* Checkpoints never move back: no step lowers a row's LastInCheckId or    *)
(* LastOutCheckId (set from the high-water ids computeTokenStatistics read *)
(* at its start) or a basic's StatsUpdateTime (set from the last transfer  *)
(* computeTokenBasicStats found).  A lowered cursor would make a later     *)
(* pass fold the transfers above it once more.                             *)
(***************************************************************************)
CheckpointsAdvance ==
    /\ \A t \in Tokens : /\ stat'[t].inChk >= stat[t].inChk
                        /\ stat'[t].outChk >= stat[t].outChk
    /\ \A b \in Basics : bstat'[b].chk >= bstat[b].chk

CheckpointsNeverRegress == [][CheckpointsAdvance]_vars

(***************************************************************************)
(* computeTokenStatistics implements a checkpointed in counter: a saved    *)
(* row off the home chain moves LastInCheckId forward to the high-water id *)
(* its pass read and adds to InCounter exactly the in transfers in between *)
(* or, when CalculateInTokenStatistics failed, nothing; no other step      *)
(* changes the in side of a row.                                           *)
(***************************************************************************)
InCounterSpec == InCounter!Spec

=============================================================================
