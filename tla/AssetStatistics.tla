-------------------------- MODULE AssetStatistics --------------------------
(***************************************************************************)
(* The asset-statistics pass of the statistics engine,                     *)
(* Stats.computeAssetStatistics (crosschainstats.go), run forever on its   *)
(* own ticker, against a src_transfers ledger that keeps growing while it  *)
(* runs and a token_basics catalog that gains entries.                     *)
(*                                                                         *)
(* One row of asset_statistics per token-basic name holds a transaction    *)
(* count (Txnum), an amount in hundredths of a token (Amount) and the      *)
(* checkpoint LastCheckId: the id of the last src_transfer folded in.  A   *)
(* pass reads the ledger's high-water mark nowId, then for every row folds *)
(* the transfers with id in (LastCheckId, nowId] into it, advances         *)
(* LastCheckId to nowId and saves the row.                                 *)
(*                                                                         *)
(* Data is abstracted: a transfer is its basic name and a raw amount; all  *)
(* tokens of a basic share one decimal precision, so one CalculateAssets   *)
(* group per name.                                                         *)
(***************************************************************************)
EXTENDS Naturals, Sequences, FiniteSets

CONSTANTS
    Names,          \* token-basic names (model values)
    MaxId,          \* bound on the number of src_transfers ever inserted
    MaxAmount,      \* raw amounts of a transfer range over 1..MaxAmount
    Precision,      \* decimal precision of the tokens
    Faults,         \* TRUE: the CalculateAssets query and the save may fail
    InOrderCommit   \* TRUE: transfers become visible in id order

ASSUME NamesAssumption == IsFiniteSet(Names) /\ Names # {}
ASSUME MaxIdAssumption == MaxId \in Nat
ASSUME MaxAmountAssumption == MaxAmount \in Nat \ {0}
ASSUME PrecisionAssumption == Precision \in Nat /\ 10^Precision \in Nat \ {0}
ASSUME FlagsAssumption == Faults \in BOOLEAN /\ InOrderCommit \in BOOLEAN

VARIABLES
    ledger,     \* src_transfers rows inserted so far; a row's id is its index
    committed,  \* ids of the rows whose insert has committed (visible)
    catalog,    \* names of the token basics with Standard = 0
    stat,       \* the asset_statistics table, one slot per name
    pc,         \* "idle" between passes, "fold" inside one
    nowId,      \* the high-water mark read at the start of the pass
    todo        \* rows of the current pass not yet folded and saved

vars == <<ledger, committed, catalog, stat, pc, nowId, todo>>

Ids == 1..MaxId
Transfer == [name : Names, amt : 1..MaxAmount]
Row == [present : BOOLEAN, txnum : Nat, amount : Nat, chk : Nat]

\* A row created in memory for a basic that has none yet (lines 476-483).
ZeroRow == [present |-> TRUE, txnum |-> 0, amount |-> 0, chk |-> 0]

\* GetNewSrcTransfer: the visible transfer with the highest id.
HighWater == CHOOSE i \in committed : \A j \in committed : j <= i

\* The visible transfers of name n with id in (lo, hi].
Delta(n, lo, hi) ==
    {i \in committed : ledger[i].name = n /\ lo < i /\ i <= hi}

(***************************************************************************)
(* The SQL sum of the raw amounts of a set S of transfers, written as the  *)
(* number of unit pairs <<id, k>> with k at most the transfer's amount.    *)
(***************************************************************************)
AmountSum(S) == Cardinality({p \in S \X (1..MaxAmount) : p[2] <= ledger[p[1]].amt})

(***************************************************************************)
(* real_amount * 100 with real_amount = sum / 10^Precision, truncated by   *)
(* BigInt() when added to the stored amount (lines 498-505).               *)
(***************************************************************************)
Hundredths(S) == (AmountSum(S) * 100) \div (10^Precision)

TypeOK ==
    /\ ledger \in Seq(Transfer)
    /\ Len(ledger) <= MaxId
    /\ committed \subseteq 1..Len(ledger)
    /\ catalog \subseteq Names
    /\ stat \in [Names -> Row]
    /\ pc \in {"idle", "fold"}
    /\ nowId \in Nat
    /\ todo \subseteq Names

Init ==
    /\ ledger = <<>>
    /\ committed = {}
    /\ catalog = {}
    /\ stat = [n \in Names |-> [ZeroRow EXCEPT !.present = FALSE]]
    /\ pc = "idle"
    /\ nowId = 0
    /\ todo = {}

-----------------------------------------------------------------------------
(* Environment: ingestion of transfers and registration of token basics.  *)

\* A src_transfer row is inserted; its id is allocated now.
InsertTransfer(n, a) ==
    /\ Len(ledger) < MaxId
    /\ ledger' = Append(ledger, [name |-> n, amt |-> a])
    /\ UNCHANGED <<committed, catalog, stat, pc, nowId, todo>>

\* The insert of transfer i commits; with concurrent inserters a lower id
\* may commit after a higher one.
CommitTransfer(i) ==
    /\ i \in 1..Len(ledger) \ committed
    /\ InOrderCommit => 1..(i - 1) \subseteq committed
    /\ committed' = committed \cup {i}
    /\ UNCHANGED <<ledger, catalog, stat, pc, nowId, todo>>

\* A token basic with Standard = 0 is registered.
AddTokenBasic(n) ==
    /\ n \notin catalog
    /\ catalog' = catalog \cup {n}
    /\ UNCHANGED <<ledger, committed, stat, pc, nowId, todo>>

-----------------------------------------------------------------------------
(* computeAssetStatistics                                                  *)

\* Mutant (checks CatchUp): no new row for a cataloged basic without one.
StartPassNoNewRows ==
    /\ pc = "idle"
    /\ committed # {}
    /\ nowId' = HighWater
    /\ todo' = {n \in Names : stat[n].present}
    /\ pc' = "fold"
    /\ UNCHANGED <<ledger, committed, catalog, stat>>

(***************************************************************************)
(* Lines 452-486: read nowId (an empty ledger makes GetNewSrcTransfer      *)
(* fail and the pass return), then the catalog and the existing rows; the  *)
(* pass covers every existing row and a new zero row per catalog name      *)
(* without one.                                                            *)
(***************************************************************************)
StartPass ==
    /\ pc = "idle"
    /\ committed # {}
    /\ nowId' = HighWater
    /\ todo' = catalog \cup {n \in Names : stat[n].present}
    /\ pc' = "fold"
    /\ UNCHANGED <<ledger, committed, catalog, stat>>

Base(n) == IF stat[n].present THEN stat[n] ELSE ZeroRow

\* Mutant (checks CountExact): the range is closed on the left.
FoldRowClosedRange(n) ==
    LET d == Delta(n, Base(n).chk - 1, nowId) IN
    /\ pc = "fold"
    /\ n \in todo
    /\ stat' = [stat EXCEPT ![n] = [present |-> TRUE,
                                   txnum |-> Base(n).txnum + Cardinality(d),
                                   amount |-> Base(n).amount + Hundredths(d),
                                   chk |-> nowId]]
    /\ todo' = todo \ {n}
    /\ UNCHANGED <<ledger, committed, catalog, pc, nowId>>

\* Mutant (checks NoOverCount): the checkpoint is not advanced.
FoldRowNoAdvance(n) ==
    LET d == Delta(n, Base(n).chk, nowId) IN
    /\ pc = "fold"
    /\ n \in todo
    /\ stat' = [stat EXCEPT ![n] = [present |-> TRUE,
                                   txnum |-> Base(n).txnum + Cardinality(d),
                                   amount |-> Base(n).amount + Hundredths(d),
                                   chk |-> Base(n).chk]]
    /\ todo' = todo \ {n}
    /\ UNCHANGED <<ledger, committed, catalog, pc, nowId>>

(***************************************************************************)
(* Lines 492-515 for one row, the query and the save succeeding: fold the  *)
(* delta (LastCheckId, nowId], set LastCheckId to nowId, save the row.     *)
(***************************************************************************)
FoldRow(n) ==
    LET d == Delta(n, Base(n).chk, nowId) IN
    /\ pc = "fold"
    /\ n \in todo
    /\ stat' = [stat EXCEPT ![n] = [present |-> TRUE,
                                   txnum |-> Base(n).txnum + Cardinality(d),
                                   amount |-> Base(n).amount + Hundredths(d),
                                   chk |-> nowId]]
    /\ todo' = todo \ {n}
    /\ UNCHANGED <<ledger, committed, catalog, pc, nowId>>

\* Mutant (checks CounterSpec): the failure path saves a fresh count.
FoldRowQueryFailsReset(n) ==
    /\ Faults
    /\ pc = "fold"
    /\ n \in todo
    /\ stat' = [stat EXCEPT ![n] = [present |-> TRUE,
                                   txnum |-> 0,
                                   amount |-> Base(n).amount,
                                   chk |-> nowId]]
    /\ todo' = todo \ {n}
    /\ UNCHANGED <<ledger, committed, catalog, pc, nowId>>

(***************************************************************************)
(* Lines 493-496 and 511-512: CalculateAssets fails, the error is only     *)
(* logged, and the row is saved with LastCheckId advanced to nowId and no  *)
(* delta folded in.                                                        *)
(***************************************************************************)
FoldRowQueryFails(n) ==
    /\ Faults
    /\ pc = "fold"
    /\ n \in todo
    /\ stat' = [stat EXCEPT ![n] = [present |-> TRUE,
                                   txnum |-> Base(n).txnum,
                                   amount |-> Base(n).amount,
                                   chk |-> nowId]]
    /\ todo' = todo \ {n}
    /\ UNCHANGED <<ledger, committed, catalog, pc, nowId>>

\* Lines 512-515: SaveAssetStatistic fails; the pass returns and the rows
\* not yet saved keep their stored values.
SaveFails(n) ==
    /\ Faults
    /\ pc = "fold"
    /\ n \in todo
    /\ pc' = "idle"
    /\ todo' = {}
    /\ UNCHANGED <<ledger, committed, catalog, stat, nowId>>

\* Line 519: every row has been saved.
EndPass ==
    /\ pc = "fold"
    /\ todo = {}
    /\ pc' = "idle"
    /\ UNCHANGED <<ledger, committed, catalog, stat, nowId, todo>>

Environment ==
    \/ \E n \in Names, a \in 1..MaxAmount : InsertTransfer(n, a)
    \/ \E i \in Ids : CommitTransfer(i)
    \/ \E n \in Names : AddTokenBasic(n)

Pass ==
    \/ StartPass
    \/ \E n \in Names : FoldRow(n)
    \/ \E n \in Names : FoldRowQueryFails(n)
    \/ \E n \in Names : SaveFails(n)
    \/ EndPass

Next == Environment \/ Pass

(***************************************************************************)
(* The run loop fires the pass on its ticker forever, so every step of a   *)
(* started pass, and the start of the next one, is weakly fair.  Ingestion *)
(* is not.                                                                 *)
(***************************************************************************)
Fairness ==
    /\ WF_vars(StartPass)
    /\ WF_vars(\E n \in Names : FoldRow(n))
    /\ WF_vars(EndPass)

Spec == Init /\ [][Next]_vars /\ Fairness

(***************************************************************************)
(* The asset_statistics rows seen as checkpointed counters: Txnum is the   *)
(* count and LastCheckId the checkpoint.  A failed CalculateAssets is the  *)
(* counter's lossy step.                                                   *)
(***************************************************************************)
CounterRow ==
    [n \in Names |-> [present |-> stat[n].present, cnt |-> stat[n].txnum, chk |-> stat[n].chk]]

Counter == INSTANCE CheckpointCounter WITH Entry <- Transfer, Lossy <- Faults, row <- CounterRow

-----------------------------------------------------------------------------
(* Properties                                                              *)

(***************************************************************************)
(* Exactly-once counting: every stored Txnum equals the number of visible  *)
(* transfers of its name with id up to the row's LastCheckId.  It fails if *)
(* a delta is folded twice, a transfer is skipped behind the checkpoint,   *)
(* or the checkpoint moves without its delta (computeAssetStatistics).     *)
(***************************************************************************)
CountExact ==
    \A n \in Names : stat[n].present =>
        stat[n].txnum = Cardinality(Delta(n, 0, stat[n].chk))

(***************************************************************************)
(* Never over-counting: whatever fails and in whatever order transfers     *)
(* become visible, a Txnum never exceeds the number of visible transfers   *)
(* up to its checkpoint, i.e. no transfer is ever folded in twice.         *)
(***************************************************************************)
NoOverCount ==
    \A n \in Names : stat[n].present =>
        stat[n].txnum <= Cardinality(Delta(n, 0, stat[n].chk))

(***************************************************************************)
(* Exact amounts (the spec's "no rounding drift"): the stored Amount is    *)
(* the exact total of the raw amounts up to the checkpoint, in hundredths. *)
(***************************************************************************)
(* Catching up: once the ledger stops growing, every cataloged basic gets  *)
(* a row whose checkpoint reaches the high-water mark and stays there.     *)
(***************************************************************************)
CatchUp ==
    <>[](committed # {} =>
            \A n \in catalog : stat[n].present /\ stat[n].chk = HighWater)

(***************************************************************************)
(* computeAssetStatistics implements a checkpointed counter: every saved   *)
(* row moves its LastCheckId forward to an id the pass observed and adds   *)
(* to Txnum exactly the visible transfers in between, or, when the delta   *)
(* query failed, nothing; no other step changes a row.  It fails if a row  *)
(* is saved with a checkpoint that moved back, a count that shrank, or a   *)
(* delta other than the one its range holds.                               *)
(***************************************************************************)
CounterSpec == Counter!Spec

=============================================================================
