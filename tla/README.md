# Formal models of the poly-bridge statistics engine and migration tool

This directory holds TLA+ models of the poly-bridge statistics engine in
`src/crosschainstats/crosschainstats.go` and of the database migration tool in
`src/unnamed/part_003`. Each model comes with TLC runs, and one model also has
TLAPS proofs. `PROJECT.json` lists:

- the components and how far each is modelled;
- the runs;
- the mutants that each checked property must catch;
- the map from every TLA+ definition to the source lines it translates;
- the findings, the hazards and the theorems.

## The system

`StartCrossChainStats` builds one `Stats` value. `Start` (lines 90-101) launches
one goroutine per pass. Each goroutine calls `run` (73-88), which fires its pass
on its own ticker forever. The passes share the bridge database and nothing else.

| pass | lines | reads | writes | module |
|---|---|---|---|---|
| computeStats / computeTokenBasicStats | 109-161 | token_basics, src_transfers | token_basics totals, with the StatsUpdateTime checkpoint | TokenStatistics |
| computeTokensStats | 163-184 | tokens, chain RPC balances | tokens.AvailableAmount | not modelled |
| computeTokenStatistics | 186-308 | dst/src_transfers, tokens | token_statistics, with LastIn/OutCheckId | TokenStatistics |
| computeChainStatistics | 310-412 | dst/src/poly transactions, chains | chain_statistics In/Out, with checkpoints | ChainStatistics |
| computeChainStatisticAssets | 414-448 | address counts | chain_statistics.Addresses, as a whole-row save | ChainStatistics |
| computeAssetStatistics | 450-521 | src_transfers, token_basics | asset_statistics Txnum/Amount, with LastCheckId | AssetStatistics |
| computeAssetStatisticAdress | 522-535 | address counts | asset_statistics.Addressnum | not modelled |
| startCheckAssetAlarm / sendDing (mainnet) | 550-828 | RPC balances and supplies, the O3 HTTP API | a DingTalk alert | ReserveReconciler |

Every counting pass follows the same pattern:

1. It reads a high-water id of a growing ledger.
2. It folds the rows in (checkpoint, high-water] into a stored counter.
3. It stores the high-water id as the new checkpoint.

`CheckpointCounter` states this pattern as an abstract specification. The
asset pass is proved to implement it (see below).

The passes interact in three ways:

- They read ledgers that keep growing while they run.
- They share the ids of those ledgers.
- Two pairs of passes write the same rows:
  - chain statistics with chain addresses;
  - asset statistics with asset addresses.

The migration tool (`part_003`) is a separate program. It runs one
`MERGE_STEP` per invocation. The steps copy tables from the old bridge and
explorer databases into the new one, and `verifyTables` then means to
spot-check the copy (as written it panics on the first row it samples).

The database access layer (`bridgedao`) is not part of this repository. The
queries it runs are modelled from their use and from the specification. Those
definitions are marked `spec_modelled` in the map, and so are the environment
actions (inserts and registrations by other programs).

## Modules

Every module declares its parameters as `CONSTANTS`. Each has a `TypeOK`, an
`Init`, one action per step of the code, `Next` and `Spec`. An `MC_` module gives
TLC the model values. A mutant is an operator defined just before the
definition it mutates, and its comment names the property it breaks.

### Scheduler (Start, run, Stop: lines 73-107)

- State: `main` (the caller), `cancelled` (the context), `wg` (the WaitGroup counter), and `g[p]` (where the goroutine of pass `p` is).
- Actions: `Start`, `Register` (wg.Add and the ticker), `Tick`, `Finish`, `DoneCase`, `Loop`, `Stop` and `WaitReturns`.
- The `break` at line 84 leaves only the `select`, so `DoneCase` is followed by `Loop` back to the select. `wg.Done` (the defer) is never reached.
- `Looping` is the set of locations between a goroutine's `wg.Add(1)` and its `wg.Done`. `WaitAfterLoops` says that `wg.Wait` returns only when no goroutine is at one of them.
- Fairness: every goroutine step is weakly fair, because the Go scheduler runs a runnable goroutine and the ticker keeps firing. `WaitReturns` is weakly fair too. The caller's `Start` and `Stop` are not fair.

### AssetStatistics (computeAssetStatistics, lines 450-521)

State:

- `ledger`: the src_transfers rows; a row's id is its index. Each row is a basic name and a raw amount.
- `committed`: the ids whose insert is visible.
- `catalog`: the token basics with Standard = 0.
- `stat`: the asset_statistics table. Each row has `present`, `txnum`, `amount` in hundredths, and `chk` (LastCheckId).
- `pc`, `nowId`, `todo`: the pass in progress.

Environment actions:

- `InsertTransfer` allocates an id.
- `CommitTransfer` makes an id visible. When `InOrderCommit` is FALSE, a lower id may commit after a higher one, as InnoDB auto-increment allows.
- `AddTokenBasic` registers a basic.

Pass actions:

- `StartPass` models lines 452-486. It reads `GetNewSrcTransfer` (the highest visible id, `HighWater`). It then collects the existing rows and a zero row for every cataloged basic without one. An empty ledger makes the pass return, so the action is disabled.
- `FoldRow(n)` models lines 492-515 for one row when the query and the save succeed. It folds `Delta(n, chk, nowId)` into Txnum and Amount, sets `chk` to `nowId` and saves the row.
- `FoldRowQueryFails(n)` models lines 494-496: the error is only logged, yet the row is saved with its checkpoint advanced.
- `SaveFails(n)` models lines 512-515: the pass returns with the remaining rows unsaved.
- `EndPass` ends the pass.

Both failure actions are enabled only when `Faults` is TRUE. A failed read at
the start of the pass returns before anything is written, which is a stutter
step.

Data abstractions:

- A CalculateAssets group is one basic.
- The amount sum is the cardinality of a set of unit pairs (`AmountSum`), so the finite-set theorems apply to it.
- `Hundredths` models lines 497-505: `real_amount * 100` followed by `BigInt()`, which truncates.
- USD and BTC amounts are left out, because no property tells them apart.

Fairness: the next start and every successful step of a started pass are
weakly fair, because `run` fires the pass forever (see `PassesRecur`). Failures
are allowed but never forced. Ingestion has no fairness.

### CheckpointCounter: what the asset pass promises

`CheckpointCounter` is the abstract specification of the asset pass. It
keeps a ledger of entries, the set of visible ids, and one row per name:
`present`, a count `cnt` and a checkpoint `chk`. It has five steps:

- `Grow`: an entry is appended.
- `Commit`: an entry becomes visible.
- `Publish`: an entry is appended and is visible at once. This is an insert
  that commits in id order, as the token model's `dst_transfers` inserts do.
- `Fold(n, hi)`: `hi` is a visible id at or above the row's checkpoint. The
  row adds the visible entries of `n` in `(chk, hi]` to its count and moves
  its checkpoint to `hi`.
- `Skip(n, hi)`: the same move without the count. It is enabled only when
  `Lossy` is TRUE.

Nothing in it decreases a count or moves a checkpoint back.

`AssetStatistics` instantiates it as `Counter`, with this mapping:

- `Entry` is `Transfer`.
- `Lossy` is `Faults`.
- `row` is `CounterRow`, which keeps each asset_statistics row's `present`, Txnum and LastCheckId.

`CounterSpec == Counter!Spec` is the refinement property. Under this mapping:

- `FoldRow(n)` is `Fold(n, nowId)`.
- `FoldRowQueryFails(n)` is `Skip(n, nowId)`.
- An insert is `Grow`, and a commit is `Commit`.
- Every other step is a stutter.

`TokenStatistics` instantiates it a second time, as `InCounter`, for the in
side of the token pass:

- `Names` are the tokens off the home chain (a home token's row keeps
  InCounter 0, line 268).
- `ledger` is `InLedger`, the `dst` ledger as entries `[name |-> t]`, and
  every id of it is visible (`committed` is `1..Len(dst)`).
- `row` is `InRow`: each row's `present`, InCounter and LastInCheckId.
- A `dst` insert is `Publish`. `FoldToken(t, TRUE, _)` is `Fold(t, nowIn)`,
  and `FoldToken(t, FALSE, _)` is `Skip(t, nowIn)`: the failed query is only
  logged and LastInCheckId still moves to `nowInId` (line 300).

`InCounterSpec == InCounter!Spec` is that refinement property.

### TokenStatistics (lines 109-161 and 186-308)

The token-statistics pass:

- State:
  - `dst` and `src`, the two transfer ledgers, each a sequence of tokens;
  - `catalog`;
  - `stat[t]`, a row with InCounter, OutCounter, LastInCheckId and LastOutCheckId;
  - the pass variables.
- `StartPass` reads both high-water marks.
- `SkipToken` models the guard at line 251.
- `FoldToken(t, inOk, outOk)` folds the in and out deltas. A failed query is only logged, and both checkpoints still advance (lines 300-301).
- `SaveFails` and `EndPass` complete the pass.
- The constant `GuardAsWritten` chooses between two versions of line 251:
  - TRUE: the line as written, `if err == nil { continue }`;
  - FALSE: the guard that the line's log message describes.
- Out statistics are queried with the in cursors (line 276). The model keeps this as written.
- The nil-pointer panic at line 255 is not an action. It happens only when a lookup fails under the guard as written, and the run with that guard has reliable lookups.

The token-basic pass (`BasicStart`, `BasicSkip`, `BasicFold`, `BasicEnd`):

- It folds src transfers into `bstat[b].total`.
- Its checkpoint is `StatsUpdateTime`, a timestamp `TimeOf(i)` of the last transfer.

The two passes are composed in `Next`. Each side leaves the other's variables
unchanged, so that the fairness of one never forces a step of the other.

### ChainStatistics (lines 310-448)

- State:
  - the three transaction ledgers;
  - `catalog` and `addr` (the address counts);
  - `stat[c]`, a chain_statistics row;
  - for each pass, a control variable and an in-memory buffer of the rows it read (`cpc`/`cbuf` and `apc`/`abuf`).
- The chain pass:
  - `ChainCompute` reads the checkpoint from one reference row (`GetNewChainSta`) and the high-water marks, then folds every row in memory.
  - `ChainSave` saves the rows whole.
- The address pass:
  - `AddrRead` reads the rows and sets Addresses. The poly row takes the sum of the ordinary rows.
  - `AddrSave` saves the rows whole.
- `Overlap` says whether the two passes may interleave (their goroutines run independently) or run one after the other.
- `Sound(r)` says what a consistent table is: every ordinary row carries the reference row's checkpoints and counts at most its ids up to them, and the poly row likewise with In = Out. `ChainFoldSound` says that a chain pass that reads a sound table computes sound rows, whatever fails and however the passes interleave. A double count therefore needs rows that do not share the reference checkpoints, which only the address pass's stale whole-row save produces.
- The spec has no fairness, because only safety is checked.

### ReserveReconciler (lines 550-828)

- A token is a `<<basic, chain>>` pair. The chain balances `bal` and supplies `sup` are chosen in `Init` and fixed for the behaviour.
- `StartCheck`, `NextBasic`, `SkipToken` (notToken and Property # 1), `CheckToken(e, bo, so)` and `EndBasic(o3ok)` follow the loop of `startCheckAssetAlarm`:
  - A read outcome `bo` or `so` is `"ok"` or the error text of the last retry.
  - A failed read counts as 0 and records its text as Reason (lines 594-607).
  - `EffSupply` applies the supply override and zeroes the supply on the home chain (608-613).
  - For WBTC, a successful O3 answer adds its balance to the difference (617-623, 728-770).
- `O3Panic`: a failed `http.Get` returns a nil response, and the deferred `Body.Close` panics. The model takes this as a final crashed state.
- `Send(posted)` models `sendDing`. It flags the non-extra basics whose Difference is worth more than the threshold, unless their Reason is exactly "all node is not working". A failed post is only logged.
- Prices are whole dollars per unit, so the rounding of `StringFixed(0)` does not arise.

### Migration (part_003, lines 316-421 and 468-710)

- Rows are model values. Every table holds the same rows with the same timestamps `time[k]`.
- A target table `dst[t]` is a set of rows, because Save is an upsert by primary key.
- The step dispatch is `StepSeq`: the `MERGE_STEP`s that the operator runs, in order.
- `CopyTable` models `migrateBridgeBasicTables`, which loads and saves each table whole.
- `ExplorerSrcPage`, `ExplorerPolyPage`, `ExplorerDstPage` and `BridgePage` are the page loops (lines 477-599 and 607-615):
  - Each page is `Limit(PageSize).Offset(PageSize*count)` of an order `s` that MySQL may choose afresh for every query among the orders sorted by timestamp (`Ascending`).
  - The field conversions of the explorer loops are abstracted away, because they do not touch the primary key.
- `EndTable` ends a loop on an empty page and logs `countTables`. That call counts the source table twice (line 472).
- `Verify(d)` models `verifyTables`. It looks up the latest `VerifyLimit` rows of each bridge table, in a `time desc` order `d[t]`. A missing row fails `First` and panics. A present row reaches `assert(reflect.DeepEqual(a, b))` with `a` a `*T` and `b` a `T`, which is never true (`DeepEqualPtrVal`), and panics too. Verification can therefore only pass when it samples no row.
- `PageFails` is any query or save error, which makes the tool panic.
- Fairness: the tool is one sequential goroutine and the operator runs every step, so `Next` is weakly fair. The injected failures (`PageFails`) are excluded from the fairness; the panic of `verifyTables` is the code's own next step and is not.

## Runs

Every property of a passing run has a mutant in `PROJECT.json`: a plausible bug
in the mapped code that makes TLC find the property violated.

| run | cfg | checks | expect | shows |
|---|---|---|---|---|
| asset_clean | AssetStatistics_clean | CountExact, CatchUp | pass | With reliable queries and in-order visibility, each visible transfer is counted exactly once, and every cataloged basic catches up with the ledger. |
| asset_faults | AssetStatistics_faults | NoOverCount, CounterSpec | pass | With query and save failures and out-of-order visibility, no transfer is counted twice; a failure can only lose counts; and every step of the pass is a fold, a lossy skip or a stutter of the abstract checkpointed counter. |
| sched_recur | Scheduler_recur | PassesRecur, WaitAfterLoops | pass | While the engine is up, every pass runs again and again. This justifies the fairness the pass modules assume. Stop's Wait returns only when no goroutine is inside its loop. |
| sched_stop | Scheduler_stop | StopReturns | violation | Stop never returns (finding). |
| token_faults | TokenStatistics_faults | InNoOverCount, BasicNoOverCount, CheckpointsNeverRegress, InCounterSpec | pass | With failing lookups, queries and saves, neither token_statistics nor the basic totals count a transfer twice; no step moves LastInCheckId, LastOutCheckId or StatsUpdateTime back; and the in side of the pass is a fold, a lossy skip or a stutter of the checkpointed counter. |
| token_skip | TokenStatistics_skip | TokenRowsCreated | violation | Line 251 as written skips every token (finding). |
| chain_serial | ChainStatistics_serial | ChainNoOverCount, ChainFoldSound | pass | With failures, but with the two passes not overlapping, no transaction is counted twice; and every chain pass that reads a sound table computes sound rows. |
| chain_overlap | ChainStatistics_overlap | ChainNoOverCount | violation | The overlapping whole-row saves double-count (finding). |
| reserve_faults | ReserveReconciler_faults | ExplainedAlarm | pass | Every alert is for a really unbalanced asset, or the asset's detail carries the text of a failed read. |
| reserve_alarm | ReserveReconciler_alarm | BalancedNoAlert | violation | A failed read raises an alert on a balanced asset (finding). |
| migrate_copy | Migration_copy | LossOnlyAtTies, Terminates | pass | Every copy loop ends, and a loop loses only rows whose timestamp is shared with another row. |
| migrate_report | Migration_report | LossReported | violation | A table that lost a row is logged with equal sizes (finding). |

### Bounds, and why they are enough

- **AssetStatistics**: two names and at most three transfers. That is enough for:
  - a pass that creates a row;
  - a pass that folds on top of an existing checkpoint;
  - a row of the other name in the same pass;
  - a commit that lands below an advanced checkpoint.

  The faults run uses symmetry on the names, which its property respects.
- **Scheduler**: three passes, so that while one goroutine is busy the others can still register, tick or see the cancellation. The runs use no symmetry, because they check liveness.
- **TokenStatistics**: two tokens of one basic, one of them on the home chain, with ledgers of at most two rows each. A token row can then be folded, failed, and folded again with a transfer arriving in between.
- **ChainStatistics**: the poly chain, the reference chain and one more chain, with at most two transactions per ledger. Two chain passes can then bracket an address pass.
- **ReserveReconciler**: two basics over three chains. b1 has a home token, a minted token and an unlisted token, and is the O3 basic. b2 is extra, with a misprecise token and an overridden one. Values are {0, 1}, with two error texts. Every branch of the loop is reached, and a difference of 2 against a threshold of 1 can arise both truly and from a failed read.
- **Migration**: three rows over three timestamps, in pages of two, with the latest row verified. A tie can straddle the page boundary while a row can still be alone at its timestamp. The step list runs every step kind, and the bridge step copies two tables, so the next-table branch is taken.

## Findings

- **sched_stop** (a code bug, line 84): `break` in the Done case leaves only the `select`. No goroutine reaches `wg.Done`, so `Stop` blocks in `wg.Wait` forever.
- **token_skip** (a code bug, line 251): `if err == nil { continue }` skips every token that resolves, so no token_statistics row is ever written. When a lookup does fail, the nil token panics at line 255.
- **chain_overlap** (a code bug, line 441): the address pass saves the whole rows it read before the chain pass saved. This reverts the reference row's checkpoint, and the next chain pass counts again transactions that other rows already hold.
- **reserve_alarm** (a gap in the spec, line 596): a balance read that still fails after its retries degrades to 0, so the whole supply counts as a flow. Only the exact Reason text "all node is not working" suppresses the alert. The spec asks both that a failed figure degrade to zero and that a balanced asset raise no alert.
- **migrate_report** (a code bug, part_003 line 472): `countTables` counts the source table twice, so its comparison is always equal. A row lost at a tie between Limit/Offset pages is therefore not reported in the "Compare table size" log. `verifyTables` is no substitute: its `assert(reflect.DeepEqual(a, b))` compares a `*T` with a `T` (lines 685, 696, 707) and panics on the first row it samples, whether the copy is complete or not.

TLC also finds the following, but no run keeps them; they are recorded as
hazards in `PROJECT.json`:

- `CountExact` fails under `FoldRowQueryFails`.
- `CountExact` fails with out-of-order commits.
- The stored Amount is not the exact total: `Hundredths` truncates with BigInt (line 505), so two 5-unit transfers at precision 3 store 0 hundredths instead of 1.
- The token pass's out count is taken over the in cursor's range (line 282), so OutCounter is not the count of out transfers up to LastOutCheckId.
- The poly chain row's checkpoint moves back, even with the two passes serialized. A poly row created while its poly query fails takes the dst high-water mark (line 370). The next successful query then sets it to `polyCheckId` (line 401), an id of another table that may be smaller.
- `wg.Add(1)` runs inside the goroutine (line 74). A Stop that comes before every goroutine has registered returns at once, and the goroutines register afterwards.

## Proofs (AssetStatistics_proofs)

`TypeCorrect` states `Spec => []TypeOK` for all constants. It rests on two lemmas:

- `HighWaterIsMax`: a nonempty set of visible ids has a greatest element. It is proved by well-founded induction on the distance to `Len(ledger)`.
- `HundredthsType`: every folded amount is a natural number. It follows from finiteness of the unit-pair set.

`CountExact` (exactly-once counting) is checked by the asset_clean run only.
It needs reliable queries and in-order visibility, neither of which the code
guarantees (the query error at line 494 is only logged, and transfers are
inserted concurrently), so it is not stated as a theorem. What holds with
failures and any commit order is proved below.

### The refinement, and NoOverCount for all constants

The refinement is proved in `AssetStatistics_proofs`. Faults and
out-of-order commits are both allowed.

`Refinement` states `Spec => CounterSpec`. It rests on the invariant `RInv`,
which is `TypeOK` and two more facts. They are the two guards of the
counter's `Fold` and `Skip`, which the code never checks:

- Every stored LastCheckId is a visible id or 0.
- During a pass, `nowId` is a visible id, and no row still to fold has a
  checkpoint above it.

`RInv` holds at every step:

- `StartPass` sets `nowId` to the maximum visible id (`HighWaterIsMax`).
- A commit only adds visible ids.
- The two saves put the checkpoint at `nowId` and take the row out of
  `todo` (`SaveKeepsRInv`).

`RefinementStep` then proves, one case per action, that every step maps to
a counter step or a stutter:

- `BaseIsCurrent`: the row a fold starts from is the counter's `Current` row.
- `SaveIsRowUpdate`: a save of row n is the counter's update of row n.
- `CardinalitySame`: the instance's `Cardinality` is the one of FiniteSets.

`CheckpointCounter` proves `CounterNoOverCount` (`Spec => []NoOverCount`)
on the abstract counter itself. Its inductive invariant is `TypeOK` and
`NoOverCount`. `Fold` adds exactly its delta, and the delta of (0, hi] is
that of (0, chk] plus that of (chk, hi] (`DeltaSplit`). `Skip` and `Commit`
only enlarge the set being counted (`DeltaMono`, `DeltaGrows`).

`NoOverCountHolds` (`Spec => []NoOverCount` for the asset pass) follows from
`Refinement` and `CounterNoOverCount` by temporal logic.

## Proofs (ChainStatistics_proofs)

`ChainStatistics_proofs` proves two theorems for every set of chains and
every bound, with or without `Overlap` and `Faults`:

- `TypeCorrect`: `Spec => []TypeOK`.
- `ChainFoldSoundHolds`: `Spec => ChainFoldSound`, the action property that
  the `chain_serial` run checks: a `ChainCompute` step that reads a sound
  table computes a sound buffer.

How it is proved:

- The central fact is `CutSplit`: the ids in (0, hi] are those in (0, lo] plus those in (lo, hi], disjointly.
- `RowsOfBound` and `RowsOfPoly`: the rows a pass starts from count at most their ids up to the reference row's checkpoints, since a stored row shares them and a new row counts nothing.
- `RangeFold` and `PolyFold` apply `CutSplit` to the fold's delta queries.
- `ComputeSound` then shows that `Folded` maps a sound table to a sound one; the theorem picks the query outcomes of the step and applies it.

`ChainNoOverCount` itself is not proved. It holds only when the two passes do
not overlap, and their goroutines (lines 90-101) are not synchronised: the
`chain_overlap` run shows the double count. The theorem isolates where it
comes from: the fold is correct from any sound table, so a double count needs
rows that no longer share the reference checkpoints, which only the address
pass's save of rows it read earlier (line 441) produces.

`IdRange` is the model's name for the id range that
`CalculateIn/OutChainStatistics` count. It avoids a clash with
`Functions!Range`, which the proof modules bring in.

## Proofs (LedgerRanges)

`LedgerRanges` holds the lemmas on id ranges that the proof modules share:
`Cut(T, lo, hi)` is the set of ids of a finite set `T` in `(lo, hi]`;
`CutSplit` splits `(0, hi]` at `lo` disjointly so that the counts add up, and
`CutSub`, `CutFold` and `CutGrows` bound a cut and show it survives a growing
ledger. The same module proves that
a finite set of naturals has a greatest element (from the well-founded
minimum of `WellFoundedInduction`), which the token proofs use for `LastOf`.

## Proofs (TokenStatistics_proofs)

For every set of tokens and basics, every bound, with or without `Faults`:

- `TypeCorrect`: `Spec => []TypeOK`.
- `InNoOverCountHolds` and `BasicNoOverCountHolds`: the two invariants of
  `token_faults`. `InNoOverCount` is not inductive alone: the fold adds the
  delta `(chk, nowIn]` to a count of `(0, chk]`, which is sound only if the
  pass's `nowIn` is at most `Len(dst)` and no stored LastInCheckId is above
  it. `InInv` adds that as `InChkBound`; `BasicInv` adds, for the basic pass,
  that every `StatsUpdateTime` checkpoint is at most `Len(src)`.
- `CheckpointsNeverRegressHolds`: the action property `[][CheckpointsAdvance]_vars`.
  It rests on `OutChkBound` (every LastOutCheckId is at most the `nowOut` the
  pass read) and `BasicChkBound` (every basic checkpoint is at most `LastOf(b)`, the last
  src transfer of the basic), both inductive, from which every
  assignment at lines 300-301 and at the basic save moves a checkpoint forward
  or leaves it. `LastOf` is a `CHOOSE` of the maximum; the proof rewrites it
  to a constant-level `Top(S)` and shows it only grows as `src` and the
  catalog grow (`LastOfGrows`).
- `InRefinement`: `Spec => InCounterSpec`. The initial rows are fresh rows;
  with `RInv` (the in invariants plus `NowInRead`: a running pass read a
  non-empty `dst`, so `nowIn >= 1` and `Fold(t, nowIn)` names a visible id),
  every step is `Publish`, `Fold`, `Skip` or a stutter of `InCounter`. The
  proof has one lemma per kind of step (`InLedgerAppend`, `InFoldStep`,
  `InRowUpdate`) and combines them in `InRefinementStep`.

## Proofs (Migration_proofs)

- `TypeCorrect`: `Spec => []TypeOK`.
- `LossOnlyAtTiesHolds`: `Spec => []LossOnlyAtTies`, for every set of rows,
  timestamps, page size and step list. The invariant `MInv` adds:
  - `ReportedRows`: a table whose loop ended holds every row whose timestamp
    is unique;
  - `RunCovered`: while a page loop runs, every unique-time row whose rank
    `Pos(k)` (its place in every time-sorted order) is at most
    `count * PageSize` is already in the target.

  `FetchCovers` is the heart: whatever ascending order MySQL picks for a page,
  a row of unique timestamp sits at its rank, so page `count` contains every
  unique row of rank in `(count*P, (count+1)*P]`. `EndKeeps` shows that an
  empty page comes only after `count * PageSize >= |Keys|`, so at the end
  every unique row is covered. Tied rows can swap across a page boundary, and
  about them the theorem rightly says nothing.

## Proofs (Scheduler_proofs)

`WaitAfterLoopsHolds`: `Spec => WaitAfterLoops`, for every finite non-empty
set of passes.

The inductive invariant `SchedInv` has these parts:

- `TypeOK`;
- before `Start`, no goroutine exists;
- `wg` equals the number of goroutines in `Looping` (`Registered`).

How it is preserved:

- `Register` adds a goroutine that was outside the set (`FS_AddElement`).
- Every other goroutine step keeps the goroutine inside or outside the set.
- `WaitReturns` needs `wg = 0`, so `Registered` is empty.

The liveness properties of the same module stay with TLC.

## What only TLC checks

- Liveness: `CatchUp`, `PassesRecur`, `StopReturns`, `TokenRowsCreated` and `Terminates`. TLAPS does not reason about fairness or ENABLED.
- `CountExact` and `ChainNoOverCount`. Each holds only under a condition the code does not guarantee (reliable queries and in-order commits; passes that do not overlap), so each is checked on the run that fixes that condition, and the run that drops it shows it fail or records it as a hazard.
- `ExplainedAlarm`. The reconciler sums balances with `MapThenSumSet`, a fold defined by recursion over subsets. Relating the sum to its elements (that a wrong sum needs a wrong or failed read) is induction over that recursive definition, which the installed provers cannot instantiate. It holds on the instance above.
- The violation runs: each is a counterexample, not a theorem.

## Not modelled, and why

- **computeTokensStats** (163-184) writes each token's RPC balance independently, with no checkpoint and no shared state to get wrong.
- **computeAssetStatisticAdress** (522-535) overwrites Addressnum with a fresh count. Its lost-update interaction with the asset pass follows the chain pair that ChainStatistics shows.
- **The panic at line 255** of the token pass is left out, as explained above.
- **The earlier engine** (`part_002`) is superseded by crosschainstats.go.
- **The HTTP controllers, the router and the bot** (`part_005`, `explorer/controller.go`). They are request/response formatting. One hazard is recorded: the bot's unlocked `ALARMS` map, which is shared by the ticker and the HTTP handler.
- **The health monitor and the swap DAO** are RPC polling and single queries, with no state of their own.
- **Parts of the migration tool**: config loading, `createTables`, `migrateExplorerBasicTables` (column updates on rows that already exist) and the unused `startCheckAsset`.
