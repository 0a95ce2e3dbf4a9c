----------------------- MODULE AssetStatistics_proofs -----------------------
(***************************************************************************)
(* Machine-checked proofs about the asset-statistics pass.                 *)
(***************************************************************************)
EXTENDS AssetStatistics, FiniteSetTheorems, WellFoundedInduction, TLAPS

(***************************************************************************)
(* Every set of transfer ids is finite, hence so is every delta.          *)
(***************************************************************************)
LEMMA IdSetsFinite ==
    ASSUME TypeOK, NEW S \in SUBSET (1..Len(ledger))
    PROVE  IsFiniteSet(S)
<1>1. IsFiniteSet(1..Len(ledger))
    BY FS_Interval DEF TypeOK
<1>2. QED
    BY <1>1, FS_Subset

(***************************************************************************)
(* The stored amount increment of a set of transfers is a natural number. *)
(***************************************************************************)
LEMMA HundredthsType ==
    ASSUME TypeOK, NEW S \in SUBSET (1..Len(ledger))
    PROVE  Hundredths(S) \in Nat
<1> DEFINE U == {p \in S \X (1..MaxAmount) : p[2] <= ledger[p[1]].amt}
<1>1. IsFiniteSet(S \X (1..MaxAmount))
    <2>1. IsFiniteSet(S)
        BY IdSetsFinite
    <2>2. IsFiniteSet(1..MaxAmount)
        BY FS_Interval, MaxAmountAssumption
    <2>3. QED
        BY <2>1, <2>2, FS_Product
<1>2. IsFiniteSet(U)
    BY <1>1, FS_Subset
<1>3. AmountSum(S) \in Nat
    BY <1>2, FS_CardinalityType DEF AmountSum
<1>4. QED
    BY <1>3, PrecisionAssumption DEF Hundredths

(***************************************************************************)
(* A nonempty set of visible ids has a greatest element, so HighWater (the *)
(* answer of GetNewSrcTransfer) is the highest visible id.                 *)
(***************************************************************************)
LEMMA HighWaterIsMax ==
    ASSUME TypeOK, committed # {}
    PROVE  /\ HighWater \in committed
           /\ \A j \in committed : j <= HighWater
<1> DEFINE L == Len(ledger)
           T == {L - i : i \in committed}
<1>0. L \in Nat /\ committed \subseteq 1..L
    BY DEF TypeOK
<1>1. T \subseteq Nat /\ T # {}
    <2>1. \A i \in committed : L - i \in Nat
        BY <1>0
    <2>2. QED
        BY <2>1 DEF T
<1>2. \E x \in T : \A y \in T : ~(<<y, x>> \in OpToRel(<, Nat))
    BY <1>1, NatLessThanWellFounded, WFMin
<1>3. \E i \in committed : \A j \in committed : j <= i
    <2>1. PICK x \in T : \A y \in T : ~(<<y, x>> \in OpToRel(<, Nat))
        BY <1>2
    <2>2. PICK i \in committed : x = L - i
        BY <2>1
    <2>3. \A j \in committed : j <= i
        <3> TAKE j \in committed
        <3>1. L - j \in T /\ L - j \in Nat /\ x \in Nat
            BY <1>0, <1>1, <2>1 DEF T
        <3>2. ~(L - j < x)
            BY <2>1, <3>1 DEF OpToRel
        <3>3. QED
            BY <3>2, <2>2, <1>0
    <2>4. QED
        BY <2>3
<1>4. QED
    BY <1>3 DEF HighWater

LEMMA DeltaSubset ==
    ASSUME TypeOK, NEW n, NEW lo, NEW hi
    PROVE  Delta(n, lo, hi) \in SUBSET (1..Len(ledger))
BY DEF TypeOK, Delta

(***************************************************************************)
(* Type correctness of the asset-statistics pass.                          *)
(***************************************************************************)
\* The initial state is well typed.
LEMMA InitTypeOK == Init => TypeOK
<1>1. [ZeroRow EXCEPT !.present = FALSE] \in Row
    BY DEF ZeroRow, Row
<1>2. QED
    BY <1>1, MaxIdAssumption DEF Init, TypeOK

\* Every step of the pass and of the environment keeps the state well typed.
LEMMA NextTypeOK == TypeOK /\ [Next]_vars => TypeOK'
<1> SUFFICES ASSUME TypeOK, [Next]_vars PROVE TypeOK'
    OBVIOUS
<1>1. ASSUME NEW n \in Names, NEW a \in 1..MaxAmount, InsertTransfer(n, a)
      PROVE TypeOK'
    BY <1>1, MaxIdAssumption DEF InsertTransfer, TypeOK, Transfer
<1>2. ASSUME NEW i \in Ids, CommitTransfer(i) PROVE TypeOK'
    BY <1>2 DEF CommitTransfer, TypeOK
<1>3. ASSUME NEW n \in Names, AddTokenBasic(n) PROVE TypeOK'
    BY <1>3 DEF AddTokenBasic, TypeOK
<1>4. CASE StartPass
    <2>1. HighWater \in Nat
        <3>1. committed # {}
            BY <1>4 DEF StartPass
        <3>2. HighWater \in committed
            BY <3>1, HighWaterIsMax
        <3>3. QED
            BY <3>2 DEF TypeOK
    <2>2. QED
        BY <1>4, <2>1 DEF StartPass, TypeOK
<1>5. ASSUME NEW n \in Names, FoldRow(n) PROVE TypeOK'
    <2> DEFINE d == Delta(n, Base(n).chk, nowId)
    <2>1. Cardinality(d) \in Nat /\ Hundredths(d) \in Nat
        BY DeltaSubset, IdSetsFinite, FS_CardinalityType, HundredthsType DEF d
    <2>2. Base(n) \in Row
        BY DEF TypeOK, Base, ZeroRow, Row
    <2> DEFINE r == [present |-> TRUE,
                     txnum |-> Base(n).txnum + Cardinality(d),
                     amount |-> Base(n).amount + Hundredths(d),
                     chk |-> nowId]
    <2>3. r \in Row
        BY <2>1, <2>2 DEF TypeOK, Row, r
    <2>4. stat' = [stat EXCEPT ![n] = r] /\ todo' = todo \ {n}
          /\ UNCHANGED <<ledger, committed, catalog, pc, nowId>>
        BY <1>5 DEF FoldRow, d, r
    <2>5. QED
        BY <2>3, <2>4 DEF TypeOK
<1>6. ASSUME NEW n \in Names, FoldRowQueryFails(n) PROVE TypeOK'
    <2>1. Base(n) \in Row
        BY DEF TypeOK, Base, ZeroRow, Row
    <2>2. QED
        BY <1>6, <2>1 DEF FoldRowQueryFails, TypeOK, Row
<1>7. ASSUME NEW n \in Names, SaveFails(n) PROVE TypeOK'
    BY <1>7 DEF SaveFails, TypeOK
<1>8. CASE EndPass
    BY <1>8 DEF EndPass, TypeOK
<1>9. CASE UNCHANGED vars
    BY <1>9 DEF vars, TypeOK
<1>10. QED
    BY <1>1, <1>2, <1>3, <1>4, <1>5, <1>6, <1>7, <1>8, <1>9
    DEF Next, Environment, Pass

(***************************************************************************)
(* Type correctness of the asset-statistics pass and its environment.     *)
(***************************************************************************)
THEOREM TypeCorrect == Spec => []TypeOK
<1>1. Init => TypeOK
    BY InitTypeOK
<1>2. TypeOK /\ [Next]_vars => TypeOK'
    BY NextTypeOK
<1>3. QED
    BY <1>1, <1>2, PTL DEF Spec

-----------------------------------------------------------------------------
(***************************************************************************)
(* Refinement: the pass implements a checkpointed counter, with its lossy  *)
(* step when Faults holds.  The invariant RInv says that every stored      *)
(* checkpoint is an observed id (or 0), and that during a pass nowId is an *)
(* observed id no lower than the checkpoint of any row still to fold: the  *)
(* two guards of the counter's Fold and Skip.                              *)
(***************************************************************************)
RInv ==
    /\ TypeOK
    /\ \A n \in Names : stat[n].present => stat[n].chk \in committed \cup {0}
    /\ pc = "fold" => /\ nowId \in committed
                      /\ \A n \in todo : Base(n).chk <= nowId

LEMMA InitRInv == Init => RInv
BY InitTypeOK DEF Init, RInv, ZeroRow

(***************************************************************************)
(* Saving row n of the pass with LastCheckId = nowId keeps RInv: the saved *)
(* checkpoint is nowId, observed, and n leaves todo.                       *)
(***************************************************************************)
SavedAtNow(n) ==
    /\ pc = "fold" /\ n \in todo /\ stat'[n].present /\ stat'[n].chk = nowId
    /\ \A m \in Names \ {n} : stat'[m] = stat[m]
    /\ todo' = todo \ {n} /\ UNCHANGED <<ledger, committed, catalog, pc, nowId>>

LEMMA SaveKeepsRInv ==
    ASSUME RInv, TypeOK', NEW n \in Names, SavedAtNow(n)
    PROVE  RInv'
<1> USE DEF SavedAtNow
<1>1. nowId \in committed
    BY DEF RInv
<1>2. \A m \in Names : stat'[m].present => stat'[m].chk \in committed' \cup {0}
    BY <1>1 DEF RInv
<1>3. \A m \in todo' : Base(m)'.chk <= nowId'
    <2> SUFFICES ASSUME NEW m \in todo' PROVE Base(m)'.chk <= nowId'
        OBVIOUS
    <2>1. m \in todo /\ m \in Names /\ m # n
        BY DEF RInv, TypeOK
    <2>2. Base(m)' = Base(m)
        BY <2>1 DEF Base
    <2>3. QED
        BY <2>1, <2>2 DEF RInv
<1>4. QED
    BY <1>1, <1>2, <1>3 DEF RInv

LEMMA RInvStep == RInv /\ [Next]_vars => RInv'
<1> SUFFICES ASSUME RInv, [Next]_vars PROVE RInv'
    OBVIOUS
<1>0. TypeOK /\ TypeOK'
    BY NextTypeOK DEF RInv
<1>1. ASSUME NEW n \in Names, NEW a \in 1..MaxAmount, InsertTransfer(n, a)
      PROVE RInv'
    BY <1>0, <1>1 DEF InsertTransfer, RInv, Base
<1>2. ASSUME NEW i \in Ids, CommitTransfer(i) PROVE RInv'
    BY <1>0, <1>2 DEF CommitTransfer, RInv, Base
<1>3. ASSUME NEW n \in Names, AddTokenBasic(n) PROVE RInv'
    BY <1>0, <1>3 DEF AddTokenBasic, RInv, Base
<1>4. CASE StartPass
    <2>1. committed # {} /\ nowId' = HighWater /\ pc' = "fold"
          /\ todo' = catalog \cup {m \in Names : stat[m].present}
          /\ UNCHANGED <<ledger, committed, catalog, stat>>
        BY <1>4 DEF StartPass
    <2>2. HighWater \in committed /\ \A j \in committed : j <= HighWater
        BY <2>1, <1>0, HighWaterIsMax
    <2>3. HighWater \in Nat
        BY <2>2, <1>0 DEF TypeOK
    <2>4. ASSUME NEW m \in Names PROVE Base(m).chk <= HighWater
        <3>1. CASE stat[m].present
            <4>1. Base(m) = stat[m] /\ stat[m].chk \in committed \cup {0}
                BY <3>1 DEF RInv, Base
            <4>2. CASE stat[m].chk = 0
                BY <4>1, <4>2, <2>3
            <4>3. CASE stat[m].chk \in committed
                BY <4>1, <4>3, <2>2
            <4>4. QED
                BY <4>1, <4>2, <4>3
        <3>2. CASE ~stat[m].present
            BY <3>2, <2>3 DEF Base, ZeroRow
        <3>3. QED
            BY <3>1, <3>2
    <2>5. QED
        BY <2>1, <2>2, <2>4, <1>0 DEF RInv, Base, TypeOK
<1>5. ASSUME NEW n \in Names, FoldRow(n) PROVE RInv'
    <2>1. SavedAtNow(n)
        BY <1>5, <1>0 DEF FoldRow, TypeOK, SavedAtNow
    <2>2. QED
        BY <2>1, <1>0, SaveKeepsRInv
<1>6. ASSUME NEW n \in Names, FoldRowQueryFails(n) PROVE RInv'
    <2>1. SavedAtNow(n)
        BY <1>6, <1>0 DEF FoldRowQueryFails, TypeOK, SavedAtNow
    <2>2. QED
        BY <2>1, <1>0, SaveKeepsRInv
<1>7. ASSUME NEW n \in Names, SaveFails(n) PROVE RInv'
    BY <1>0, <1>7 DEF SaveFails, RInv, Base
<1>8. CASE EndPass
    BY <1>0, <1>8 DEF EndPass, RInv, Base
<1>9. CASE UNCHANGED vars
    BY <1>0, <1>9 DEF vars, RInv, Base
<1>10. QED
    BY <1>1, <1>2, <1>3, <1>4, <1>5, <1>6, <1>7, <1>8, <1>9
    DEF Next, Environment, Pass

\* The counter's Cardinality is the one of FiniteSets.
LEMMA CardinalitySame == \A S : Counter!Cardinality(S) = Cardinality(S)
BY DEF Counter!Cardinality, Cardinality

\* The row a fold starts from is the counter's Current row.
LEMMA BaseIsCurrent ==
    ASSUME TypeOK, NEW n \in Names
    PROVE  Counter!Current(n) = [present |-> TRUE, cnt |-> Base(n).txnum, chk |-> Base(n).chk]
BY DEF Counter!Current, Counter!Fresh, CounterRow, Base, ZeroRow, TypeOK, Row

(***************************************************************************)
(* A save of row n with the given fields is the counter's step on row n.   *)
(***************************************************************************)
LEMMA SaveIsRowUpdate ==
    ASSUME TypeOK, NEW n \in Names, NEW r,
           stat' = [stat EXCEPT ![n] = r]
    PROVE  CounterRow' = [CounterRow EXCEPT ![n] = [present |-> r.present,
                                                   cnt |-> r.txnum, chk |-> r.chk]]
BY DEF CounterRow, TypeOK

LEMMA RefinementStep == RInv /\ [Next]_vars => [Counter!Next]_(Counter!cvars)
<1> SUFFICES ASSUME RInv, [Next]_vars PROVE [Counter!Next]_(Counter!cvars)
    OBVIOUS
<1>0. TypeOK
    BY DEF RInv
<1>1. ASSUME NEW n \in Names, NEW a \in 1..MaxAmount, InsertTransfer(n, a)
      PROVE [Counter!Next]_(Counter!cvars)
    <2>1. [name |-> n, amt |-> a] \in Transfer
        BY DEF Transfer
    <2>2. Counter!Grow([name |-> n, amt |-> a])
        BY <1>1 DEF InsertTransfer, Counter!Grow, CounterRow
    <2>3. QED
        BY <2>1, <2>2 DEF Counter!Next
<1>2. ASSUME NEW i \in Ids, CommitTransfer(i) PROVE [Counter!Next]_(Counter!cvars)
    <2>1. Counter!Commit(i)
        BY <1>2 DEF CommitTransfer, Counter!Commit, CounterRow
    <2>2. QED
        BY <2>1 DEF Counter!Next, Ids
<1>3. ASSUME NEW n \in Names, FoldRow(n) PROVE [Counter!Next]_(Counter!cvars)
    <2> DEFINE d == Delta(n, Base(n).chk, nowId)
               r == [present |-> TRUE,
                     txnum |-> Base(n).txnum + Cardinality(d),
                     amount |-> Base(n).amount + Hundredths(d),
                     chk |-> nowId]
    <2>1. pc = "fold" /\ n \in todo /\ stat' = [stat EXCEPT ![n] = r]
          /\ UNCHANGED <<ledger, committed>>
        BY <1>3 DEF FoldRow, d, r
    <2>2. nowId \in committed /\ Base(n).chk <= nowId
        BY <2>1 DEF RInv
    <2>3. nowId \in 1..MaxId
        BY <2>2, <1>0, MaxIdAssumption DEF TypeOK
    <2>4. Counter!Current(n) = [present |-> TRUE, cnt |-> Base(n).txnum, chk |-> Base(n).chk]
        BY <1>0, BaseIsCurrent
    <2>5. CounterRow' = [CounterRow EXCEPT ![n] = [present |-> TRUE,
                                                  cnt |-> Base(n).txnum + Cardinality(d),
                                                  chk |-> nowId]]
        BY <2>1, <1>0, SaveIsRowUpdate DEF r
    <2>6. Counter!Delta(n, Base(n).chk, nowId) = d
        BY DEF Counter!Delta, Delta, d
    <2>7. Counter!Current(n).cnt
            + Counter!Cardinality(Counter!Delta(n, Counter!Current(n).chk, nowId))
          = Base(n).txnum + Cardinality(d)
        <3>1. Counter!Delta(n, Counter!Current(n).chk, nowId) = d
            BY <2>4, <2>6
        <3>2. QED
            BY <2>4, <3>1, CardinalitySame
    <2>9. Counter!Fold(n, nowId)
        <3>1. Counter!Current(n).chk <= nowId
            BY <2>2, <2>4
        <3>2. CounterRow' = [CounterRow EXCEPT ![n] =
                [present |-> TRUE,
                 cnt |-> Counter!Current(n).cnt
                         + Counter!Cardinality(Counter!Delta(n, Counter!Current(n).chk, nowId)),
                 chk |-> nowId]]
            BY <2>5, <2>7
        <3>3. QED
            BY <2>1, <2>2, <3>1, <3>2 DEF Counter!Fold
    <2>8. QED
        BY <2>3, <2>9 DEF Counter!Next
<1>4. ASSUME NEW n \in Names, FoldRowQueryFails(n) PROVE [Counter!Next]_(Counter!cvars)
    <2> DEFINE r == [present |-> TRUE, txnum |-> Base(n).txnum,
                     amount |-> Base(n).amount, chk |-> nowId]
    <2>1. Faults /\ pc = "fold" /\ n \in todo /\ stat' = [stat EXCEPT ![n] = r]
          /\ UNCHANGED <<ledger, committed>>
        BY <1>4 DEF FoldRowQueryFails, r
    <2>2. nowId \in committed /\ Base(n).chk <= nowId
        BY <2>1 DEF RInv
    <2>3. nowId \in 1..MaxId
        BY <2>2, <1>0, MaxIdAssumption DEF TypeOK
    <2>4. Counter!Current(n) = [present |-> TRUE, cnt |-> Base(n).txnum, chk |-> Base(n).chk]
        BY <1>0, BaseIsCurrent
    <2>5. CounterRow' = [CounterRow EXCEPT ![n] = [present |-> TRUE,
                                                  cnt |-> Base(n).txnum, chk |-> nowId]]
        BY <2>1, <1>0, SaveIsRowUpdate DEF r
    <2>6. Counter!Skip(n, nowId)
        BY <2>1, <2>2, <2>4, <2>5 DEF Counter!Skip
    <2>7. QED
        BY <2>3, <2>6 DEF Counter!Next
<1>5. ASSUME NEW n \in Names, AddTokenBasic(n) \/ SaveFails(n)
      PROVE  UNCHANGED Counter!cvars
    BY <1>5 DEF AddTokenBasic, SaveFails, Counter!cvars, CounterRow
<1>6. CASE StartPass \/ EndPass \/ UNCHANGED vars
    BY <1>6 DEF StartPass, EndPass, vars, Counter!cvars, CounterRow
<1>7. QED
    BY <1>1, <1>2, <1>3, <1>4, <1>5, <1>6 DEF Next, Environment, Pass

(***************************************************************************)
(* computeAssetStatistics implements a checkpointed counter, for every set *)
(* of names and every bound, with failures (the lossy counter) or without, *)
(* and whatever order transfers become visible in.                        *)
(***************************************************************************)
THEOREM Refinement == Spec => CounterSpec
<1>1. Init => Counter!Init
    BY DEF Init, Counter!Init, CounterRow, Counter!Fresh, ZeroRow
<1>2. Spec => []RInv
    BY InitRInv, RInvStep, PTL DEF Spec
<1>3. QED
    BY <1>1, <1>2, RefinementStep, PTL DEF Spec, CounterSpec, Counter!Spec

(***************************************************************************)
(* No transfer is ever counted twice by computeAssetStatistics, for every  *)
(* set of names and every bound, whatever CalculateAssets queries and      *)
(* saves fail and in whatever order transfers become visible: it follows   *)
(* from the refinement and the counter's own NoOverCount.                  *)
(***************************************************************************)
THEOREM NoOverCountHolds == Spec => []NoOverCount
<1>1. Counter!NoOverCount => NoOverCount
    BY CardinalitySame DEF Counter!NoOverCount, NoOverCount, CounterRow, Counter!Delta, Delta
<1>2. QED
    BY <1>1, Refinement, Counter!CounterNoOverCount, PTL DEF CounterSpec

=============================================================================
