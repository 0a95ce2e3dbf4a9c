----------------------- MODULE TokenStatistics_proofs -----------------------
(***************************************************************************)
(* Machine-checked proofs about the token-statistics pass and the          *)
(* token-basic pass: whatever lookups, queries and saves fail, neither     *)
(* ever folds a transfer into a counter twice, for every set of tokens and *)
(* basics and every bound.                                                 *)
(***************************************************************************)
EXTENDS TokenStatistics, LedgerRanges

USE TokensAssumption, MaxIdsAssumption, BasicsAssumption, FlagsAssumption

\* The ids of token t in a transfer ledger.
IdsOf(ledger, t) == {i \in 1..Len(ledger) : ledger[i] = t}

\* The src_transfers ids of basic b's registered tokens.
BasicIds(b) == {i \in 1..Len(src) : src[i] \in AssetsOf(b)}

-----------------------------------------------------------------------------
(* The ranges the queries count, as Cuts of finite sets of ids.            *)

LEMMA RangeIsCut ==
    ASSUME NEW ledger \in Seq(Tokens), NEW t, NEW lo, NEW hi
    PROVE  /\ IdRange(ledger, t, lo, hi) = Cut(IdsOf(ledger, t), lo, hi)
           /\ IdsOf(ledger, t) \in SUBSET Nat
           /\ IsFiniteSet(IdsOf(ledger, t))
           /\ Cardinality(IdRange(ledger, t, lo, hi)) \in Nat
<1>1. IsFiniteSet(1..Len(ledger))
    BY FS_Interval
<1>2. IsFiniteSet(IdsOf(ledger, t))
    BY <1>1, FS_Subset DEF IdsOf
<1>3. IdRange(ledger, t, lo, hi) = Cut(IdsOf(ledger, t), lo, hi)
    BY DEF IdRange, Cut, IdsOf
<1>4. QED
    BY <1>2, <1>3, CutSub DEF IdsOf, Cut

LEMMA BasicRangeIsCut ==
    ASSUME src \in Seq(Tokens), NEW b, NEW lo, NEW hi
    PROVE  /\ BasicRange(b, lo, hi) = Cut(BasicIds(b), lo, hi)
           /\ BasicIds(b) \in SUBSET Nat
           /\ IsFiniteSet(BasicIds(b))
           /\ \A i \in BasicIds(b) : i <= Len(src)
           /\ Cardinality(BasicRange(b, lo, hi)) \in Nat
<1>1. IsFiniteSet(1..Len(src))
    BY FS_Interval
<1>2. IsFiniteSet(BasicIds(b))
    BY <1>1, FS_Subset DEF BasicIds
<1>3. BasicRange(b, lo, hi) = Cut(BasicIds(b), lo, hi)
    BY DEF BasicRange, Cut, BasicIds
<1>4. QED
    BY <1>2, <1>3, CutSub DEF BasicIds, Cut

(***************************************************************************)
(* GetLastSrcTransferForToken: when basic b has a transfer, LastOf(b) is   *)
(* the largest of its ids; LastOf(b) is always an id of src or 0.          *)
(***************************************************************************)
LEMMA LastOfMax ==
    ASSUME src \in Seq(Tokens), NEW b
    PROVE  /\ LastOf(b) \in 0..Len(src)
           /\ LastOf(b) # 0 => \A i \in BasicIds(b) : i <= LastOf(b)
<1> DEFINE ids == BasicRange(b, 0, Len(src))
<1>1. ids = BasicIds(b) /\ ids \subseteq 1..Len(src)
    BY DEF BasicRange, BasicIds
<1>2. CASE ids = {}
    BY <1>2 DEF LastOf
<1>3. CASE ids # {}
    <2>0. ids \in SUBSET Nat /\ Len(src) \in Nat /\ \A i \in ids : i <= Len(src)
        BY <1>1
    <2>1. \E m \in ids : \A i \in ids : i <= m
        BY <2>0, <1>3, NatMax, Zenon
    <2>2. LastOf(b) \in ids /\ \A i \in ids : i <= LastOf(b)
        BY <1>3, <2>1 DEF LastOf
    <2>3. QED
        BY <1>1, <2>2
<1>4. QED
    BY <1>2, <1>3

\* Appending to a ledger keeps every id of a token.
LEMMA IdsGrow ==
    ASSUME NEW ledger \in Seq(Tokens), NEW x \in Tokens, NEW t
    PROVE  IdsOf(ledger, t) \subseteq IdsOf(Append(ledger, x), t)
BY DEF IdsOf

-----------------------------------------------------------------------------
(* Type correctness.                                                       *)

LEMMA InitTypeOK == Init => TypeOK
<1> SUFFICES ASSUME Init PROVE TypeOK
    OBVIOUS
<1>1. [ZeroRow EXCEPT !.present = FALSE] \in Row
    BY DEF ZeroRow, Row
<1>2. QED
    BY <1>1 DEF Init, TypeOK

LEMMA NextTypeOK == TypeOK /\ [Next]_vars => TypeOK'
<1> SUFFICES ASSUME TypeOK, [Next]_vars PROVE TypeOK'
    OBVIOUS
<1>1. ASSUME NEW t \in Tokens, AddDst(t) \/ AddSrc(t) \/ AddToken(t),
             UNCHANGED basicVars
      PROVE  TypeOK'
    <2>1. CASE AddDst(t)
        BY <1>1, <2>1 DEF AddDst, TypeOK, basicVars
    <2>2. CASE AddSrc(t)
        BY <1>1, <2>2 DEF AddSrc, TypeOK, basicVars
    <2>3. CASE AddToken(t)
        BY <1>1, <2>3 DEF AddToken, TypeOK, basicVars
    <2>4. QED
        BY <1>1, <2>1, <2>2, <2>3
<1>2. ASSUME StartPass \/ EndPass \/ \E t \in Tokens : SkipToken(t) \/ SaveFails(t),
             UNCHANGED basicVars
      PROVE  TypeOK'
    <2>1. CASE StartPass
        <3>1. Len(dst) \in Nat /\ Len(src) \in Nat
            BY DEF TypeOK
        <3>2. catalog \cup {t \in Tokens : stat[t].present} \subseteq Tokens
            BY DEF TypeOK
        <3>3. QED
            BY <1>2, <2>1, <3>1, <3>2 DEF StartPass, TypeOK, basicVars
    <2>2. CASE EndPass
        BY <1>2, <2>2 DEF EndPass, TypeOK, basicVars
    <2>3. ASSUME NEW t \in Tokens, SkipToken(t) PROVE TypeOK'
        BY <1>2, <2>3 DEF SkipToken, TypeOK, basicVars
    <2>4. ASSUME NEW t \in Tokens, SaveFails(t) PROVE TypeOK'
        BY <1>2, <2>4 DEF SaveFails, TypeOK, basicVars
    <2>5. QED
        BY <1>2, <2>1, <2>2, <2>3, <2>4
<1>3. ASSUME NEW t \in Tokens, NEW inOk \in BOOLEAN, NEW outOk \in BOOLEAN,
             FoldToken(t, inOk, outOk), UNCHANGED basicVars
      PROVE  TypeOK'
    <2>1. Base(t) \in Row
        BY DEF Base, TypeOK, ZeroRow, Row
    <2>2. /\ Cardinality(IdRange(dst, t, Base(t).inChk, nowIn)) \in Nat
          /\ Cardinality(IdRange(src, t, Base(t).inChk, nowIn)) \in Nat
        BY RangeIsCut DEF TypeOK
    <2>3. InAfter(t, inOk) \in Nat
        BY <2>1, <2>2 DEF InAfter, Row
    <2>4. Base(t).outCnt + (IF outOk THEN Cardinality(IdRange(src, t, Base(t).inChk, nowIn))
                            ELSE 0) \in Nat
        BY <2>1, <2>2 DEF Row
    <2>5. stat'[t] \in Row
        BY <1>3, <2>3, <2>4 DEF FoldToken, TypeOK, Row
    <2>6. QED
        BY <1>3, <2>5 DEF FoldToken, TypeOK, basicVars
<1>4. ASSUME NEW b \in Basics, BasicFold(b), UNCHANGED tokenVars
      PROVE  TypeOK'
    <2>1. LastOf(b) \in Nat /\ Cardinality(BasicRange(b, bstat[b].chk, LastOf(b))) \in Nat
        BY LastOfMax, BasicRangeIsCut DEF TypeOK
    <2>2. QED
        BY <1>4, <2>1 DEF BasicFold, TypeOK, tokenVars
<1>5. ASSUME BasicStart \/ BasicEnd \/ \E b \in Basics : BasicSkip(b),
             UNCHANGED tokenVars
      PROVE  TypeOK'
    BY <1>5 DEF BasicStart, BasicEnd, BasicSkip, TypeOK, tokenVars
<1>6. CASE UNCHANGED vars
    BY <1>6 DEF vars, tokenVars, basicVars, TypeOK
<1>7. QED
    BY <1>1, <1>2, <1>3, <1>4, <1>5, <1>6 DEF Next, Environment, Pass, BasicPass

\* Every reachable state of the two passes and their environment is well typed.
THEOREM TypeCorrect == Spec => []TypeOK
BY InitTypeOK, NextTypeOK, PTL DEF Spec
-----------------------------------------------------------------------------
(* InNoOverCount.                                                          *)

(***************************************************************************)
(* Every stored LastInCheckId is an id of dst_transfers, and during a pass *)
(* none exceeds the nowInId the pass read, which is itself an id: so the   *)
(* range (LastInCheckId, nowInId] a row folds never reaches below a range  *)
(* it folded before.                                                       *)
(***************************************************************************)
InChkBound ==
    /\ \A t \in Tokens : stat[t].inChk <= Len(dst)
    /\ pc = "fold" => /\ nowIn <= Len(dst)
                      /\ \A t \in Tokens : stat[t].inChk <= nowIn

InInv == TypeOK /\ InChkBound /\ InNoOverCount

\* Appending a transfer keeps every count of a token's range.
LEMMA RangeGrows ==
    ASSUME NEW ledger \in Seq(Tokens), NEW x \in Tokens, NEW t, NEW lo, NEW hi
    PROVE  /\ Cardinality(IdRange(ledger, t, lo, hi)) \in Nat
           /\ Cardinality(IdRange(ledger, t, lo, hi))
                <= Cardinality(IdRange(Append(ledger, x), t, lo, hi))
<1>1. Append(ledger, x) \in Seq(Tokens)
    OBVIOUS
<1>2. IdRange(ledger, t, lo, hi) = Cut(IdsOf(ledger, t), lo, hi)
    BY RangeIsCut
<1>3. /\ IdRange(Append(ledger, x), t, lo, hi) = Cut(IdsOf(Append(ledger, x), t), lo, hi)
      /\ IsFiniteSet(IdsOf(Append(ledger, x), t))
    <2>1. IsFiniteSet(1..Len(Append(ledger, x)))
        BY <1>1, FS_Interval
    <2>2. IsFiniteSet(IdsOf(Append(ledger, x), t))
        BY <2>1, FS_Subset DEF IdsOf
    <2>3. QED
        BY <2>2 DEF IdRange, Cut, IdsOf
<1>4. IdsOf(ledger, t) \subseteq IdsOf(Append(ledger, x), t)
    BY IdsGrow
<1>5. QED
    BY <1>2, <1>3, <1>4, CutGrows

\* A count of at most (0, lo] of a token, with or without the delta (lo, hi].
LEMMA RangeFold ==
    ASSUME NEW ledger \in Seq(Tokens), NEW t, NEW lo \in Nat, NEW hi \in Nat, lo <= hi,
           NEW k \in Nat, k <= Cardinality(IdRange(ledger, t, 0, lo))
    PROVE  /\ k + Cardinality(IdRange(ledger, t, lo, hi))
                <= Cardinality(IdRange(ledger, t, 0, hi))
           /\ k <= Cardinality(IdRange(ledger, t, 0, hi))
<1>1. /\ IdRange(ledger, t, 0, lo) = Cut(IdsOf(ledger, t), 0, lo)
      /\ IdRange(ledger, t, lo, hi) = Cut(IdsOf(ledger, t), lo, hi)
      /\ IdRange(ledger, t, 0, hi) = Cut(IdsOf(ledger, t), 0, hi)
      /\ IdsOf(ledger, t) \in SUBSET Nat
      /\ IsFiniteSet(IdsOf(ledger, t))
    BY RangeIsCut
<1>2. QED
    BY <1>1, CutFold

LEMMA InitInInv == Init => InInv
<1> SUFFICES ASSUME Init PROVE InInv
    OBVIOUS
<1>1. \A t \in Tokens : ~stat[t].present /\ stat[t].inChk = 0
    BY DEF Init, ZeroRow
<1>2. Len(dst) = 0 /\ pc = "idle"
    BY DEF Init
<1>3. InChkBound
    BY <1>1, <1>2 DEF InChkBound
<1>4. InNoOverCount
    BY <1>1 DEF InNoOverCount
<1>5. QED
    BY <1>3, <1>4, InitTypeOK DEF InInv

LEMMA InStep == InInv /\ [Next]_vars => InInv'
<1> SUFFICES ASSUME InInv, [Next]_vars PROVE InInv'
    OBVIOUS
<1>0. TypeOK /\ TypeOK'
    BY NextTypeOK DEF InInv
<1>1. ASSUME NEW t \in Tokens, AddDst(t) PROVE InInv'
    <2>0. UNCHANGED <<stat, pc, nowIn>> /\ Len(dst') = Len(dst) + 1
        BY <1>0, <1>1 DEF AddDst, TypeOK
    <2>1. InChkBound'
        <3>1. \A u \in Tokens : stat[u].inChk \in Nat /\ stat[u].inChk <= Len(dst)
            BY <1>0 DEF InInv, InChkBound, TypeOK, Row
        <3>2. Len(dst) \in Nat /\ nowIn \in Nat
            BY <1>0 DEF TypeOK
        <3>3. pc = "fold" => nowIn <= Len(dst) /\ \A u \in Tokens : stat[u].inChk <= nowIn
            BY DEF InInv, InChkBound
        <3>4. QED
            BY <2>0, <3>1, <3>2, <3>3 DEF InChkBound
    <2>2. InNoOverCount'
        <3> SUFFICES ASSUME NEW u \in Tokens \ Home, stat'[u].present
                     PROVE  stat'[u].inCnt <= Cardinality(IdRange(dst', u, 0, stat'[u].inChk))
            BY DEF InNoOverCount
        <3>1. stat'[u] = stat[u] /\ dst' = Append(dst, t) /\ stat[u].inCnt \in Nat
            BY <1>0, <1>1 DEF AddDst, TypeOK, Row
        <3>2. stat[u].inCnt <= Cardinality(IdRange(dst, u, 0, stat[u].inChk))
            BY <3>1 DEF InInv, InNoOverCount
        <3>3. Cardinality(IdRange(dst, u, 0, stat[u].inChk)) \in Nat
              /\ Cardinality(IdRange(dst, u, 0, stat[u].inChk))
                   <= Cardinality(IdRange(Append(dst, t), u, 0, stat[u].inChk))
            BY <1>0, RangeGrows DEF TypeOK
        <3>4. Cardinality(IdRange(Append(dst, t), u, 0, stat[u].inChk)) \in Nat
            <4>1. Append(dst, t) \in Seq(Tokens)
                BY <1>0 DEF TypeOK
            <4>2. QED
                BY <4>1, RangeIsCut
        <3>5. QED
            BY <3>1, <3>2, <3>3, <3>4
    <2>3. QED
        BY <1>0, <2>1, <2>2 DEF InInv
<1>2. ASSUME NEW t \in Tokens, AddSrc(t) \/ AddToken(t) PROVE InInv'
    <2>1. UNCHANGED <<dst, stat, pc, nowIn>>
        BY <1>2 DEF AddSrc, AddToken
    <2>2. QED
        BY <1>0, <2>1 DEF InInv, InChkBound, InNoOverCount
<1>3. CASE StartPass
    BY <1>0, <1>3 DEF StartPass, InInv, InChkBound, InNoOverCount
<1>4. ASSUME EndPass \/ \E t \in Tokens : SkipToken(t) \/ SaveFails(t) PROVE InInv'
    <2>1. UNCHANGED <<dst, stat, nowIn>> /\ pc' \in {pc, "idle"}
        BY <1>4 DEF EndPass, SkipToken, SaveFails
    <2>2. QED
        BY <1>0, <2>1 DEF InInv, InChkBound, InNoOverCount
<1>5. ASSUME NEW t \in Tokens, NEW inOk \in BOOLEAN, NEW outOk \in BOOLEAN,
             FoldToken(t, inOk, outOk)
      PROVE  InInv'
    <2>1. /\ pc = "fold" /\ pc' = "fold" /\ UNCHANGED <<dst, nowIn>>
          /\ stat'[t].present /\ stat'[t].inChk = nowIn
          /\ stat'[t].inCnt = InAfter(t, inOk)
        BY <1>0, <1>5 DEF FoldToken, TypeOK
    <2>2. \A u \in Tokens \ {t} : stat'[u] = stat[u]
        BY <1>0, <1>5 DEF FoldToken, TypeOK
    <2>3. nowIn <= Len(dst) /\ \A u \in Tokens : stat[u].inChk <= nowIn
        BY <2>1 DEF InInv, InChkBound
    <2>4. InChkBound'
        <3>1. ASSUME NEW u \in Tokens
              PROVE  stat'[u].inChk <= Len(dst') /\ stat'[u].inChk <= nowIn'
            <4>1. CASE u = t
                BY <1>0, <2>1, <2>3, <4>1 DEF TypeOK
            <4>2. CASE u # t
                <5>1. stat'[u] = stat[u]
                    BY <2>2, <4>2
                <5>2. stat[u].inChk \in Nat /\ nowIn \in Nat /\ Len(dst) \in Nat
                    <6>1. stat[u] \in Row /\ nowIn \in Nat /\ dst \in Seq(Tokens)
                        BY <1>0 DEF TypeOK
                    <6>2. QED
                        BY <6>1 DEF Row
                <5>3. dst' = dst /\ nowIn' = nowIn
                    BY <2>1
                <5>4. QED
                    BY <2>3, <5>1, <5>2, <5>3
            <4>3. QED
                BY <4>1, <4>2
        <3>2. QED
            BY <1>0, <2>1, <2>3, <3>1 DEF InChkBound
    <2>5. ASSUME t \notin Home
          PROVE  InAfter(t, inOk) <= Cardinality(IdRange(dst, t, 0, nowIn))
        <3> DEFINE k == Base(t).inCnt
                   lo == Base(t).inChk
        <3>1. k \in Nat /\ lo \in Nat /\ lo <= nowIn /\ nowIn \in Nat
            BY <1>0, <2>3 DEF Base, ZeroRow, TypeOK, Row
        <3>2. k <= Cardinality(IdRange(dst, t, 0, lo))
            <4>1. CASE stat[t].present
                BY <2>5, <4>1 DEF Base, InInv, InNoOverCount
            <4>2. CASE ~stat[t].present
                BY <1>0, <4>2, RangeIsCut DEF Base, ZeroRow, TypeOK
            <4>3. QED
                BY <4>1, <4>2
        <3>3. /\ k + Cardinality(IdRange(dst, t, lo, nowIn)) <= Cardinality(IdRange(dst, t, 0, nowIn))
              /\ k <= Cardinality(IdRange(dst, t, 0, nowIn))
            BY <1>0, <3>1, <3>2, RangeFold DEF TypeOK
        <3>4. QED
            BY <2>5, <3>3 DEF InAfter
    <2>6. InNoOverCount'
        <3> SUFFICES ASSUME NEW u \in Tokens \ Home, stat'[u].present
                     PROVE  stat'[u].inCnt <= Cardinality(IdRange(dst', u, 0, stat'[u].inChk))
            BY DEF InNoOverCount
        <3>1. CASE u = t
            BY <2>1, <2>5, <3>1
        <3>2. CASE u # t
            BY <2>1, <2>2, <3>2 DEF InInv, InNoOverCount
        <3>3. QED
            BY <3>1, <3>2
    <2>7. QED
        BY <1>0, <2>4, <2>6 DEF InInv
<1>6. CASE BasicPass /\ UNCHANGED tokenVars
    BY <1>0, <1>6 DEF tokenVars, InInv, InChkBound, InNoOverCount
<1>7. CASE UNCHANGED vars
    BY <1>0, <1>7 DEF vars, tokenVars, InInv, InChkBound, InNoOverCount
<1>8. QED
    BY <1>1, <1>2, <1>3, <1>4, <1>5, <1>6, <1>7 DEF Next, Environment, Pass

(***************************************************************************)
(* computeTokenStatistics never folds an in transfer into an InCounter     *)
(* twice, whatever GetTokenBasicByHash, the two delta queries and          *)
(* SaveTokenStatistic do, for every set of tokens and every bound.         *)
(***************************************************************************)
THEOREM InNoOverCountHolds == Spec => []InNoOverCount
<1>1. InInv => InNoOverCount
    BY DEF InInv
<1>2. QED
    BY <1>1, InitInInv, InStep, PTL DEF Spec

-----------------------------------------------------------------------------
(* BasicNoOverCount.                                                       *)

(***************************************************************************)
(* Every StatsUpdateTime the pass stores is the id of a src transfer (or   *)
(* 0): it is what keeps the next aggregate's range (StatsUpdateTime,       *)
(* last.Id] clear of the transfers already counted.                        *)
(***************************************************************************)
BasicInv ==
    /\ TypeOK
    /\ \A b \in Basics : bstat[b].chk <= Len(src)
    /\ BasicNoOverCount

(***************************************************************************)
(* The ids of a basic's tokens only grow: src_transfers is appended to and *)
(* the catalog only gains tokens.                                          *)
(***************************************************************************)
LEMMA BasicIdsGrow ==
    ASSUME TypeOK, NEW b,
           \/ \E t \in Tokens : src' = Append(src, t) /\ catalog' = catalog
           \/ src' = src /\ catalog \subseteq catalog'
    PROVE  /\ BasicIds(b) \subseteq BasicIds(b)'
           /\ src' \in Seq(Tokens)
<1>1. AssetsOf(b) \subseteq AssetsOf(b)'
    BY DEF AssetsOf
<1>2. CASE \E t \in Tokens : src' = Append(src, t) /\ catalog' = catalog
    <2>1. PICK t \in Tokens : src' = Append(src, t) /\ catalog' = catalog
        BY <1>2
    <2>2. src' \in Seq(Tokens) /\ Len(src') = Len(src) + 1
          /\ \A i \in 1..Len(src) : src'[i] = src[i]
        BY <2>1 DEF TypeOK
    <2>3. ASSUME NEW i \in BasicIds(b) PROVE i \in BasicIds(b)'
        <3>1. i \in 1..Len(src) /\ src[i] \in catalog /\ BasicOf[src[i]] = b
            BY <2>3 DEF BasicIds, AssetsOf
        <3>2. i \in 1..Len(src')
            <4>1. Len(src) \in Nat /\ i \in Nat /\ 1 <= i /\ i <= Len(src)
                BY <3>1 DEF TypeOK
            <4>2. QED
                BY <2>2, <4>1
        <3>3. src'[i] = src[i]
            BY <2>2, <3>1
        <3>4. QED
            BY <2>1, <3>1, <3>2, <3>3 DEF BasicIds, AssetsOf
    <2>4. QED
        BY <2>2, <2>3
<1>3. CASE src' = src /\ catalog \subseteq catalog'
    BY <1>3 DEF BasicIds, AssetsOf, TypeOK
<1>4. QED
    BY <1>2, <1>3

\* The same range in the next state, as a Cut of the next ids.
LEMMA BasicRangeIsCutNext ==
    ASSUME src' \in Seq(Tokens), NEW b, NEW lo, NEW hi
    PROVE  /\ BasicRange(b, lo, hi)' = Cut(BasicIds(b)', lo, hi)
           /\ IsFiniteSet(BasicIds(b)')
<1>1. IsFiniteSet(1..Len(src'))
    BY FS_Interval
<1>2. QED
    BY <1>1, FS_Subset DEF BasicRange, Cut, BasicIds

\* When the environment adds a transfer or a token, the bound is kept.
LEMMA BasicKeeps ==
    ASSUME BasicInv, TypeOK', UNCHANGED bstat,
           \/ \E t \in Tokens : src' = Append(src, t) /\ catalog' = catalog
           \/ src' = src /\ catalog \subseteq catalog'
    PROVE  BasicInv'
<1>1. Len(src) <= Len(src')
    BY DEF TypeOK, BasicInv
<1>2. ASSUME NEW b \in Basics
      PROVE  (bstat[b].total <= Cardinality(BasicRange(b, 0, bstat[b].chk)))'
    <2> DEFINE chk == bstat[b].chk
    <2>1. BasicIds(b) \subseteq BasicIds(b)' /\ src' \in Seq(Tokens)
        BY BasicIdsGrow DEF BasicInv
    <2>2. BasicRange(b, 0, chk)' = Cut(BasicIds(b)', 0, chk)
          /\ IsFiniteSet(BasicIds(b)')
        BY <2>1, BasicRangeIsCutNext
    <2>3. BasicRange(b, 0, chk) = Cut(BasicIds(b), 0, chk)
        BY BasicRangeIsCut DEF BasicInv, TypeOK
    <2>4. Cardinality(Cut(BasicIds(b), 0, chk)) \in Nat
          /\ Cardinality(Cut(BasicIds(b), 0, chk)) <= Cardinality(Cut(BasicIds(b)', 0, chk))
          /\ Cardinality(Cut(BasicIds(b)', 0, chk)) \in Nat
        BY <2>1, <2>2, CutGrows
    <2>5. bstat[b].total <= Cardinality(Cut(BasicIds(b), 0, chk)) /\ bstat[b].total \in Nat
        BY <2>3 DEF BasicInv, BasicNoOverCount, TypeOK
    <2>6. QED
        BY <2>2, <2>4, <2>5
<1>3. \A b \in Basics : bstat'[b].chk <= Len(src')
    <2>1. \A b \in Basics : bstat[b].chk \in Nat /\ bstat[b].chk <= Len(src)
        BY DEF BasicInv, TypeOK
    <2>2. Len(src) \in Nat /\ Len(src') \in Nat
        BY DEF BasicInv, TypeOK
    <2>3. QED
        BY <1>1, <2>1, <2>2
<1>4. BasicNoOverCount'
    BY <1>2 DEF BasicNoOverCount
<1>5. QED
    BY <1>3, <1>4 DEF BasicInv

LEMMA InitBasicInv == Init => BasicInv
<1> SUFFICES ASSUME Init PROVE BasicInv
    OBVIOUS
<1>1. \A b \in Basics : bstat[b].total = 0 /\ bstat[b].chk = 0 /\ Len(src) = 0
    BY DEF Init
<1>2. \A b \in Basics : Cardinality(BasicRange(b, 0, 0)) \in Nat
    BY BasicRangeIsCut DEF Init
<1>3. QED
    BY <1>1, <1>2, InitTypeOK DEF BasicInv, BasicNoOverCount

LEMMA BasicStep == BasicInv /\ [Next]_vars => BasicInv'
<1> SUFFICES ASSUME BasicInv, [Next]_vars PROVE BasicInv'
    OBVIOUS
<1>0. TypeOK /\ TypeOK'
    BY NextTypeOK DEF BasicInv
<1>1. ASSUME NEW t \in Tokens, AddSrc(t), UNCHANGED basicVars PROVE BasicInv'
    BY <1>0, <1>1, BasicKeeps DEF AddSrc, basicVars
<1>2. ASSUME NEW t \in Tokens, AddToken(t), UNCHANGED basicVars PROVE BasicInv'
    BY <1>0, <1>2, BasicKeeps DEF AddToken, basicVars
<1>3. ASSUME (\E t \in Tokens : AddDst(t)) \/ Pass, UNCHANGED basicVars
      PROVE  BasicInv'
    <2>1. UNCHANGED <<src, catalog>>
        BY <1>3 DEF AddDst, Pass, StartPass, SkipToken, FoldToken, SaveFails, EndPass
    <2>2. QED
        BY <1>0, <1>3, <2>1, BasicKeeps DEF basicVars
<1>4. ASSUME BasicStart \/ BasicEnd \/ \E b \in Basics : BasicSkip(b),
             UNCHANGED tokenVars
      PROVE  BasicInv'
    <2>1. UNCHANGED <<src, catalog, bstat>>
        BY <1>4 DEF BasicStart, BasicEnd, BasicSkip, tokenVars
    <2>2. QED
        BY <1>0, <2>1, BasicKeeps
<1>5. ASSUME NEW b \in Basics, BasicFold(b), UNCHANGED tokenVars PROVE BasicInv'
    <2> DEFINE chk == bstat[b].chk
               L == LastOf(b)
               T == BasicIds(b)
               d == Cardinality(BasicRange(b, chk, L))
    <2>1. /\ L # 0 /\ UNCHANGED <<src, catalog>>
          /\ bstat' = [bstat EXCEPT ![b] = [total |-> IF chk = 0 THEN d
                                                      ELSE bstat[b].total + d,
                                            chk |-> L]]
        BY <1>5 DEF BasicFold, tokenVars
    <2>2. src \in Seq(Tokens) /\ chk \in Nat /\ bstat[b].total \in Nat
        BY <1>0 DEF TypeOK
    <2>3. L \in 0..Len(src) /\ \A i \in T : i <= L
        BY <2>1, <2>2, LastOfMax
    <2>4. /\ BasicRange(b, chk, L) = Cut(T, chk, L)
          /\ BasicRange(b, 0, chk) = Cut(T, 0, chk)
          /\ BasicRange(b, 0, L) = Cut(T, 0, L)
          /\ T \in SUBSET Nat /\ IsFiniteSet(T)
        BY <2>2, BasicRangeIsCut
    <2>5. bstat[b].total <= Cardinality(Cut(T, 0, chk))
        BY <2>4 DEF BasicInv, BasicNoOverCount
    <2>6. /\ bstat[b].total + Cardinality(Cut(T, chk, L)) <= Cardinality(Cut(T, 0, L))
          /\ Cardinality(Cut(T, chk, L)) <= Cardinality(Cut(T, 0, L))
        <3>1. bstat[b].total + Cardinality(Cut(T, chk, L)) <= Cardinality(Cut(T, 0, L))
            BY <2>2, <2>3, <2>4, <2>5, CutFold
        <3>2. Cardinality(Cut(T, chk, L)) \in Nat /\ Cardinality(Cut(T, 0, L)) \in Nat
            BY <2>4, CutSub DEF Cut
        <3>3. QED
            BY <2>2, <3>1, <3>2
    <2>7. (bstat[b].total <= Cardinality(BasicRange(b, 0, bstat[b].chk)))'
        <3>1. bstat'[b].chk = L /\ bstat'[b].total <= Cardinality(Cut(T, 0, L))
            BY <1>0, <2>1, <2>4, <2>6 DEF TypeOK
        <3>2. \A h \in Nat : BasicRange(b, 0, h)' = BasicRange(b, 0, h)
            BY <2>1 DEF BasicRange, AssetsOf
        <3>3. QED
            BY <2>3, <2>4, <3>1, <3>2
    <2>8. ASSUME NEW c \in Basics, c # b
          PROVE  (bstat[c].total <= Cardinality(BasicRange(c, 0, bstat[c].chk)))'
        <3>1. bstat'[c] = bstat[c]
            BY <1>0, <2>1, <2>8 DEF TypeOK
        <3>2. \A h \in Nat : BasicRange(c, 0, h)' = BasicRange(c, 0, h)
            BY <2>1 DEF BasicRange, AssetsOf
        <3>3. bstat[c].chk \in Nat
            BY <1>0 DEF TypeOK
        <3>4. QED
            BY <3>1, <3>2, <3>3 DEF BasicInv, BasicNoOverCount
    <2>9. \A c \in Basics : bstat'[c].chk <= Len(src')
        BY <1>0, <2>1, <2>3 DEF BasicInv, TypeOK
    <2>10. QED
        BY <1>0, <2>7, <2>8, <2>9 DEF BasicInv, BasicNoOverCount
<1>6. CASE UNCHANGED vars
    BY <1>0, <1>6, BasicKeeps DEF vars, tokenVars, basicVars
<1>7. QED
    BY <1>1, <1>2, <1>3, <1>4, <1>5, <1>6 DEF Next, Environment, BasicPass

(***************************************************************************)
(* computeTokenBasicStats never folds a src transfer into a TotalCount     *)
(* twice, whatever GetLastSrcTransferForToken, the aggregate and the       *)
(* update do, for every set of tokens and basics and every bound.          *)
(***************************************************************************)
THEOREM BasicNoOverCountHolds == Spec => []BasicNoOverCount
<1>1. BasicInv => BasicNoOverCount
    BY DEF BasicInv
<1>2. QED
    BY <1>1, InitBasicInv, BasicStep, PTL DEF Spec

-----------------------------------------------------------------------------
(* CheckpointsNeverRegress.                                                *)
(*                                                                         *)
(* The in and out checkpoints a fold stores are the high-water ids read at *)
(* the start of the pass, so they are never below a stored checkpoint as   *)
(* long as every stored checkpoint is at most the high-water id: that is   *)
(* InChkBound for the in side and OutChkBound below for the out side.  The *)
(* basic checkpoint a fold stores is the last transfer of the basic, which *)
(* only grows, so BasicChkBound (a stored StatsUpdateTime is at most that  *)
(* last transfer) is what keeps it from moving back.                       *)
(***************************************************************************)

\* The largest element of a set of ids, 0 for none (GetLastSrcTransferForToken).
Top(S) == IF S = {} THEN 0 ELSE CHOOSE i \in S : \A j \in S : j <= i

OutChkBound ==
    /\ \A t \in Tokens : stat[t].outChk <= Len(src)
    /\ pc = "fold" => /\ nowOut <= Len(src)
                      /\ \A t \in Tokens : stat[t].outChk <= nowOut

BasicChkBound == \A b \in Basics : bstat[b].chk <= LastOf(b)

LEMMA TopMax ==
    ASSUME NEW S \in SUBSET Nat, NEW n \in Nat, \A i \in S : i <= n
    PROVE  /\ Top(S) \in Nat
           /\ S # {} => Top(S) \in S /\ \A i \in S : i <= Top(S)
<1>1. CASE S = {}
    BY <1>1 DEF Top
<1>2. CASE S # {}
    <2>1. \E m \in S : \A i \in S : i <= m
        BY <1>2, NatMax, Zenon
    <2>2. QED
        BY <1>2, <2>1 DEF Top
<1>3. QED
    BY <1>1, <1>2

\* The last transfer of a basic only grows as transfers and tokens arrive.
LEMMA LastOfGrows ==
    ASSUME TypeOK, NEW b,
           \/ \E t \in Tokens : src' = Append(src, t) /\ catalog' = catalog
           \/ src' = src /\ catalog \subseteq catalog'
    PROVE  /\ LastOf(b) \in Nat /\ LastOf(b)' \in Nat
           /\ LastOf(b) <= LastOf(b)'
<1>1. BasicIds(b) \subseteq BasicIds(b)' /\ src' \in Seq(Tokens)
    BY BasicIdsGrow
<1>2. LastOf(b) = Top(BasicIds(b)) /\ LastOf(b)' = Top(BasicIds(b)')
    <2>1. BasicRange(b, 0, Len(src)) = BasicIds(b)
        BY DEF BasicRange, BasicIds, TypeOK
    <2>2. BasicRange(b, 0, Len(src))' = BasicIds(b)'
        BY <1>1 DEF BasicRange, BasicIds
    <2>3. LastOf(b) = Top(BasicRange(b, 0, Len(src)))
        BY DEF LastOf, Top
    <2>4. LastOf(b)' = Top(BasicRange(b, 0, Len(src))')
        BY DEF LastOf, Top
    <2>5. QED
        BY <2>1, <2>2, <2>3, <2>4
<1>3. /\ BasicIds(b) \in SUBSET Nat /\ Len(src) \in Nat
      /\ \A i \in BasicIds(b) : i <= Len(src)
    BY DEF BasicIds, TypeOK
<1>4. /\ BasicIds(b)' \in SUBSET Nat /\ Len(src') \in Nat
      /\ \A i \in BasicIds(b)' : i <= Len(src')
    BY <1>1 DEF BasicIds
<1>5. /\ Top(BasicIds(b)) \in Nat
      /\ BasicIds(b) # {} => Top(BasicIds(b)) \in BasicIds(b)
    BY <1>3, TopMax
<1>6. /\ Top(BasicIds(b)') \in Nat
      /\ BasicIds(b)' # {} => \A i \in BasicIds(b)' : i <= Top(BasicIds(b)')
    BY <1>4, TopMax
<1>7. Top(BasicIds(b)) <= Top(BasicIds(b)')
    <2>1. CASE BasicIds(b) = {}
        BY <1>6, <2>1 DEF Top
    <2>2. CASE BasicIds(b) # {}
        BY <1>1, <1>5, <1>6, <2>2
    <2>3. QED
        BY <2>1, <2>2
<1>8. QED
    BY <1>2, <1>5, <1>6, <1>7

LEMMA OutStep == TypeOK /\ OutChkBound /\ [Next]_vars => OutChkBound'
<1> SUFFICES ASSUME TypeOK, OutChkBound, [Next]_vars PROVE OutChkBound'
    OBVIOUS
<1>0. /\ TypeOK'
      /\ \A u \in Tokens : stat[u].outChk \in Nat
      /\ nowOut \in Nat /\ Len(src) \in Nat
    BY NextTypeOK DEF TypeOK, Row
<1>1. ASSUME NEW t \in Tokens, AddSrc(t) PROVE OutChkBound'
    <2>1. UNCHANGED <<stat, pc, nowOut>> /\ Len(src') = Len(src) + 1
        BY <1>1 DEF AddSrc, TypeOK
    <2>2. QED
        BY <1>0, <2>1 DEF OutChkBound
<1>2. ASSUME (\E t \in Tokens : AddDst(t) \/ AddToken(t) \/ SkipToken(t) \/ SaveFails(t))
             \/ EndPass
      PROVE  OutChkBound'
    <2>1. UNCHANGED <<src, stat, nowOut>> /\ pc' \in {pc, "idle"}
        BY <1>2 DEF AddDst, AddToken, SkipToken, SaveFails, EndPass
    <2>2. QED
        BY <2>1 DEF OutChkBound
<1>3. CASE StartPass
    BY <1>3 DEF StartPass, OutChkBound
<1>4. ASSUME NEW t \in Tokens, NEW inOk \in BOOLEAN, NEW outOk \in BOOLEAN,
             FoldToken(t, inOk, outOk)
      PROVE  OutChkBound'
    <2>1. /\ pc = "fold" /\ pc' = "fold" /\ UNCHANGED <<src, nowOut>>
          /\ stat'[t].outChk = nowOut
          /\ \A u \in Tokens \ {t} : stat'[u] = stat[u]
        BY <1>4 DEF FoldToken, TypeOK
    <2>2. nowOut <= Len(src) /\ \A u \in Tokens : stat[u].outChk <= nowOut
        BY <2>1 DEF OutChkBound
    <2>3. \A u \in Tokens : stat'[u].outChk <= nowOut
        BY <1>0, <2>1, <2>2
    <2>4. QED
        BY <1>0, <2>1, <2>2, <2>3 DEF OutChkBound
<1>5. CASE BasicPass /\ UNCHANGED tokenVars
    BY <1>5 DEF tokenVars, OutChkBound
<1>6. CASE UNCHANGED vars
    BY <1>6 DEF vars, tokenVars, OutChkBound
<1>7. QED
    BY <1>1, <1>2, <1>3, <1>4, <1>5, <1>6 DEF Next, Environment, Pass

LEMMA BasicChkStep == TypeOK /\ BasicChkBound /\ [Next]_vars => BasicChkBound'
<1> SUFFICES ASSUME TypeOK, BasicChkBound, [Next]_vars PROVE BasicChkBound'
    OBVIOUS
<1>0. TypeOK' /\ \A b \in Basics : bstat[b].chk \in Nat
    BY NextTypeOK DEF TypeOK
\* A step that keeps bstat and only lets transfers and tokens arrive.
<1>1. ASSUME UNCHANGED bstat,
             \/ \E t \in Tokens : src' = Append(src, t) /\ catalog' = catalog
             \/ src' = src /\ catalog \subseteq catalog'
      PROVE  BasicChkBound'
    <2> SUFFICES ASSUME NEW b \in Basics PROVE bstat'[b].chk <= LastOf(b)'
        BY DEF BasicChkBound
    <2>1. LastOf(b) \in Nat /\ LastOf(b)' \in Nat /\ LastOf(b) <= LastOf(b)'
        <3>1. TypeOK
            OBVIOUS
        <3>2. QED
            BY <1>1, <3>1, LastOfGrows
    <2>2. bstat'[b].chk = bstat[b].chk /\ bstat[b].chk \in Nat
        BY <1>0, <1>1
    <2>3. bstat[b].chk <= LastOf(b)
        BY DEF BasicChkBound
    <2>4. QED
        BY <2>1, <2>2, <2>3
<1>2. ASSUME NEW t \in Tokens, AddSrc(t) \/ AddToken(t), UNCHANGED basicVars
      PROVE  BasicChkBound'
    BY <1>1, <1>2 DEF AddSrc, AddToken, basicVars
<1>3. ASSUME (\E t \in Tokens : AddDst(t)) \/ Pass, UNCHANGED basicVars
      PROVE  BasicChkBound'
    <2>1. UNCHANGED <<src, catalog, bstat>>
        BY <1>3 DEF AddDst, Pass, StartPass, SkipToken, FoldToken, SaveFails, EndPass,
                    basicVars
    <2>2. QED
        BY <1>1, <2>1
<1>4. ASSUME BasicStart \/ BasicEnd \/ \E b \in Basics : BasicSkip(b),
             UNCHANGED tokenVars
      PROVE  BasicChkBound'
    <2>1. UNCHANGED <<src, catalog, bstat>>
        BY <1>4 DEF BasicStart, BasicEnd, BasicSkip, tokenVars
    <2>2. QED
        BY <1>1, <2>1
<1>5. ASSUME NEW b \in Basics, BasicFold(b), UNCHANGED tokenVars
      PROVE  BasicChkBound'
    <2>1. /\ UNCHANGED <<src, catalog>>
          /\ bstat'[b].chk = LastOf(b)
          /\ \A c \in Basics \ {b} : bstat'[c] = bstat[c]
        BY <1>5 DEF BasicFold, tokenVars, TypeOK
    <2>2. \A c \in Basics : LastOf(c)' = LastOf(c)
        BY <2>1 DEF LastOf, BasicRange, AssetsOf
    <2>3. LastOf(b) \in Nat
        BY LastOfMax DEF TypeOK
    <2>4. ASSUME NEW c \in Basics PROVE bstat'[c].chk <= LastOf(c)'
        <3>1. CASE c = b
            BY <2>1, <2>2, <2>3, <3>1
        <3>2. CASE c # b
            BY <1>0, <2>1, <2>2, <3>2 DEF BasicChkBound
        <3>3. QED
            BY <3>1, <3>2
    <2>5. QED
        BY <2>4 DEF BasicChkBound
<1>6. CASE UNCHANGED vars
    BY <1>1, <1>6 DEF vars, tokenVars, basicVars
<1>7. QED
    BY <1>2, <1>3, <1>4, <1>5, <1>6 DEF Next, Environment, BasicPass

LEMMA InitChkBounds == Init => OutChkBound /\ BasicChkBound
<1> SUFFICES ASSUME Init PROVE OutChkBound /\ BasicChkBound
    OBVIOUS
<1>1. OutChkBound
    BY DEF Init, ZeroRow, OutChkBound
<1>2. \A b \in Basics : LastOf(b) \in Nat
    BY LastOfMax DEF Init
<1>3. QED
    BY <1>1, <1>2 DEF Init, BasicChkBound

\* Every step of the model keeps or raises every checkpoint.
LEMMA AdvanceStep ==
    InInv /\ OutChkBound /\ BasicChkBound /\ [Next]_vars => [CheckpointsAdvance]_vars
<1> SUFFICES ASSUME InInv, OutChkBound, BasicChkBound, [Next]_vars
             PROVE  [CheckpointsAdvance]_vars
    OBVIOUS
<1>0. /\ \A u \in Tokens : stat[u].inChk \in Nat /\ stat[u].outChk \in Nat
      /\ \A c \in Basics : bstat[c].chk \in Nat
      /\ nowIn \in Nat /\ nowOut \in Nat
    BY DEF InInv, TypeOK, Row
<1>1. ASSUME UNCHANGED <<stat, bstat>> PROVE [CheckpointsAdvance]_vars
    BY <1>0, <1>1 DEF CheckpointsAdvance
<1>2. ASSUME NEW t \in Tokens, NEW inOk \in BOOLEAN, NEW outOk \in BOOLEAN,
             FoldToken(t, inOk, outOk), UNCHANGED basicVars
      PROVE  [CheckpointsAdvance]_vars
    <2>1. /\ pc = "fold"
          /\ stat'[t].inChk = nowIn /\ stat'[t].outChk = nowOut
          /\ \A u \in Tokens \ {t} : stat'[u] = stat[u]
          /\ UNCHANGED bstat
        BY <1>2 DEF FoldToken, basicVars, InInv, TypeOK
    <2>2. stat[t].inChk <= nowIn /\ stat[t].outChk <= nowOut
        BY <2>1 DEF InInv, InChkBound, OutChkBound
    <2>3. QED
        BY <1>0, <2>1, <2>2 DEF CheckpointsAdvance
<1>3. ASSUME NEW b \in Basics, BasicFold(b), UNCHANGED tokenVars
      PROVE  [CheckpointsAdvance]_vars
    <2>1. /\ bstat'[b].chk = LastOf(b)
          /\ \A c \in Basics \ {b} : bstat'[c] = bstat[c]
          /\ UNCHANGED stat
        <3>1. bstat' = [bstat EXCEPT ![b] = [total |-> bstat'[b].total, chk |-> LastOf(b)]]
            BY <1>3 DEF BasicFold
        <3>2. bstat \in [Basics -> [total : Nat, chk : Nat]]
            BY DEF InInv, TypeOK
        <3>3. UNCHANGED stat
            BY <1>3 DEF tokenVars
        <3>4. QED
            BY <3>1, <3>2, <3>3
    <2>2. bstat[b].chk <= LastOf(b)
        BY DEF BasicChkBound
    <2>3. QED
        BY <1>0, <2>1, <2>2 DEF CheckpointsAdvance
<1>4. ASSUME \/ \E t \in Tokens : AddDst(t) \/ AddSrc(t) \/ AddToken(t)
                                  \/ SkipToken(t) \/ SaveFails(t)
             \/ StartPass \/ EndPass,
             UNCHANGED basicVars
      PROVE  [CheckpointsAdvance]_vars
    <2>1. UNCHANGED <<stat, bstat>>
        BY <1>4 DEF AddDst, AddSrc, AddToken, SkipToken, SaveFails, StartPass, EndPass,
                    basicVars
    <2>2. QED
        BY <1>1, <2>1
<1>5. ASSUME BasicStart \/ BasicEnd \/ \E b \in Basics : BasicSkip(b),
             UNCHANGED tokenVars
      PROVE  [CheckpointsAdvance]_vars
    <2>1. UNCHANGED <<stat, bstat>>
        BY <1>5 DEF BasicStart, BasicEnd, BasicSkip, tokenVars
    <2>2. QED
        BY <1>1, <2>1
<1>6. CASE UNCHANGED vars
    BY <1>6
<1>7. QED
    BY <1>2, <1>3, <1>4, <1>5, <1>6 DEF Next, Environment, Pass, BasicPass

(***************************************************************************)
(* Checkpoints never move back, for every set of tokens and basics and     *)
(* every bound, whatever fails: a fold of computeTokenStatistics stores    *)
(* the high-water ids read at the start of its pass, never below a stored  *)
(* LastInCheckId or LastOutCheckId, and a fold of computeTokenBasicStats   *)
(* stores the basic's last transfer, never below its StatsUpdateTime.      *)
(***************************************************************************)
THEOREM CheckpointsNeverRegressHolds == Spec => CheckpointsNeverRegress
<1>1. Init => InInv /\ OutChkBound /\ BasicChkBound
    BY InitInInv, InitChkBounds
<1>2. InInv /\ OutChkBound /\ BasicChkBound /\ [Next]_vars
        => (InInv /\ OutChkBound /\ BasicChkBound)'
    BY InStep, OutStep, BasicChkStep DEF InInv
<1>3. QED
    BY <1>1, <1>2, AdvanceStep, PTL DEF Spec, CheckpointsNeverRegress

-----------------------------------------------------------------------------
(* InCounterSpec: the in side of computeTokenStatistics implements the     *)
(* checkpointed counter.  A dst_transfers insert is the counter's Publish, *)
(* a fold of a row off the home chain its Fold (or, when                  *)
(* CalculateInTokenStatistics failed, its lossy Skip) to the high-water id *)
(* nowIn, and every other step a stutter.  Besides InInv the mapping needs *)
(* that a running pass read a non-empty dst_transfers (StartPass returns   *)
(* on an empty one), so that nowIn is an observed id.                      *)
(***************************************************************************)

NowInRead == pc = "fold" => 1 <= nowIn

RInv == InInv /\ NowInRead

LEMMA InitRInv == Init => RInv
BY InitInInv DEF Init, RInv, NowInRead

LEMMA RInvStep == RInv /\ [Next]_vars => RInv'
<1> SUFFICES ASSUME RInv, [Next]_vars PROVE RInv'
    OBVIOUS
<1>1. InInv'
    BY InStep DEF RInv
<1>2. ASSUME StartPass PROVE NowInRead'
    <2>1. dst \in Seq(Tokens) /\ dst # <<>>
        BY <1>2 DEF StartPass, RInv, InInv, TypeOK
    <2>2. Len(dst) >= 1
        BY <2>1
    <2>3. QED
        BY <1>2, <2>2 DEF StartPass, NowInRead
<1>3. ASSUME ~StartPass PROVE NowInRead'
    <2>1. nowIn' = nowIn /\ (pc' = "fold" => pc = "fold")
        BY <1>3 DEF Next, Environment, Pass, BasicPass, AddDst, AddSrc, AddToken,
                    SkipToken, FoldToken, SaveFails, EndPass, BasicStart, BasicSkip,
                    BasicFold, BasicEnd, vars, tokenVars, basicVars
    <2>2. QED
        BY <2>1 DEF RInv, NowInRead
<1>4. QED
    BY <1>1, <1>2, <1>3 DEF RInv

\* The counter's Cardinality is the one of FiniteSets.
LEMMA InCardSame == \A S : InCounter!Cardinality(S) = Cardinality(S)
BY DEF InCounter!Cardinality, Cardinality

\* The counter's delta is the range CalculateInTokenStatistics counts.
LEMMA InDelta ==
    ASSUME TypeOK, NEW t, NEW lo, NEW hi
    PROVE  InCounter!Delta(t, lo, hi) = IdRange(dst, t, lo, hi)
BY DEF InCounter!Delta, InLedger, IdRange, TypeOK

\* The row a fold starts from is the counter's Current row.
LEMMA InCurrent ==
    ASSUME TypeOK, NEW t \in Tokens \ Home
    PROVE  InCounter!Current(t) =
               [present |-> TRUE, cnt |-> Base(t).inCnt, chk |-> Base(t).inChk]
BY DEF InCounter!Current, InCounter!Fresh, InRow, Base, ZeroRow, TypeOK, Row

\* An insert into dst_transfers appends one visible entry to the ledger.
LEMMA InLedgerAppend ==
    ASSUME TypeOK, NEW t \in Tokens, dst' = Append(dst, t)
    PROVE  /\ InLedger' = Append(InLedger, [name |-> t])
           /\ Len(InLedger) = Len(dst)
           /\ 1..Len(dst') = (1..Len(dst)) \cup {Len(dst) + 1}
<1>1. InLedger \in Seq([name : Tokens]) /\ Len(InLedger) = Len(dst)
    BY DEF InLedger, TypeOK
<1>2. Len(dst') = Len(dst) + 1 /\ \A i \in 1..Len(dst) : dst'[i] = dst[i]
      /\ dst'[Len(dst) + 1] = t
    BY DEF TypeOK
<1>3. InLedger' = [i \in 1..Len(dst) + 1 |-> [name |-> dst'[i]]]
    BY <1>2 DEF InLedger
<1>4. Append(InLedger, [name |-> t]) = [i \in 1..Len(dst) + 1 |-> [name |-> dst'[i]]]
    BY <1>1, <1>2 DEF InLedger, TypeOK
<1>5. 1..Len(dst') = (1..Len(dst)) \cup {Len(dst) + 1}
    <2>1. Len(dst) \in Nat
        BY DEF TypeOK
    <2>2. QED
        BY <1>2, <2>1
<1>6. QED
    BY <1>1, <1>3, <1>4, <1>5

\* A save of row t off the home chain is the counter's update of row t.
LEMMA InRowUpdate ==
    ASSUME TypeOK, NEW t \in Tokens \ Home, NEW r, stat' = [stat EXCEPT ![t] = r]
    PROVE  InRow' = [InRow EXCEPT ![t] = [present |-> r.present, cnt |-> r.inCnt,
                                          chk |-> r.inChk]]
BY DEF InRow, TypeOK

\* A fold of row t off the home chain is the counter's Fold or Skip to nowIn.
LEMMA InFoldStep ==
    ASSUME RInv, NEW t \in Tokens \ Home, NEW inOk \in BOOLEAN, NEW outOk \in BOOLEAN,
           FoldToken(t, inOk, outOk)
    PROVE  \/ InCounter!Fold(t, nowIn)
           \/ InCounter!Skip(t, nowIn)
<1>0. TypeOK
    BY DEF RInv, InInv
<1> DEFINE c == InCounter!Current(t)
           r == [present |-> TRUE, inCnt |-> InAfter(t, inOk),
                 outCnt |-> Base(t).outCnt +
                     (IF outOk THEN Cardinality(IdRange(src, t, Base(t).inChk, nowIn))
                      ELSE 0),
                 inChk |-> nowIn, outChk |-> nowOut]
<1>1. stat' = [stat EXCEPT ![t] = r] /\ UNCHANGED dst /\ pc = "fold"
    BY DEF FoldToken
<1>2. c = [present |-> TRUE, cnt |-> Base(t).inCnt, chk |-> Base(t).inChk]
    BY <1>0, InCurrent
<1>3. nowIn \in 1..Len(dst)
    <2>1. 1 <= nowIn
        BY <1>0, <1>1 DEF RInv, NowInRead
    <2>2. nowIn <= Len(dst)
        BY <1>0, <1>1 DEF RInv, InInv, InChkBound
    <2>3. nowIn \in Nat /\ Len(dst) \in Nat
        BY <1>0 DEF RInv, InInv, TypeOK
    <2>4. QED
        BY <2>1, <2>2, <2>3
<1>4. Base(t).inChk <= nowIn
    <2>1. nowIn \in Nat
        BY <1>0 DEF TypeOK
    <2>2. CASE stat[t].present
        <3>1. stat[t].inChk <= nowIn
            BY <1>1 DEF RInv, InInv, InChkBound
        <3>2. QED
            BY <2>2, <3>1 DEF Base
    <2>3. CASE ~stat[t].present
        BY <2>1, <2>3 DEF Base, ZeroRow
    <2>4. QED
        BY <2>2, <2>3
<1>5. InRow' = [InRow EXCEPT ![t] = [present |-> TRUE, cnt |-> InAfter(t, inOk),
                                     chk |-> nowIn]]
    BY <1>0, <1>1, InRowUpdate
<1>6. InCounter!Delta(t, Base(t).inChk, nowIn) = IdRange(dst, t, Base(t).inChk, nowIn)
    BY <1>0, InDelta
<1>7. CASE inOk
    <2>1. InAfter(t, inOk) = c.cnt + InCounter!Cardinality(InCounter!Delta(t, c.chk, nowIn))
        BY <1>2, <1>6, <1>7, InCardSame DEF InAfter
    <2>2. InCounter!Fold(t, nowIn)
        BY <1>1, <1>2, <1>3, <1>4, <1>5, <2>1 DEF InCounter!Fold, InLedger
    <2>3. QED
        BY <2>2
<1>8. CASE ~inOk
    <2>1. Faults
        BY <1>8 DEF FoldToken
    <2>2. InAfter(t, inOk) = c.cnt
        BY <1>2, <1>8 DEF InAfter
    <2>3. InCounter!Skip(t, nowIn)
        BY <1>1, <1>2, <1>3, <1>4, <1>5, <2>1, <2>2 DEF InCounter!Skip, InLedger
    <2>4. QED
        BY <2>3
<1>9. QED
    BY <1>7, <1>8

LEMMA InRefinementStep == RInv /\ [Next]_vars => [InCounter!Next]_(InCounter!cvars)
<1> SUFFICES ASSUME RInv, [Next]_vars PROVE [InCounter!Next]_(InCounter!cvars)
    OBVIOUS
<1>0. TypeOK
    BY DEF RInv, InInv
\* Steps that leave dst_transfers and the in side of every row alone.
<1>1. ASSUME UNCHANGED <<dst, stat>> PROVE [InCounter!Next]_(InCounter!cvars)
    BY <1>1 DEF InCounter!cvars, InLedger, InRow
<1>2. ASSUME NEW t \in Tokens, AddDst(t) PROVE [InCounter!Next]_(InCounter!cvars)
    <2>1. /\ InLedger' = Append(InLedger, [name |-> t])
          /\ Len(InLedger) = Len(dst)
          /\ 1..Len(dst') = (1..Len(dst)) \cup {Len(dst) + 1}
        BY <1>0, <1>2, InLedgerAppend DEF AddDst
    <2>2. InCounter!Publish([name |-> t])
        BY <1>2, <2>1 DEF AddDst, InCounter!Publish, InRow
    <2>3. QED
        BY <2>2 DEF InCounter!Next
<1>3. ASSUME NEW t \in Tokens, NEW inOk \in BOOLEAN, NEW outOk \in BOOLEAN,
             FoldToken(t, inOk, outOk)
      PROVE  [InCounter!Next]_(InCounter!cvars)
    <2>1. CASE t \in Home
        <3>1. UNCHANGED <<dst>> /\ \A u \in Tokens \ Home : stat'[u] = stat[u]
            BY <1>0, <1>3, <2>1 DEF FoldToken, TypeOK
        <3>2. QED
            BY <3>1 DEF InCounter!cvars, InLedger, InRow
    <2>2. CASE t \notin Home
        <3>1. InCounter!Fold(t, nowIn) \/ InCounter!Skip(t, nowIn)
            BY <1>3, <2>2, InFoldStep
        <3>2. nowIn \in 1..MaxIds
            <4>1. pc = "fold"
                BY <1>3 DEF FoldToken
            <4>2. 1 <= nowIn /\ nowIn <= Len(dst)
                BY <1>0, <4>1 DEF RInv, NowInRead, InInv, InChkBound
            <4>3. nowIn \in Nat /\ Len(dst) <= MaxIds /\ Len(dst) \in Nat
                BY <1>0 DEF RInv, InInv, TypeOK
            <4>4. QED
                BY <4>2, <4>3
        <3>3. QED
            BY <2>2, <3>1, <3>2 DEF InCounter!Next
    <2>3. QED
        BY <2>1, <2>2
<1>4. QED
    BY <1>1, <1>2, <1>3
    DEF Next, Environment, Pass, BasicPass, AddSrc, AddToken, StartPass, SkipToken,
        SaveFails, EndPass, BasicStart, BasicSkip, BasicFold, BasicEnd,
        vars, tokenVars, basicVars

(***************************************************************************)
(* computeTokenStatistics implements a checkpointed in counter, for every  *)
(* set of tokens and every bound, with failures (the lossy counter) or     *)
(* without: every save of a row off the home chain adds to InCounter the   *)
(* in transfers between LastInCheckId and the high-water id nowInId, or   *)
(* nothing when the in query failed, and moves LastInCheckId to nowInId.   *)
(***************************************************************************)
THEOREM InRefinement == Spec => InCounterSpec
<1>1. Init => InCounter!Init
    BY DEF Init, InCounter!Init, InCounter!Fresh, InLedger, InRow, ZeroRow
<1>2. Spec => []RInv
    BY InitRInv, RInvStep, PTL DEF Spec
<1>3. QED
    BY <1>1, <1>2, InRefinementStep, PTL DEF Spec, InCounterSpec, InCounter!Spec

=============================================================================
