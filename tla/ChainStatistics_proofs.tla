----------------------- MODULE ChainStatistics_proofs -----------------------
(***************************************************************************)
(* Machine-checked proofs about the fold of the chain-statistics pass,     *)
(* for every set of chains and bound, overlapping or not.                  *)
(***************************************************************************)
EXTENDS ChainStatistics, LedgerRanges

-----------------------------------------------------------------------------
(* The id ranges of the delta queries as Cuts of LedgerRanges.            *)

\* The ids of chain c in a transaction ledger.
IdsOf(ledger, c) == {i \in 1..Len(ledger) : ledger[i] = c}

LEMMA RangeIsCut ==
    ASSUME NEW ledger \in Seq(Ordinary), NEW c, NEW lo \in Nat, NEW hi \in Nat
    PROVE  /\ IdRange(ledger, c, lo, hi) = Cut(IdsOf(ledger, c), lo, hi)
           /\ IdsOf(ledger, c) \in SUBSET Nat
           /\ IsFiniteSet(IdsOf(ledger, c))
           /\ \A t \in IdsOf(ledger, c) : t <= Len(ledger)
<1>1. IsFiniteSet(1..Len(ledger))
    BY FS_Interval
<1>2. QED
    BY <1>1, FS_Subset DEF IdRange, Cut, IdsOf

LEMMA PolyIsCut ==
    ASSUME polyTx \in Nat, NEW lo, NEW hi
    PROVE  /\ PolyCount(lo, hi) = Cardinality(Cut(1..polyTx, lo, hi))
           /\ IsFiniteSet(1..polyTx)
BY FS_Interval DEF PolyCount, Cut

(***************************************************************************)
(* Folding the delta (lo, Len] of a ledger onto a count of at most (0, lo] *)
(* gives a count of at most (0, Len]: the step of an ordinary row.         *)
(***************************************************************************)
LEMMA RangeFold ==
    ASSUME NEW ledger \in Seq(Ordinary), NEW c, NEW lo \in Nat, NEW k \in Nat,
           k <= Cardinality(IdRange(ledger, c, 0, lo))
    PROVE  k + Cardinality(IdRange(ledger, c, lo, Len(ledger)))
             <= Cardinality(IdRange(ledger, c, 0, Len(ledger)))
<1>1. /\ IdRange(ledger, c, 0, lo) = Cut(IdsOf(ledger, c), 0, lo)
      /\ IdRange(ledger, c, lo, Len(ledger)) = Cut(IdsOf(ledger, c), lo, Len(ledger))
      /\ IdRange(ledger, c, 0, Len(ledger)) = Cut(IdsOf(ledger, c), 0, Len(ledger))
      /\ IdsOf(ledger, c) \in SUBSET Nat
      /\ IsFiniteSet(IdsOf(ledger, c))
      /\ \A t \in IdsOf(ledger, c) : t <= Len(ledger)
    BY RangeIsCut
<1>2. Cardinality(Cut(IdsOf(ledger, c), 0, lo))
        + Cardinality(Cut(IdsOf(ledger, c), lo, Len(ledger)))
      = Cardinality(Cut(IdsOf(ledger, c), 0, Len(ledger)))
    BY <1>1, CutSplit
<1>3. Cardinality(Cut(IdsOf(ledger, c), lo, Len(ledger))) \in Nat
      /\ Cardinality(Cut(IdsOf(ledger, c), 0, lo)) \in Nat
    BY <1>1, CutSub DEF Cut
<1>4. QED
    BY <1>1, <1>2, <1>3

\* The same for the poly row and the poly ledger 1..polyTx.
LEMMA PolyFold ==
    ASSUME polyTx \in Nat, NEW lo \in Nat, NEW k \in Nat, k <= PolyCount(0, lo)
    PROVE  k + PolyCount(lo, polyTx) <= PolyCount(0, polyTx)
<1>1. /\ PolyCount(0, lo) = Cardinality(Cut(1..polyTx, 0, lo))
      /\ PolyCount(lo, polyTx) = Cardinality(Cut(1..polyTx, lo, polyTx))
      /\ PolyCount(0, polyTx) = Cardinality(Cut(1..polyTx, 0, polyTx))
      /\ IsFiniteSet(1..polyTx)
    BY PolyIsCut
<1>2. Cardinality(Cut(1..polyTx, 0, lo)) + Cardinality(Cut(1..polyTx, lo, polyTx))
      = Cardinality(Cut(1..polyTx, 0, polyTx))
    BY <1>1, CutSplit
<1>3. Cardinality(Cut(1..polyTx, lo, polyTx)) \in Nat
      /\ Cardinality(Cut(1..polyTx, 0, lo)) \in Nat
    BY <1>1, CutSub DEF Cut
<1>4. QED
    BY <1>1, <1>2, <1>3

-----------------------------------------------------------------------------
(* Type correctness.                                                       *)

USE ChainsAssumption, BoundsAssumption

\* Setting the counters and checkpoints of a row to naturals gives a row.
LEMMA RowUpdate ==
    ASSUME NEW x \in Row, NEW a \in Nat, NEW b \in Nat, NEW i \in Nat, NEW o \in Nat
    PROVE  [x EXCEPT !.in = a, !.out = b, !.inChk = i, !.outChk = o] \in Row
BY DEF Row

\* Setting the Addresses of a row to a natural gives a row.
LEMMA RowAddresses ==
    ASSUME NEW x \in Row, NEW v \in Nat
    PROVE  [x EXCEPT !.addresses = v] \in Row
BY DEF Row

LEMMA CountsNat ==
    ASSUME TypeOK, NEW c, NEW lo, NEW hi
    PROVE  /\ Cardinality(IdRange(dstTx, c, lo, hi)) \in Nat
           /\ Cardinality(IdRange(srcTx, c, lo, hi)) \in Nat
           /\ PolyCount(lo, hi) \in Nat
<1>1. /\ IsFiniteSet(1..Len(dstTx))
      /\ IsFiniteSet(1..Len(srcTx))
      /\ IsFiniteSet(1..polyTx)
    BY FS_Interval DEF TypeOK
<1>2. QED
    BY <1>1, CutSub DEF IdRange, PolyCount

LEMMA RowsOfType ==
    ASSUME TypeOK, NEW nowIn \in Nat, NEW nowOut \in Nat
    PROVE  RowsOf(nowIn, nowOut) \in [Chains -> Row]
BY DEF TypeOK, RowsOf, Row, Absent

LEMMA FoldedType ==
    ASSUME TypeOK, NEW r \in [Chains -> Row], NEW gIn, NEW gOut,
           NEW nowIn \in Nat, NEW nowOut \in Nat,
           NEW inOk, NEW outOk, NEW polyOk
    PROVE  Folded(r, gIn, gOut, nowIn, nowOut, inOk, outOk, polyOk) \in [Chains -> Row]
<1> SUFFICES ASSUME NEW c \in Chains
             PROVE  Folded(r, gIn, gOut, nowIn, nowOut, inOk, outOk, polyOk)[c] \in Row
    BY DEF Folded
<1>1. /\ Cardinality(IdRange(dstTx, c, gIn, nowIn)) \in Nat
      /\ Cardinality(IdRange(srcTx, c, gOut, nowOut)) \in Nat
      /\ PolyCount(r[c].inChk, polyTx) \in Nat
    BY CountsNat
<1>2. polyTx \in Nat /\ r[c] \in Row
    BY DEF TypeOK
<1> DEFINE f == Folded(r, gIn, gOut, nowIn, nowOut, inOk, outOk, polyOk)[c]
<1>3. CASE ~r[c].present
    <2>1. f = r[c]
        BY <1>3 DEF Folded
    <2>2. QED
        BY <1>2, <2>1
<1>4. CASE r[c].present /\ c # Poly
    <2> DEFINE dIn == IF nowIn > gIn /\ inOk
                      THEN Cardinality(IdRange(dstTx, c, gIn, nowIn)) ELSE 0
               dOut == IF nowOut > gOut /\ outOk
                       THEN Cardinality(IdRange(srcTx, c, gOut, nowOut)) ELSE 0
    <2>1. f = [r[c] EXCEPT !.in = @ + dIn, !.out = @ + dOut,
                           !.inChk = nowIn, !.outChk = nowOut]
        BY <1>4 DEF Folded
    <2>2. dIn \in Nat /\ dOut \in Nat
        BY <1>1
    <2>3. r[c].in + dIn \in Nat /\ r[c].out + dOut \in Nat
        BY <1>2, <2>2 DEF Row
    <2>4. [r[c] EXCEPT !.in = r[c].in + dIn, !.out = r[c].out + dOut,
                       !.inChk = nowIn, !.outChk = nowOut] \in Row
        <3>1. r[c] \in Row
            BY <1>2
        <3>2. QED
            BY <3>1, <2>3, RowUpdate
    <2>5. QED
        BY <2>1, <2>4
<1>5. CASE r[c].present /\ c = Poly /\ polyOk
    <2>1. f = [r[c] EXCEPT !.in = @ + PolyCount(r[c].inChk, polyTx),
                           !.out = @ + PolyCount(r[c].inChk, polyTx),
                           !.inChk = polyTx, !.outChk = polyTx]
        BY <1>5 DEF Folded
    <2>2. r[c].in + PolyCount(r[c].inChk, polyTx) \in Nat
          /\ r[c].out + PolyCount(r[c].inChk, polyTx) \in Nat
        BY <1>1, <1>2 DEF Row
    <2>3. [r[c] EXCEPT !.in = r[c].in + PolyCount(r[c].inChk, polyTx),
                       !.out = r[c].out + PolyCount(r[c].inChk, polyTx),
                       !.inChk = polyTx, !.outChk = polyTx] \in Row
        <3>1. r[c] \in Row
            BY <1>2
        <3>2. QED
            BY <3>1, <2>2, <1>2, RowUpdate
    <2>4. QED
        BY <2>1, <2>3
<1>6. CASE r[c].present /\ c = Poly /\ ~polyOk
    <2>1. f = r[c]
        BY <1>6 DEF Folded
    <2>2. QED
        BY <1>2, <2>1
<1>7. QED
    BY <1>3, <1>4, <1>5, <1>6

\* The Addresses the address pass gives the poly row.
PolyAddr ==
    Cardinality({p \in Ordinary \X (1..MaxAddr) :
                    stat[p[1]].present /\ p[2] <= addr[p[1]]})

LEMMA PolyAddressNat ==
    ASSUME TypeOK
    PROVE  PolyAddr \in Nat
<1>1. IsFiniteSet(Ordinary \X (1..MaxAddr))
    <2>1. IsFiniteSet(Ordinary)
        BY ChainsAssumption, FS_Subset DEF Ordinary
    <2>2. IsFiniteSet(1..MaxAddr)
        BY FS_Interval, BoundsAssumption
    <2>3. QED
        BY <2>1, <2>2, FS_Product
<1>2. QED
    BY <1>1, CutSub DEF PolyAddr

LEMMA InitTypeOK == Init => TypeOK
<1> SUFFICES ASSUME Init PROVE TypeOK
    OBVIOUS
<1>1. Absent \in Row /\ [Absent EXCEPT !.present = TRUE] \in Row
    BY DEF Absent, Row
<1>2. stat \in [Chains -> Row] /\ cbuf \in [Chains -> Row] /\ abuf \in [Chains -> Row]
    BY <1>1 DEF Init
<1>3. addr \in [Ordinary -> 0..MaxAddr]
    BY BoundsAssumption DEF Init
<1>4. dstTx \in Seq(Ordinary) /\ srcTx \in Seq(Ordinary) /\ Len(dstTx) <= MaxTx
      /\ Len(srcTx) <= MaxTx /\ polyTx \in 0..MaxTx
    BY BoundsAssumption DEF Init
<1>5. QED
    BY <1>2, <1>3, <1>4, ChainsAssumption DEF Init, TypeOK

LEMMA NextTypeOK == TypeOK /\ [Next]_vars => TypeOK'
<1> SUFFICES ASSUME TypeOK, [Next]_vars PROVE TypeOK'
    OBVIOUS
<1>1. ASSUME NEW c \in Ordinary, AddDst(c) \/ AddSrc(c) \/ NewAddress(c) PROVE TypeOK'
    <2>1. CASE AddDst(c)
        BY <2>1 DEF AddDst, TypeOK
    <2>2. CASE AddSrc(c)
        BY <2>2 DEF AddSrc, TypeOK
    <2>3. CASE NewAddress(c)
        BY <2>3 DEF NewAddress, TypeOK
    <2>4. QED
        BY <1>1, <2>1, <2>2, <2>3
<1>2. CASE AddPoly
    BY <1>2 DEF AddPoly, TypeOK
<1>3. ASSUME NEW c \in Chains, AddChain(c) PROVE TypeOK'
    BY <1>3 DEF AddChain, TypeOK
<1>4. CASE ChainCompute
    <2> DEFINE nowIn == Len(dstTx)
               nowOut == Len(srcTx)
    <2>1. nowIn \in Nat /\ nowOut \in Nat
        BY DEF TypeOK
    <2>2. RowsOf(nowIn, nowOut) \in [Chains -> Row]
        BY <2>1, RowsOfType
    <2>3. PICK inOk, outOk, polyOk \in BOOLEAN :
              cbuf' = Folded(RowsOf(nowIn, nowOut), stat[Ref].inChk, stat[Ref].outChk,
                             nowIn, nowOut, inOk, outOk, polyOk)
        BY <1>4 DEF ChainCompute
    <2>4. cbuf' \in [Chains -> Row]
        BY <2>1, <2>2, <2>3, FoldedType
    <2>5. QED
        BY <1>4, <2>4 DEF ChainCompute, TypeOK
<1>5. CASE ChainSave
    BY <1>5 DEF ChainSave, TypeOK, Row, Absent
<1>6. CASE AddrRead
    <2>1. PolyAddr \in Nat
        BY PolyAddressNat
    <2>2. PICK ok \in BOOLEAN :
              abuf' = [c \in Chains |->
                         IF ~ok \/ ~stat[c].present THEN Absent
                         ELSE IF c = Poly
                         THEN [stat[c] EXCEPT !.addresses = PolyAddr]
                         ELSE [stat[c] EXCEPT !.addresses = addr[c]]]
        BY <1>6 DEF AddrRead, PolyAddr
    <2>3. abuf' \in [Chains -> Row]
        <3> SUFFICES ASSUME NEW c \in Chains PROVE abuf'[c] \in Row
            BY <2>2
        <3>1. stat[c] \in Row /\ Absent \in Row
            BY DEF TypeOK, Absent, Row
        <3>2. c # Poly => addr[c] \in Nat
            BY DEF TypeOK, Ordinary
        <3>3. QED
            BY <2>1, <2>2, <3>1, <3>2, RowAddresses
    <2>4. QED
        BY <1>6, <2>3 DEF AddrRead, TypeOK
<1>7. CASE AddrSave
    BY <1>7 DEF AddrSave, TypeOK, Row, Absent
<1>8. CASE UNCHANGED vars
    BY <1>8 DEF vars, TypeOK
<1>9. QED
    BY <1>1, <1>2, <1>3, <1>4, <1>5, <1>6, <1>7, <1>8 DEF Next, Environment

(***************************************************************************)
(* Every reachable state of the two chain passes and their environment is *)
(* well typed, for every set of chains and every bound.                    *)
(***************************************************************************)
THEOREM TypeCorrect == Spec => []TypeOK
BY InitTypeOK, NextTypeOK, PTL DEF Spec

-----------------------------------------------------------------------------
(* The chain pass computes a sound buffer.                                 *)

(***************************************************************************)
(* The rows a pass starts from (lines 347-374) count no more than their    *)
(* chain's transactions up to the reference row's checkpoints gIn, gOut:   *)
(* a stored row shares those checkpoints, and a new row counts nothing.    *)
(***************************************************************************)
LEMMA RowsOfBound ==
    ASSUME TypeOK, Sound(stat), NEW nowIn \in Nat, NEW nowOut \in Nat,
           NEW c \in Ordinary, RowsOf(nowIn, nowOut)[c].present
    PROVE  /\ RowsOf(nowIn, nowOut)[c].in
                <= Cardinality(IdRange(dstTx, c, 0, stat[Ref].inChk))
           /\ RowsOf(nowIn, nowOut)[c].out
                <= Cardinality(IdRange(srcTx, c, 0, stat[Ref].outChk))
<1>1. Cardinality(IdRange(dstTx, c, 0, stat[Ref].inChk)) \in Nat
      /\ Cardinality(IdRange(srcTx, c, 0, stat[Ref].outChk)) \in Nat
    BY CountsNat
<1>2. CASE stat[c].present
    <2>1. RowsOf(nowIn, nowOut)[c] = stat[c]
        BY <1>2 DEF RowsOf, Ordinary
    <2>2. QED
        BY <1>2, <2>1 DEF Sound
<1>3. CASE ~stat[c].present
    <2>1. RowsOf(nowIn, nowOut)[c].in = 0 /\ RowsOf(nowIn, nowOut)[c].out = 0
        BY <1>3 DEF RowsOf, Ordinary, Absent
    <2>2. QED
        BY <1>1, <2>1
<1>4. QED
    BY <1>2, <1>3

\* The poly row a pass starts from is sound.
LEMMA RowsOfPoly ==
    ASSUME TypeOK, Sound(stat), NEW nowIn \in Nat, NEW nowOut \in Nat,
           RowsOf(nowIn, nowOut)[Poly].present
    PROVE  LET p == RowsOf(nowIn, nowOut)[Poly] IN
           /\ p.in = p.out
           /\ p.in <= PolyCount(0, p.inChk)
           /\ p.out <= PolyCount(0, p.outChk)
<1> DEFINE p == RowsOf(nowIn, nowOut)[Poly]
<1>1. CASE stat[Poly].present
    <2>1. p = stat[Poly]
        BY <1>1 DEF RowsOf
    <2>2. QED
        BY <1>1, <2>1 DEF Sound
<1>2. CASE ~stat[Poly].present
    <2>1. p.in = 0 /\ p.out = 0 /\ p.inChk = nowIn /\ p.outChk = nowOut
        BY <1>2 DEF RowsOf, Absent
    <2>2. PolyCount(0, nowIn) \in Nat /\ PolyCount(0, nowOut) \in Nat
        BY CountsNat
    <2>3. QED
        BY <2>1, <2>2
<1>3. QED
    BY <1>1, <1>2

(***************************************************************************)
(* The buffer a pass computes (lines 375-406) is sound: an ordinary row    *)
(* adds the delta (gIn, nowIn] to a count of at most (0, gIn] and moves to *)
(* nowIn, like every other ordinary row; the poly row adds (chk, polyTx]   *)
(* to a count of at most (0, chk] and moves to polyTx.                     *)
(***************************************************************************)
LEMMA ComputeSound ==
    ASSUME TypeOK, Sound(stat), NEW inOk, NEW outOk, NEW polyOk
    PROVE  Sound(Folded(RowsOf(Len(dstTx), Len(srcTx)), stat[Ref].inChk, stat[Ref].outChk,
                        Len(dstTx), Len(srcTx), inOk, outOk, polyOk))
<1> DEFINE nowIn == Len(dstTx)
           nowOut == Len(srcTx)
           gIn == stat[Ref].inChk
           gOut == stat[Ref].outChk
           R == RowsOf(nowIn, nowOut)
           F == Folded(R, gIn, gOut, nowIn, nowOut, inOk, outOk, polyOk)
<1>0. /\ nowIn \in Nat /\ nowOut \in Nat /\ gIn \in Nat /\ gOut \in Nat
      /\ R \in [Chains -> Row] /\ Ref \in Ordinary /\ Ordinary \subseteq Chains
      /\ polyTx \in Nat
    <2>1. nowIn \in Nat /\ nowOut \in Nat /\ polyTx \in Nat
        BY DEF TypeOK
    <2>2. stat[Ref] \in Row
        BY DEF TypeOK
    <2>3. gIn \in Nat /\ gOut \in Nat
        BY <2>2 DEF Row
    <2>4. R \in [Chains -> Row]
        BY <2>1, RowsOfType
    <2>5. QED
        BY <2>1, <2>3, <2>4 DEF Ordinary
<1>1. R[Ref].present /\ F[Ref].present
    BY <1>0 DEF Sound, RowsOf, Folded
<1>2. ASSUME NEW c \in Ordinary, F[c].present
      PROVE  /\ F[c].inChk = nowIn /\ F[c].outChk = nowOut
             /\ F[c].in <= Cardinality(IdRange(dstTx, c, 0, F[c].inChk))
             /\ F[c].out <= Cardinality(IdRange(srcTx, c, 0, F[c].outChk))
    <2> DEFINE dIn == IF nowIn > gIn /\ inOk
                      THEN Cardinality(IdRange(dstTx, c, gIn, nowIn)) ELSE 0
               dOut == IF nowOut > gOut /\ outOk
                       THEN Cardinality(IdRange(srcTx, c, gOut, nowOut)) ELSE 0
    <2>0. c \in Chains /\ c # Poly
        BY DEF Ordinary
    <2>1. R[c].present /\ c # Poly /\ R[c] \in Row
        BY <1>0, <1>2, <2>0 DEF Folded
    <2>2. F[c] = [R[c] EXCEPT !.in = R[c].in + dIn, !.out = R[c].out + dOut,
                              !.inChk = nowIn, !.outChk = nowOut]
        BY <2>0, <2>1 DEF Folded
    <2>3. /\ R[c].in <= Cardinality(IdRange(dstTx, c, 0, gIn))
          /\ R[c].out <= Cardinality(IdRange(srcTx, c, 0, gOut))
          /\ R[c].in \in Nat /\ R[c].out \in Nat
        BY <1>0, <2>1, RowsOfBound DEF Row
    <2>4. /\ R[c].in + Cardinality(IdRange(dstTx, c, gIn, nowIn))
               <= Cardinality(IdRange(dstTx, c, 0, nowIn))
          /\ R[c].out + Cardinality(IdRange(srcTx, c, gOut, nowOut))
               <= Cardinality(IdRange(srcTx, c, 0, nowOut))
        BY <1>0, <2>3, RangeFold DEF TypeOK
    <2>5. /\ Cardinality(IdRange(dstTx, c, gIn, nowIn)) \in Nat
          /\ Cardinality(IdRange(srcTx, c, gOut, nowOut)) \in Nat
          /\ Cardinality(IdRange(dstTx, c, 0, nowIn)) \in Nat
          /\ Cardinality(IdRange(srcTx, c, 0, nowOut)) \in Nat
        BY CountsNat
    <2>6. R[c].in + dIn <= Cardinality(IdRange(dstTx, c, 0, nowIn))
        <3>1. CASE nowIn > gIn /\ inOk
            BY <3>1, <2>4
        <3>2. CASE ~(nowIn > gIn /\ inOk)
            <4>1. dIn = 0
                BY <3>2
            <4>2. R[c].in <= Cardinality(IdRange(dstTx, c, 0, nowIn))
                <5>1. /\ R[c].in \in Nat
                      /\ Cardinality(IdRange(dstTx, c, gIn, nowIn)) \in Nat
                      /\ Cardinality(IdRange(dstTx, c, 0, nowIn)) \in Nat
                    BY <2>3, <2>5
                <5>2. R[c].in + Cardinality(IdRange(dstTx, c, gIn, nowIn))
                        <= Cardinality(IdRange(dstTx, c, 0, nowIn))
                    BY <2>4
                <5>3. QED
                    BY <5>1, <5>2
            <4>3. QED
                BY <4>1, <4>2, <2>3
        <3>3. QED
            BY <3>1, <3>2
    <2>8. R[c].out + dOut <= Cardinality(IdRange(srcTx, c, 0, nowOut))
        <3>1. CASE nowOut > gOut /\ outOk
            BY <3>1, <2>4
        <3>2. CASE ~(nowOut > gOut /\ outOk)
            <4>1. dOut = 0
                BY <3>2
            <4>2. R[c].out <= Cardinality(IdRange(srcTx, c, 0, nowOut))
                <5>1. /\ R[c].out \in Nat
                      /\ Cardinality(IdRange(srcTx, c, gOut, nowOut)) \in Nat
                      /\ Cardinality(IdRange(srcTx, c, 0, nowOut)) \in Nat
                    BY <2>3, <2>5
                <5>2. R[c].out + Cardinality(IdRange(srcTx, c, gOut, nowOut))
                        <= Cardinality(IdRange(srcTx, c, 0, nowOut))
                    BY <2>4
                <5>3. QED
                    BY <5>1, <5>2
            <4>3. QED
                BY <4>1, <4>2, <2>3
        <3>3. QED
            BY <3>1, <3>2
    <2>7. QED
        BY <2>1, <2>2, <2>6, <2>8 DEF Row
<1>3. ASSUME F[Poly].present
      PROVE  /\ F[Poly].in = F[Poly].out
             /\ F[Poly].in <= PolyCount(0, F[Poly].inChk)
             /\ F[Poly].out <= PolyCount(0, F[Poly].outChk)
    <2>1. R[Poly].present /\ R[Poly] \in Row
        BY <1>0, <1>3 DEF Folded
    <2>2. /\ R[Poly].in = R[Poly].out
          /\ R[Poly].in <= PolyCount(0, R[Poly].inChk)
          /\ R[Poly].out <= PolyCount(0, R[Poly].outChk)
        BY <1>0, <2>1, RowsOfPoly
    <2>3. CASE polyOk
        <3>1. F[Poly] = [R[Poly] EXCEPT !.in = R[Poly].in + PolyCount(R[Poly].inChk, polyTx),
                                        !.out = R[Poly].out + PolyCount(R[Poly].inChk, polyTx),
                                        !.inChk = polyTx, !.outChk = polyTx]
            BY <2>1, <2>3 DEF Folded
        <3>0. R[Poly].in \in Nat /\ R[Poly].inChk \in Nat
            BY <2>1 DEF Row
        <3>2. R[Poly].in + PolyCount(R[Poly].inChk, polyTx) <= PolyCount(0, polyTx)
            BY <1>0, <2>2, <3>0, PolyFold
        <3>3. QED
            BY <2>1, <2>2, <3>1, <3>2 DEF Row
    <2>4. CASE ~polyOk
        <3>1. F[Poly] = R[Poly]
            BY <2>1, <2>4 DEF Folded
        <3>2. QED
            BY <2>2, <3>1
    <2>5. QED
        BY <2>3, <2>4
<1>4. F[Ref].inChk = nowIn /\ F[Ref].outChk = nowOut
    BY <1>0, <1>1, <1>2
<1>5. QED
    BY <1>1, <1>2, <1>3, <1>4 DEF Sound

(***************************************************************************)
(* For every set of chains and bound, whether or not the chain pass and    *)
(* the address pass overlap and whatever query fails, a chain pass that    *)
(* reads a sound chain_statistics table computes sound rows (lines         *)
(* 310-406): no transaction of a delta is added to a row that counted it.  *)
(***************************************************************************)
THEOREM ChainFoldSoundHolds == Spec => ChainFoldSound
<1>1. TypeOK /\ [Next]_vars => [FoldKeepsSound]_vars
    <2> SUFFICES ASSUME TypeOK, Sound(stat), ChainCompute PROVE Sound(cbuf')
        BY DEF FoldKeepsSound
    <2>1. PICK inOk, outOk, polyOk \in BOOLEAN :
              cbuf' = Folded(RowsOf(Len(dstTx), Len(srcTx)), stat[Ref].inChk,
                             stat[Ref].outChk, Len(dstTx), Len(srcTx), inOk, outOk, polyOk)
        BY DEF ChainCompute
    <2>2. QED
        BY <2>1, ComputeSound
<1>2. QED
    BY <1>1, InitTypeOK, NextTypeOK, PTL DEF Spec, ChainFoldSound
=============================================================================
