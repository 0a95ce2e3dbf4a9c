---------------------------- MODULE LedgerRanges ----------------------------
(***************************************************************************)
(* Facts about the id ranges (lo, hi] that the statistics passes count.    *)
(* Every delta query of crosschainstats.go counts the ids of a ledger in   *)
(* (checkpoint, high-water mark]; folding it onto a count of (0,           *)
(* checkpoint] is sound because the two ranges split (0, high-water mark). *)
(* The lemmas are stated for any finite set of natural ids, and used by    *)
(* the proofs of the token and chain passes.                               *)
(***************************************************************************)
EXTENDS Naturals, FiniteSetTheorems, WellFoundedInduction, TLAPS

\* The ids of a finite set T of naturals in (lo, hi].
Cut(T, lo, hi) == {t \in T : lo < t /\ t <= hi}

(***************************************************************************)
(* A range (0, hi] is cut at lo into (0, lo] and (lo, hi], and the two     *)
(* counts add up, when lo is below hi or no id lies above hi: a delta      *)
(* folded onto a count of (0, lo] gives the count of (0, hi].              *)
(***************************************************************************)
LEMMA CutSplit ==
    ASSUME NEW T \in SUBSET Nat, IsFiniteSet(T), NEW lo \in Nat, NEW hi \in Nat,
           lo <= hi \/ \A t \in T : t <= hi
    PROVE  Cardinality(Cut(T, 0, lo)) + Cardinality(Cut(T, lo, hi))
             = Cardinality(Cut(T, 0, hi))
<1>1. IsFiniteSet(Cut(T, 0, lo)) /\ IsFiniteSet(Cut(T, lo, hi))
    BY FS_Subset DEF Cut
<1>2. Cut(T, 0, lo) \cap Cut(T, lo, hi) = {}
    <2>1. ASSUME NEW t \in Cut(T, 0, lo), t \in Cut(T, lo, hi) PROVE FALSE
        <3>1. t \in Nat /\ t <= lo /\ lo < t
            BY <2>1 DEF Cut
        <3>2. QED
            BY <3>1
    <2>2. QED
        BY <2>1
<1>3. Cut(T, 0, lo) \cup Cut(T, lo, hi) = Cut(T, 0, hi)
    <2>1. ASSUME NEW t \in Cut(T, 0, hi) PROVE t \in Cut(T, 0, lo) \cup Cut(T, lo, hi)
        <3>1. t \in T /\ t \in Nat /\ 0 < t /\ t <= hi
            BY <2>1 DEF Cut
        <3>2. CASE t <= lo
            BY <3>1, <3>2 DEF Cut
        <3>3. CASE lo < t
            BY <3>1, <3>3 DEF Cut
        <3>4. QED
            BY <3>1, <3>2, <3>3
    <2>2. ASSUME NEW t \in Cut(T, 0, lo) \cup Cut(T, lo, hi) PROVE t \in Cut(T, 0, hi)
        <3>1. t \in T /\ t \in Nat
            BY <2>2 DEF Cut
        <3>2. CASE t \in Cut(T, 0, lo)
            <4>1. 0 < t /\ t <= lo
                BY <3>2 DEF Cut
            <4>2. t <= hi
                BY <3>1, <4>1
            <4>3. QED
                BY <3>1, <4>1, <4>2 DEF Cut
        <3>3. CASE t \in Cut(T, lo, hi)
            BY <3>1, <3>3 DEF Cut
        <3>4. QED
            BY <2>2, <3>2, <3>3
    <2>3. QED
        BY <2>1, <2>2
<1>4. Cardinality(Cut(T, 0, lo) \cap Cut(T, lo, hi)) = 0
    BY <1>2, FS_EmptySet
<1>5. Cardinality(Cut(T, 0, lo)) \in Nat /\ Cardinality(Cut(T, lo, hi)) \in Nat
    BY <1>1, FS_CardinalityType
<1>6. Cardinality(Cut(T, 0, lo) \cup Cut(T, lo, hi))
        = Cardinality(Cut(T, 0, lo)) + Cardinality(Cut(T, lo, hi))
          - Cardinality(Cut(T, 0, lo) \cap Cut(T, lo, hi))
    BY <1>1, FS_Union
<1>7. Cardinality(Cut(T, 0, hi)) = Cardinality(Cut(T, 0, lo) \cup Cut(T, lo, hi))
    BY <1>3, Zenon
<1>8. QED
    BY <1>4, <1>5, <1>6, <1>7

\* A sub-range counts no more than the range that contains it.
LEMMA CutSub ==
    ASSUME NEW T, IsFiniteSet(T), NEW S \in SUBSET T
    PROVE  /\ IsFiniteSet(S)
           /\ Cardinality(S) \in Nat
           /\ Cardinality(S) <= Cardinality(T)
BY FS_Subset, FS_CardinalityType

(***************************************************************************)
(* Folding the delta (lo, hi] onto a count k of at most (0, lo] gives at   *)
(* most the count of (0, hi], and so does leaving k alone: a pass that     *)
(* adds a delta and advances the checkpoint never counts an id twice.      *)
(***************************************************************************)
LEMMA CutFold ==
    ASSUME NEW T \in SUBSET Nat, IsFiniteSet(T), NEW lo \in Nat, NEW hi \in Nat,
           lo <= hi \/ \A t \in T : t <= hi,
           NEW k \in Nat, k <= Cardinality(Cut(T, 0, lo))
    PROVE  /\ k + Cardinality(Cut(T, lo, hi)) <= Cardinality(Cut(T, 0, hi))
           /\ k <= Cardinality(Cut(T, 0, hi))
<1>1. Cardinality(Cut(T, 0, lo)) + Cardinality(Cut(T, lo, hi))
        = Cardinality(Cut(T, 0, hi))
    BY CutSplit
<1>2. Cardinality(Cut(T, 0, lo)) \in Nat /\ Cardinality(Cut(T, lo, hi)) \in Nat
    BY CutSub DEF Cut
<1>3. QED
    BY <1>1, <1>2

\* A ledger that only gains ids counts no fewer of them in any range.
LEMMA CutGrows ==
    ASSUME NEW T, NEW T2, IsFiniteSet(T2), T \subseteq T2, NEW lo, NEW hi
    PROVE  /\ Cardinality(Cut(T, lo, hi)) \in Nat
           /\ Cardinality(Cut(T, lo, hi)) <= Cardinality(Cut(T2, lo, hi))
           /\ Cardinality(Cut(T2, lo, hi)) \in Nat
<1>1. IsFiniteSet(Cut(T2, lo, hi)) /\ Cut(T, lo, hi) \subseteq Cut(T2, lo, hi)
    BY FS_Subset DEF Cut
<1>2. QED
    BY <1>1, CutSub

(***************************************************************************)
(* A non-empty set of ids below a bound has a largest element: the last   *)
(* transfer that GetLastSrcTransferForToken returns exists.  The largest   *)
(* id is the least upper bound of the set, which exists because < is       *)
(* well-founded on the naturals.                                           *)
(***************************************************************************)
LEMMA NatMax ==
    ASSUME NEW T \in SUBSET Nat, T # {}, NEW n \in Nat, \A t \in T : t <= n
    PROVE  \E m \in T : \A t \in T : t <= m
<1> DEFINE U == {k \in Nat : \A t \in T : t <= k}
<1>1. U \subseteq Nat /\ U # {}
    BY n \in U
<1>2. PICK u \in U : \A y \in U : ~(<<y, u>> \in OpToRel(<, Nat))
    BY <1>1, NatLessThanWellFounded, WFMin
<1>3. \A y \in U : ~(y < u)
    BY <1>2 DEF OpToRel
<1>4. u \in T
    <2>1. SUFFICES ASSUME u \notin T PROVE FALSE
        OBVIOUS
    <2>2. PICK t0 \in T : TRUE
        OBVIOUS
    <2>3. u \in Nat /\ u # 0
        BY <2>1, <2>2
    <2>4. u - 1 \in U
        BY <2>1, <2>3
    <2>5. QED
        BY <1>3, <2>3, <2>4
<1>5. QED
    BY <1>4
=============================================================================
