------------------------- MODULE CheckpointCounter -------------------------
(***************************************************************************)
(* What a checkpointed counting pass promises, independently of how it is  *)
(* scheduled: one row per name holds a count and a checkpoint, and a row   *)
(* moves only by folding the visible records of its name in                *)
(* (checkpoint, hi] into its count and moving its checkpoint to hi, an id  *)
(* that has been observed, never backwards.  The records themselves come   *)
(* from an append-only ledger whose entries become visible in any order.   *)
(*                                                                         *)
(* With Lossy = TRUE a row may also move its checkpoint without folding    *)
(* anything: the promise a pass keeps when a failed delta query is only    *)
(* logged.  The count then never exceeds the records up to the checkpoint  *)
(* (NoOverCount, proved below for every instance).                         *)
(***************************************************************************)
EXTENDS Naturals, Sequences, FiniteSets, FiniteSetTheorems, TLAPS

CONSTANTS
    Names,  \* the names rows are kept for
    Entry,  \* the ledger entries; each has a field name
    MaxId,  \* bound on the length of the ledger
    Lossy   \* TRUE: a row may advance without its delta

VARIABLES
    ledger,     \* the entries appended so far; an entry's id is its index
    committed,  \* the ids of the visible entries
    row         \* row[n]: [present, cnt, chk]

cvars == <<ledger, committed, row>>

Fresh == [present |-> FALSE, cnt |-> 0, chk |-> 0]

\* The row a fold starts from: the stored one, or a new zero row.
Current(n) == IF row[n].present THEN row[n] ELSE [Fresh EXCEPT !.present = TRUE]

\* The visible entries of name n with id in (lo, hi].
Delta(n, lo, hi) == {i \in committed : ledger[i].name = n /\ lo < i /\ i <= hi}

TypeOK ==
    /\ ledger \in Seq(Entry)
    /\ committed \subseteq 1..Len(ledger)
    /\ row \in [Names -> [present : BOOLEAN, cnt : Nat, chk : Nat]]

Init ==
    /\ ledger = <<>>
    /\ committed = {}
    /\ row = [n \in Names |-> Fresh]

Grow(x) ==
    /\ Len(ledger) < MaxId
    /\ ledger' = Append(ledger, x)
    /\ UNCHANGED <<committed, row>>

\* An entry appended and visible at once: an insert that commits in id order.
Publish(x) ==
    /\ Len(ledger) < MaxId
    /\ ledger' = Append(ledger, x)
    /\ committed' = committed \cup {Len(ledger) + 1}
    /\ UNCHANGED row

Commit(i) ==
    /\ i \in 1..Len(ledger) \ committed
    /\ committed' = committed \cup {i}
    /\ UNCHANGED <<ledger, row>>

\* Fold the delta (chk, hi] of an observed id hi into row n.
Fold(n, hi) ==
    /\ hi \in committed
    /\ Current(n).chk <= hi
    /\ row' = [row EXCEPT ![n] = [present |-> TRUE,
                                  cnt |-> Current(n).cnt + Cardinality(Delta(n, Current(n).chk, hi)),
                                  chk |-> hi]]
    /\ UNCHANGED <<ledger, committed>>

\* Advance row n to hi and drop its delta.
Skip(n, hi) ==
    /\ Lossy
    /\ hi \in committed
    /\ Current(n).chk <= hi
    /\ row' = [row EXCEPT ![n] = [present |-> TRUE, cnt |-> Current(n).cnt, chk |-> hi]]
    /\ UNCHANGED <<ledger, committed>>

Next ==
    \/ \E x \in Entry : Grow(x) \/ Publish(x)
    \/ \E i \in 1..MaxId : Commit(i)
    \/ \E n \in Names, hi \in 1..MaxId : Fold(n, hi) \/ Skip(n, hi)

Spec == Init /\ [][Next]_cvars

(***************************************************************************)
(* No record is counted twice: a count never exceeds the number of         *)
(* visible records of its name up to its checkpoint.                       *)
(***************************************************************************)
NoOverCount ==
    \A n \in Names : row[n].present => row[n].cnt <= Cardinality(Delta(n, 0, row[n].chk))

-----------------------------------------------------------------------------
(* Proofs                                                                  *)

\* The ids of the ledger, and every set of them, are finite.
LEMMA IdsFinite ==
    ASSUME TypeOK, NEW S \in SUBSET (1..Len(ledger))
    PROVE  IsFiniteSet(S) /\ Cardinality(S) \in Nat
<1>1. IsFiniteSet(1..Len(ledger))
    BY FS_Interval DEF TypeOK
<1>2. IsFiniteSet(S)
    BY <1>1, FS_Subset
<1>3. QED
    BY <1>2, FS_CardinalityType

LEMMA DeltaFinite ==
    ASSUME TypeOK, NEW n, NEW lo, NEW hi
    PROVE  IsFiniteSet(Delta(n, lo, hi)) /\ Cardinality(Delta(n, lo, hi)) \in Nat
<1>1. Delta(n, lo, hi) \in SUBSET (1..Len(ledger))
    BY DEF TypeOK, Delta
<1>2. QED
    BY <1>1, IdsFinite

\* A wider range, or more visible ids, never holds fewer records.
LEMMA DeltaGrows ==
    ASSUME TypeOK, NEW n, NEW lo, NEW hi, NEW S \in SUBSET (1..Len(ledger)),
           Delta(n, lo, hi) \subseteq S
    PROVE  Cardinality(Delta(n, lo, hi)) <= Cardinality(S)
<1>1. IsFiniteSet(S)
    BY IdsFinite
<1>2. QED
    BY <1>1, FS_Subset

\* Splitting a range at a middle id: (lo, hi] = (lo, mid] + (mid, hi].
LEMMA DeltaSplit ==
    ASSUME TypeOK, NEW n, NEW lo \in Nat, NEW mid \in Nat, NEW hi \in Nat,
           lo <= mid, mid <= hi
    PROVE  Cardinality(Delta(n, lo, hi)) =
               Cardinality(Delta(n, lo, mid)) + Cardinality(Delta(n, mid, hi))
<1> DEFINE A == Delta(n, lo, mid)
           B == Delta(n, mid, hi)
<1>0. committed \subseteq Nat
    BY DEF TypeOK
<1>1. Delta(n, lo, hi) = A \cup B
    <2>1. ASSUME NEW i \in committed
          PROVE  (lo < i /\ i <= hi) <=> ((lo < i /\ i <= mid) \/ (mid < i /\ i <= hi))
        BY <1>0
    <2>2. QED
        BY <2>1 DEF Delta, A, B
<1>2. A \cap B = {}
    <2>1. ASSUME NEW i \in committed, lo < i /\ i <= mid, mid < i /\ i <= hi
          PROVE  FALSE
        BY <1>0, <2>1
    <2>2. QED
        BY <2>1 DEF Delta, A, B
<1>3. IsFiniteSet(A) /\ IsFiniteSet(B) /\ Cardinality(A) \in Nat /\ Cardinality(B) \in Nat
    BY DeltaFinite DEF A, B
<1>4. Cardinality(A \cup B) = Cardinality(A) + Cardinality(B) - Cardinality(A \cap B)
    BY <1>3, FS_Union
<1>5. Cardinality(A \cap B) = 0
    BY <1>2, FS_EmptySet
<1>6. QED
    BY <1>1, <1>3, <1>4, <1>5

\* Widening a range to the right never loses records.
LEMMA DeltaMono ==
    ASSUME TypeOK, NEW n, NEW lo \in Nat, NEW mid \in Nat, NEW hi \in Nat,
           lo <= mid, mid <= hi
    PROVE  Cardinality(Delta(n, lo, mid)) <= Cardinality(Delta(n, lo, hi))
<1>1. Cardinality(Delta(n, mid, hi)) \in Nat /\ Cardinality(Delta(n, lo, mid)) \in Nat
    BY DeltaFinite
<1>2. QED
    BY <1>1, DeltaSplit

LEMMA InitTypeOK == Init => TypeOK
BY DEF Init, TypeOK, Fresh

LEMMA NextTypeOK == TypeOK /\ [Next]_cvars => TypeOK'
<1> SUFFICES ASSUME TypeOK, [Next]_cvars PROVE TypeOK'
    OBVIOUS
<1>1. ASSUME NEW x \in Entry, Grow(x) PROVE TypeOK'
    BY <1>1 DEF Grow, TypeOK
<1>2. ASSUME NEW i \in 1..MaxId, Commit(i) PROVE TypeOK'
    BY <1>2 DEF Commit, TypeOK
<1>7. ASSUME NEW x \in Entry, Publish(x) PROVE TypeOK'
    <2>1. ledger' \in Seq(Entry) /\ Len(ledger') = Len(ledger) + 1
        BY <1>7 DEF Publish, TypeOK
    <2>2. committed' \subseteq 1..Len(ledger')
        <3>1. Len(ledger) \in Nat /\ committed \subseteq 1..Len(ledger)
            BY DEF TypeOK
        <3>2. committed' = committed \cup {Len(ledger) + 1}
            BY <1>7 DEF Publish
        <3>3. ASSUME NEW i \in committed' PROVE i \in 1..Len(ledger')
            <4>1. CASE i \in committed
                BY <2>1, <3>1, <4>1
            <4>2. CASE i = Len(ledger) + 1
                BY <2>1, <3>1, <4>2
            <4>3. QED
                BY <3>2, <4>1, <4>2
        <3>4. QED
            BY <3>3
    <2>3. QED
        BY <1>7, <2>1, <2>2 DEF Publish, TypeOK
<1>3. ASSUME NEW n \in Names, NEW hi \in 1..MaxId, Fold(n, hi) PROVE TypeOK'
    <2>1. Current(n).cnt \in Nat
        BY DEF TypeOK, Current, Fresh
    <2>2. Cardinality(Delta(n, Current(n).chk, hi)) \in Nat
        BY DeltaFinite
    <2>3. QED
        BY <1>3, <2>1, <2>2 DEF Fold, TypeOK
<1>4. ASSUME NEW n \in Names, NEW hi \in 1..MaxId, Skip(n, hi) PROVE TypeOK'
    BY <1>4 DEF Skip, TypeOK, Current, Fresh
<1>5. CASE UNCHANGED cvars
    BY <1>5 DEF cvars, TypeOK
<1>6. QED
    BY <1>1, <1>2, <1>3, <1>4, <1>5, <1>7 DEF Next

\* The invariant the proof carries: types and the bound itself.
CInv == TypeOK /\ NoOverCount

\* The bound of the row a fold starts from.
LEMMA CurrentBound ==
    ASSUME CInv, NEW n \in Names
    PROVE  /\ Current(n).cnt \in Nat /\ Current(n).chk \in Nat
           /\ Current(n).cnt <= Cardinality(Delta(n, 0, Current(n).chk))
<1>1. CASE row[n].present
    BY <1>1 DEF CInv, NoOverCount, Current, TypeOK
<1>2. CASE ~row[n].present
    <2>1. Current(n).cnt = 0 /\ Current(n).chk = 0
        BY <1>2 DEF Current, Fresh
    <2>2. QED
        BY <2>1, DeltaFinite DEF CInv
<1>3. QED
    BY <1>1, <1>2

LEMMA NextCInv == CInv /\ [Next]_cvars => CInv'
<1> SUFFICES ASSUME CInv, [Next]_cvars PROVE CInv'
    OBVIOUS
<1>0. TypeOK /\ TypeOK'
    BY NextTypeOK DEF CInv
<1>1. ASSUME NEW x \in Entry, Grow(x) PROVE CInv'
    <2>1. \A i \in committed : ledger'[i] = ledger[i]
        BY <1>1 DEF Grow, CInv, TypeOK
    <2>2. \A m, lo, hi : Delta(m, lo, hi)' = Delta(m, lo, hi)
        BY <1>1, <2>1 DEF Grow, Delta
    <2>3. QED
        BY <1>0, <1>1, <2>2 DEF Grow, CInv, NoOverCount
<1>2. ASSUME NEW i \in 1..MaxId, Commit(i) PROVE CInv'
    <2> SUFFICES ASSUME NEW m \in Names, row'[m].present
                 PROVE  row'[m].cnt <= (Cardinality(Delta(m, 0, row[m].chk)))'
        BY <1>0 DEF CInv, NoOverCount
    <2>1. row' = row /\ ledger' = ledger /\ committed \subseteq committed'
        BY <1>2 DEF Commit
    <2>2. Delta(m, 0, row[m].chk) \subseteq Delta(m, 0, row[m].chk)'
        BY <2>1 DEF Delta
    <2>3. Delta(m, 0, row[m].chk)' \in SUBSET (1..Len(ledger))
        BY <2>1, <1>0 DEF TypeOK, Delta
    <2>4. Cardinality(Delta(m, 0, row[m].chk)) <= Cardinality(Delta(m, 0, row[m].chk)')
        BY <2>2, <2>3, <1>0, DeltaGrows
    <2>5. row[m].cnt <= Cardinality(Delta(m, 0, row[m].chk))
        BY <2>1 DEF CInv, NoOverCount
    <2>6. row[m].cnt \in Nat /\ Cardinality(Delta(m, 0, row[m].chk)) \in Nat
          /\ Cardinality(Delta(m, 0, row[m].chk)') \in Nat
        BY <2>3, <1>0, DeltaFinite, IdsFinite DEF TypeOK
    <2>7. QED
        BY <2>1, <2>4, <2>5, <2>6
<1>7. ASSUME NEW x \in Entry, Publish(x) PROVE CInv'
    <2> SUFFICES ASSUME NEW m \in Names, row'[m].present
                 PROVE  row'[m].cnt <= (Cardinality(Delta(m, 0, row[m].chk)))'
        BY <1>0 DEF CInv, NoOverCount
    <2>1. /\ row' = row /\ committed \subseteq committed'
          /\ \A i \in committed : ledger'[i] = ledger[i]
        <3>1. row' = row /\ committed \subseteq committed'
            BY <1>7 DEF Publish
        <3>2. \A i \in 1..Len(ledger) : ledger'[i] = ledger[i]
            BY <1>7 DEF Publish, CInv, TypeOK
        <3>3. QED
            BY <3>1, <3>2 DEF CInv, TypeOK
    <2>2. Delta(m, 0, row[m].chk) \subseteq Delta(m, 0, row[m].chk)'
        BY <2>1 DEF Delta
    <2>3. Delta(m, 0, row[m].chk)' \in SUBSET (1..Len(ledger'))
        BY <1>0 DEF TypeOK, Delta
    <2>4. IsFiniteSet(Delta(m, 0, row[m].chk)')
        <3>1. Len(ledger') \in Nat
            BY <1>0 DEF TypeOK
        <3>2. IsFiniteSet(1..Len(ledger'))
            BY <3>1, FS_Interval
        <3>3. QED
            BY <2>3, <3>2, FS_Subset
    <2>5. Cardinality(Delta(m, 0, row[m].chk)) <= Cardinality(Delta(m, 0, row[m].chk)')
        BY <2>2, <2>4, FS_Subset
    <2>6. /\ row[m].cnt \in Nat /\ Cardinality(Delta(m, 0, row[m].chk)) \in Nat
          /\ Cardinality(Delta(m, 0, row[m].chk)') \in Nat
          /\ row[m].cnt <= Cardinality(Delta(m, 0, row[m].chk))
        BY <2>1, <2>4, DeltaFinite, FS_CardinalityType DEF CInv, TypeOK, NoOverCount
    <2>7. QED
        BY <2>1, <2>5, <2>6
<1>3. ASSUME NEW n \in Names, NEW hi \in 1..MaxId, Fold(n, hi) PROVE CInv'
    <2> DEFINE c == Current(n)
               d == Delta(n, c.chk, hi)
    <2>1. row' = [row EXCEPT ![n] = [present |-> TRUE, cnt |-> c.cnt + Cardinality(d), chk |-> hi]]
          /\ UNCHANGED <<ledger, committed>> /\ c.chk <= hi
        BY <1>3 DEF Fold
    <2>2. c.cnt + Cardinality(d) <= Cardinality(Delta(n, 0, hi))
        <3>1. c.cnt \in Nat /\ c.chk \in Nat /\ c.cnt <= Cardinality(Delta(n, 0, c.chk))
            BY CurrentBound
        <3>2. Cardinality(Delta(n, 0, hi)) = Cardinality(Delta(n, 0, c.chk)) + Cardinality(d)
            BY <3>1, <2>1, DeltaSplit DEF CInv
        <3>3. QED
            BY <3>1, <3>2, DeltaFinite DEF CInv
    <2>3. \A m, lo, h : Delta(m, lo, h)' = Delta(m, lo, h)
        BY <2>1 DEF Delta
    <2>4. QED
        BY <1>0, <2>1, <2>2, <2>3 DEF CInv, NoOverCount, TypeOK
<1>4. ASSUME NEW n \in Names, NEW hi \in 1..MaxId, Skip(n, hi) PROVE CInv'
    <2> DEFINE c == Current(n)
    <2>1. row' = [row EXCEPT ![n] = [present |-> TRUE, cnt |-> c.cnt, chk |-> hi]]
          /\ UNCHANGED <<ledger, committed>> /\ c.chk <= hi
        BY <1>4 DEF Skip
    <2>2. c.cnt <= Cardinality(Delta(n, 0, hi))
        <3>1. c.cnt \in Nat /\ c.chk \in Nat /\ c.cnt <= Cardinality(Delta(n, 0, c.chk))
            BY CurrentBound
        <3>2. Cardinality(Delta(n, 0, c.chk)) <= Cardinality(Delta(n, 0, hi))
            BY <3>1, <2>1, DeltaMono DEF CInv
        <3>3. QED
            BY <3>1, <3>2, DeltaFinite DEF CInv
    <2>3. \A m, lo, h : Delta(m, lo, h)' = Delta(m, lo, h)
        BY <2>1 DEF Delta
    <2>4. QED
        BY <1>0, <2>1, <2>2, <2>3 DEF CInv, NoOverCount, TypeOK
<1>5. CASE UNCHANGED cvars
    BY <1>0, <1>5 DEF cvars, CInv, NoOverCount, Delta
<1>6. QED
    BY <1>1, <1>2, <1>3, <1>4, <1>5, <1>7 DEF Next

(***************************************************************************)
(* Every behaviour of a checkpointed counter, lossy or not, never counts a *)
(* record twice.                                                           *)
(***************************************************************************)
THEOREM CounterNoOverCount == Spec => []NoOverCount
<1>1. Init => CInv
    BY InitTypeOK DEF Init, CInv, NoOverCount, Fresh
<1>2. CInv /\ [Next]_cvars => CInv'
    BY NextCInv
<1>3. CInv => NoOverCount
    BY DEF CInv
<1>4. QED
    BY <1>1, <1>2, <1>3, PTL DEF Spec

=============================================================================
