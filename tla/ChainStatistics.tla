-------------------------- MODULE ChainStatistics --------------------------
(***************************************************************************)
(* The chain-statistics pass, Stats.computeChainStatistics (lines          *)
(* 310-412), and the chain-address pass, Stats.computeChainStatisticAssets *)
(* (lines 414-448), which run in goroutines of their own and both save     *)
(* whole chain_statistics rows.                                            *)
(*                                                                         *)
(* A row per chain id holds In, Out, Addresses and the checkpoints         *)
(* LastInCheckId and LastOutCheckId.  Ordinary chains count dst and src    *)
(* transactions; the poly chain (POLY_CROSSCHAIN_ID) counts poly           *)
(* transactions, in its own id space, into both In and Out.                *)
(*                                                                         *)
(* GetNewChainSta is a query of the DAO, which is not in this repository;  *)
(* it is modelled as reading the row of one reference chain, failing when  *)
(* that row does not exist (the earlier version of the pass tolerates      *)
(* gorm.ErrRecordNotFound there; this one returns).                        *)
(***************************************************************************)
EXTENDS Naturals, Sequences, FiniteSets

CONSTANTS
    Chains,     \* chain ids (model values)
    Poly,       \* POLY_CROSSCHAIN_ID
    Ref,        \* the chain whose row GetNewChainSta reads
    MaxTx,      \* bound on each transaction ledger
    MaxAddr,    \* bound on the address count of a chain
    Faults,     \* TRUE: queries and saves may fail
    Overlap     \* TRUE: the two passes may interleave

ASSUME ChainsAssumption ==
    /\ IsFiniteSet(Chains) /\ Poly \in Chains /\ Ref \in Chains \ {Poly}
ASSUME BoundsAssumption == MaxTx \in Nat /\ MaxAddr \in Nat
ASSUME FlagsAssumption == Faults \in BOOLEAN /\ Overlap \in BOOLEAN

Ordinary == Chains \ {Poly}

VARIABLES
    dstTx,      \* dst_transactions: the chain of each, by id
    srcTx,      \* src_transactions: the chain of each, by id
    polyTx,     \* poly_transactions: ids 1..polyTx
    catalog,    \* chains registered in the chains table
    addr,       \* addr[c]: the live address count of chain c
    stat,       \* the chain_statistics table
    cpc, cbuf,  \* the chain pass: "idle" or "computed", and its rows
    apc, abuf   \* the address pass: "idle" or "read", and its rows

vars == <<dstTx, srcTx, polyTx, catalog, addr, stat, cpc, cbuf, apc, abuf>>

Row == [present : BOOLEAN, in : Nat, out : Nat, addresses : Nat,
        inChk : Nat, outChk : Nat]

Absent == [present |-> FALSE, in |-> 0, out |-> 0, addresses |-> 0,
           inChk |-> 0, outChk |-> 0]

\* The transactions of chain c with id in (lo, hi].
IdRange(ledger, c, lo, hi) ==
    {i \in 1..Len(ledger) : ledger[i] = c /\ lo < i /\ i <= hi}

\* CalculatePolyChainStatistic: the poly transactions with id in (lo, hi].
PolyCount(lo, hi) == Cardinality({i \in 1..polyTx : lo < i /\ i <= hi})

TypeOK ==
    /\ dstTx \in Seq(Ordinary) /\ Len(dstTx) <= MaxTx
    /\ srcTx \in Seq(Ordinary) /\ Len(srcTx) <= MaxTx
    /\ polyTx \in 0..MaxTx
    /\ catalog \subseteq Chains
    /\ addr \in [Ordinary -> 0..MaxAddr]
    /\ stat \in [Chains -> Row]
    /\ cpc \in {"idle", "computed"} /\ cbuf \in [Chains -> Row]
    /\ apc \in {"idle", "read"} /\ abuf \in [Chains -> Row]

\* The deployment registers the reference chain and seeds its row.
Init ==
    /\ dstTx = <<>> /\ srcTx = <<>> /\ polyTx = 0
    /\ catalog = {Ref}
    /\ addr = [c \in Ordinary |-> 0]
    /\ stat = [c \in Chains |-> IF c = Ref THEN [Absent EXCEPT !.present = TRUE]
                                ELSE Absent]
    /\ cpc = "idle" /\ cbuf = [c \in Chains |-> Absent]
    /\ apc = "idle" /\ abuf = [c \in Chains |-> Absent]

-----------------------------------------------------------------------------
(* Environment: the bridge's ledgers, the chains table, new addresses.    *)

AddDst(c) ==
    /\ Len(dstTx) < MaxTx
    /\ dstTx' = Append(dstTx, c)
    /\ UNCHANGED <<srcTx, polyTx, catalog, addr, stat, cpc, cbuf, apc, abuf>>

AddSrc(c) ==
    /\ Len(srcTx) < MaxTx
    /\ srcTx' = Append(srcTx, c)
    /\ UNCHANGED <<dstTx, polyTx, catalog, addr, stat, cpc, cbuf, apc, abuf>>

AddPoly ==
    /\ polyTx < MaxTx
    /\ polyTx' = polyTx + 1
    /\ UNCHANGED <<dstTx, srcTx, catalog, addr, stat, cpc, cbuf, apc, abuf>>

AddChain(c) ==
    /\ c \notin catalog
    /\ catalog' = catalog \cup {c}
    /\ UNCHANGED <<dstTx, srcTx, polyTx, addr, stat, cpc, cbuf, apc, abuf>>

NewAddress(c) ==
    /\ addr[c] < MaxAddr
    /\ addr' = [addr EXCEPT ![c] = @ + 1]
    /\ UNCHANGED <<dstTx, srcTx, polyTx, catalog, stat, cpc, cbuf, apc, abuf>>

-----------------------------------------------------------------------------
(* computeChainStatistics                                                  *)

\* Lines 347-374: the rows read, and a new row per registered chain without
\* one, starting at the current high-water marks.
RowsOf(nowIn, nowOut) ==
    [c \in Chains |->
        IF stat[c].present THEN stat[c]
        ELSE IF c \in catalog
             THEN [present |-> TRUE, in |-> 0, out |-> 0, addresses |-> 0,
                   inChk |-> nowIn, outChk |-> nowOut]
             ELSE Absent]

\* Mutant (checks ChainNoOverCount): ordinary rows keep their checkpoints.
FoldedNoChk(r, gIn, gOut, nowIn, nowOut, inOk, outOk, polyOk) ==
    [c \in Chains |->
        IF ~r[c].present THEN r[c]
        ELSE IF c # Poly
        THEN [r[c] EXCEPT
                !.in = @ + (IF nowIn > gIn /\ inOk
                            THEN Cardinality(IdRange(dstTx, c, gIn, nowIn)) ELSE 0),
                !.out = @ + (IF nowOut > gOut /\ outOk
                             THEN Cardinality(IdRange(srcTx, c, gOut, nowOut)) ELSE 0)]
        ELSE r[c]]

\* Mutant (checks ChainFoldSound): the delta ranges include their lower end.
FoldedClosed(r, gIn, gOut, nowIn, nowOut, inOk, outOk, polyOk) ==
    [c \in Chains |->
        IF ~r[c].present THEN r[c]
        ELSE IF c # Poly
        THEN [r[c] EXCEPT
                !.in = @ + (IF nowIn > gIn /\ inOk
                            THEN Cardinality({i \in 1..Len(dstTx) :
                                     dstTx[i] = c /\ gIn <= i /\ i <= nowIn}) ELSE 0),
                !.out = @ + (IF nowOut > gOut /\ outOk
                             THEN Cardinality({i \in 1..Len(srcTx) :
                                      srcTx[i] = c /\ gOut <= i /\ i <= nowOut}) ELSE 0),
                !.inChk = nowIn,
                !.outChk = nowOut]
        ELSE IF polyOk
        THEN [r[c] EXCEPT
                !.in = @ + PolyCount(r[c].inChk, polyTx),
                !.out = @ + PolyCount(r[c].inChk, polyTx),
                !.inChk = polyTx,
                !.outChk = polyTx]
        ELSE r[c]]

(***************************************************************************)
(* Lines 375-406 on the rows r: an ordinary row adds its in and out deltas *)
(* over (gIn, nowIn] and (gOut, nowOut] (when that range was queried and   *)
(* the query succeeded) and takes the new checkpoints; the poly row adds   *)
(* the poly count over (its LastInCheckId, polyCheckId] to both In and Out *)
(* and takes polyCheckId as both checkpoints, if that query succeeded.     *)
(***************************************************************************)
Folded(r, gIn, gOut, nowIn, nowOut, inOk, outOk, polyOk) ==
    [c \in Chains |->
        IF ~r[c].present THEN r[c]
        ELSE IF c # Poly
        THEN [r[c] EXCEPT
                !.in = @ + (IF nowIn > gIn /\ inOk
                            THEN Cardinality(IdRange(dstTx, c, gIn, nowIn)) ELSE 0),
                !.out = @ + (IF nowOut > gOut /\ outOk
                             THEN Cardinality(IdRange(srcTx, c, gOut, nowOut)) ELSE 0),
                !.inChk = nowIn,
                !.outChk = nowOut]
        ELSE IF polyOk
        THEN [r[c] EXCEPT
                !.in = @ + PolyCount(r[c].inChk, polyTx),
                !.out = @ + PolyCount(r[c].inChk, polyTx),
                !.inChk = polyTx,
                !.outChk = polyTx]
        ELSE r[c]]

(***************************************************************************)
(* Lines 310-406: GetNewChainSta (the reference row), the dst, src and     *)
(* poly high-water marks (an empty ledger makes the read fail and the pass *)
(* return), the delta queries (an error is only logged), and, when either  *)
(* mark moved, the rows read and folded in memory.                         *)
(***************************************************************************)
ChainCompute ==
    /\ cpc = "idle"
    /\ Overlap \/ apc = "idle"
    /\ stat[Ref].present
    /\ dstTx # <<>> /\ srcTx # <<>> /\ polyTx > 0
    /\ LET gIn == stat[Ref].inChk
           gOut == stat[Ref].outChk
           nowIn == Len(dstTx)
           nowOut == Len(srcTx)
       IN /\ nowIn > gIn \/ nowOut > gOut
          /\ \E inOk, outOk, polyOk \in BOOLEAN :
                /\ Faults \/ (inOk /\ outOk /\ polyOk)
                /\ cbuf' = Folded(RowsOf(nowIn, nowOut), gIn, gOut,
                                  nowIn, nowOut, inOk, outOk, polyOk)
    /\ cpc' = "computed"
    /\ UNCHANGED <<dstTx, srcTx, polyTx, catalog, addr, stat, apc, abuf>>

\* Lines 407-410: SaveChainStatistics writes every row of the pass; an
\* error is only logged.
ChainSave ==
    /\ cpc = "computed"
    /\ \E ok \in BOOLEAN :
          /\ Faults \/ ok
          /\ stat' = IF ok THEN [c \in Chains |-> IF cbuf[c].present THEN cbuf[c]
                                                  ELSE stat[c]]
                     ELSE stat
    /\ cpc' = "idle"
    /\ cbuf' = [c \in Chains |-> Absent]
    /\ UNCHANGED <<dstTx, srcTx, polyTx, catalog, addr, apc, abuf>>

-----------------------------------------------------------------------------
(* computeChainStatisticAssets                                             *)

(***************************************************************************)
(* Lines 416-440: the address counts, then the rows; every ordinary row    *)
(* takes its chain's count and the poly row the sum of those counts.  A    *)
(* failed count query returns; a failed row read is only logged and       *)
(* leaves no rows to save.                                                 *)
(***************************************************************************)
AddrRead ==
    /\ apc = "idle"
    /\ Overlap \/ cpc = "idle"
    /\ \E ok \in BOOLEAN :
          /\ Faults \/ ok
          /\ LET polyAddress ==
                     Cardinality({p \in Ordinary \X (1..MaxAddr) :
                                      stat[p[1]].present /\ p[2] <= addr[p[1]]})
             IN abuf' = [c \in Chains |->
                           IF ~ok \/ ~stat[c].present THEN Absent
                           ELSE IF c = Poly
                           THEN [stat[c] EXCEPT !.addresses = polyAddress]
                           ELSE [stat[c] EXCEPT !.addresses = addr[c]]]
    /\ apc' = "read"
    /\ UNCHANGED <<dstTx, srcTx, polyTx, catalog, addr, stat, cpc, cbuf>>

\* Lines 441-444: SaveChainStatistics writes the rows read, whole; an error
\* is only logged.
AddrSave ==
    /\ apc = "read"
    /\ \E ok \in BOOLEAN :
          /\ Faults \/ ok
          /\ stat' = IF ok THEN [c \in Chains |-> IF abuf[c].present THEN abuf[c]
                                                  ELSE stat[c]]
                     ELSE stat
    /\ apc' = "idle"
    /\ abuf' = [c \in Chains |-> Absent]
    /\ UNCHANGED <<dstTx, srcTx, polyTx, catalog, addr, cpc, cbuf>>

Environment ==
    \/ \E c \in Ordinary : AddDst(c) \/ AddSrc(c) \/ NewAddress(c)
    \/ AddPoly
    \/ \E c \in Chains : AddChain(c)

Next ==
    \/ Environment
    \/ ChainCompute \/ ChainSave
    \/ AddrRead \/ AddrSave

Spec == Init /\ [][Next]_vars

-----------------------------------------------------------------------------
(* Properties                                                              *)

\* What a row's counters should hold: the transactions of its chain up to
\* its checkpoints (poly transactions for the poly chain).
InUpTo(c, hi) ==
    IF c = Poly THEN PolyCount(0, hi) ELSE Cardinality(IdRange(dstTx, c, 0, hi))
OutUpTo(c, hi) ==
    IF c = Poly THEN PolyCount(0, hi) ELSE Cardinality(IdRange(srcTx, c, 0, hi))

(***************************************************************************)
(* Never over-counting: no stored In or Out exceeds the number of          *)
(* transactions of its chain up to the row's checkpoint, i.e. no           *)
(* transaction is ever counted twice, whatever fails and however the       *)
(* chain and address passes interleave.                                    *)
(***************************************************************************)
ChainNoOverCount ==
    \A c \in Chains : stat[c].present =>
        /\ stat[c].in <= InUpTo(c, stat[c].inChk)
        /\ stat[c].out <= OutUpTo(c, stat[c].outChk)


(***************************************************************************)
(* A table of rows r is sound when the reference row exists, every         *)
(* ordinary row shares the reference row's checkpoints and counts no more  *)
(* than its chain's transactions up to them, and the poly row has equal In *)
(* and Out, each no more than the poly transactions up to its checkpoint.  *)
(***************************************************************************)
Sound(r) ==
    /\ r[Ref].present
    /\ \A c \in Ordinary : r[c].present =>
          /\ r[c].inChk = r[Ref].inChk /\ r[c].outChk = r[Ref].outChk
          /\ r[c].in <= Cardinality(IdRange(dstTx, c, 0, r[c].inChk))
          /\ r[c].out <= Cardinality(IdRange(srcTx, c, 0, r[c].outChk))
    /\ r[Poly].present =>
          /\ r[Poly].in = r[Poly].out
          /\ r[Poly].in <= PolyCount(0, r[Poly].inChk)
          /\ r[Poly].out <= PolyCount(0, r[Poly].outChk)

(***************************************************************************)
(* The fold of computeChainStatistics keeps a sound table sound: a pass    *)
(* that reads a sound table computes sound rows, whichever of its delta    *)
(* and poly queries fail (lines 321-406), whatever the other pass does.    *)
(* A double count needs rows that do not share the reference row's        *)
(* checkpoints, which only a stale whole-row save (line 441) produces.     *)
(***************************************************************************)
FoldKeepsSound == Sound(stat) /\ ChainCompute => Sound(cbuf')

ChainFoldSound == [][FoldKeepsSound]_vars

=============================================================================
