--------------------------- MODULE Scheduler_proofs ---------------------------
(***************************************************************************)
(* Machine-checked proofs about the run loop of the statistics engine:     *)
(* the WaitGroup counter is exactly the number of goroutines inside their  *)
(* loop, so Stop's Wait can only return when none is.                      *)
(***************************************************************************)
EXTENDS Scheduler, FiniteSetTheorems, TLAPS

\* The goroutines counted in the WaitGroup.
Registered == {p \in Passes : g[p] \in Looping}

(***************************************************************************)
(* The inductive invariant: before Start no goroutine exists, and the      *)
(* WaitGroup counts the registered goroutines.                             *)
(***************************************************************************)
SchedInv ==
    /\ TypeOK
    /\ main = "init" => \A p \in Passes : g[p] = "none"
    /\ wg = Cardinality(Registered)

\* Every set of passes is finite.
LEMMA PassSetFinite ==
    ASSUME NEW S \in SUBSET Passes
    PROVE  IsFiniteSet(S) /\ Cardinality(S) \in Nat
BY PassesAssumption, FS_Subset, FS_CardinalityType

\* A goroutine step that keeps p inside or outside the loop keeps the count.
LEMMA SameRegistered ==
    ASSUME TypeOK, NEW p \in Passes, NEW l \in Loc,
           g' = [g EXCEPT ![p] = l], (l \in Looping) = (g[p] \in Looping)
    PROVE  Registered' = Registered
BY DEF Registered, TypeOK

LEMMA InitSchedInv == Init => SchedInv
<1> SUFFICES ASSUME Init PROVE SchedInv
    OBVIOUS
<1>1. Registered = {}
    BY DEF Init, Registered, Looping
<1>2. QED
    BY <1>1, FS_EmptySet DEF Init, SchedInv, TypeOK, Loc

LEMMA SchedInvStep == SchedInv /\ [Next]_vars => SchedInv'
<1> SUFFICES ASSUME SchedInv, [Next]_vars PROVE SchedInv'
    OBVIOUS
<1>0. TypeOK /\ IsFiniteSet(Registered) /\ Cardinality(Registered) \in Nat
    BY PassSetFinite DEF SchedInv, Registered
<1>1. CASE Start
    <2>1. Registered = {} /\ Registered' = {}
        BY <1>1 DEF Start, SchedInv, Registered, Looping
    <2>2. QED
        BY <1>0, <1>1, <2>1 DEF Start, SchedInv, TypeOK, Loc
<1>2. CASE Stop
    BY <1>2 DEF Stop, SchedInv, TypeOK, Registered
<1>3. CASE WaitReturns
    BY <1>3 DEF WaitReturns, SchedInv, TypeOK, Registered
<1>4. ASSUME NEW p \in Passes, Register(p) PROVE SchedInv'
    <2>1. g[p] = "spawned" /\ g' = [g EXCEPT ![p] = "select"] /\ wg' = wg + 1
          /\ UNCHANGED <<main, cancelled>> /\ main # "init"
        BY <1>4 DEF Register, SchedInv
    <2>2. Registered' = Registered \cup {p} /\ p \notin Registered
        BY <1>0, <2>1 DEF Registered, Looping, TypeOK
    <2>3. Cardinality(Registered') = Cardinality(Registered) + 1
        BY <1>0, <2>2, FS_AddElement
    <2>4. QED
        BY <1>0, <2>1, <2>3 DEF SchedInv, TypeOK, Loc
<1>5. ASSUME NEW p \in Passes,
             \/ Tick(p) \/ Finish(p) \/ DoneCase(p) \/ Loop(p)
      PROVE  SchedInv'
    <2>1. PICK l \in Loc : /\ g' = [g EXCEPT ![p] = l]
                           /\ (l \in Looping) = (g[p] \in Looping)
                           /\ g[p] # "none" /\ l # "none"
                           /\ UNCHANGED <<main, cancelled, wg>>
        BY <1>5 DEF Tick, Finish, DoneCase, Loop, Loc, Looping
    <2>2. Registered' = Registered
        BY <1>0, <2>1, SameRegistered
    <2>3. QED
        BY <1>0, <2>1, <2>2 DEF SchedInv, TypeOK
<1>6. CASE UNCHANGED vars
    BY <1>6 DEF vars, SchedInv, TypeOK, Registered
<1>7. QED
    BY <1>1, <1>2, <1>3, <1>4, <1>5, <1>6 DEF Next, Goroutine

(***************************************************************************)
(* Stop's wg.Wait returns only when no goroutine of run is inside its      *)
(* loop, for every set of passes: a goroutine is counted from its          *)
(* wg.Add(1) on, and no goroutine ever reaches its wg.Done.                *)
(***************************************************************************)
THEOREM WaitAfterLoopsHolds == Spec => WaitAfterLoops
<1>1. SchedInv /\ [Next]_vars => [ReturnsAfterLoops]_vars
    <2> SUFFICES ASSUME SchedInv, [Next]_vars,
                        main' = "returned", main # "returned"
                 PROVE  \A p \in Passes : g[p] \notin Looping
        BY DEF ReturnsAfterLoops
    <2>1. WaitReturns
        BY DEF Next, Goroutine, Start, Stop, Register, Tick, Finish, DoneCase,
               Loop, vars
    <2>2. Cardinality(Registered) = 0 /\ IsFiniteSet(Registered)
        BY <2>1, PassSetFinite DEF WaitReturns, SchedInv, Registered
    <2>3. Registered = {}
        BY <2>2, FS_EmptySet
    <2>4. QED
        BY <2>3 DEF Registered
<1>2. QED
    BY <1>1, InitSchedInv, SchedInvStep, PTL DEF Spec, WaitAfterLoops
=============================================================================
