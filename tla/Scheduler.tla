------------------------------ MODULE Scheduler ------------------------------
(***************************************************************************)
(* The run loop of the statistics engine: Stats.Start launches one         *)
(* goroutine per pass, each running Stats.run, which registers itself in   *)
(* the WaitGroup and then selects forever between its ticker and the       *)
(* context's Done channel; Stats.Stop cancels the context and waits on the *)
(* WaitGroup (crosschainstats.go, lines 73-107).                           *)
(*                                                                         *)
(* The body of a pass is abstracted to "busy": what a pass does is the     *)
(* subject of the other modules.                                           *)
(***************************************************************************)
EXTENDS Naturals, FiniteSets

CONSTANT Passes     \* the passes started by Start (model values)

ASSUME PassesAssumption == IsFiniteSet(Passes) /\ Passes # {}

VARIABLES
    main,       \* "init", "started", "waiting" (inside Stop), "returned"
    cancelled,  \* the context has been cancelled
    wg,         \* the WaitGroup counter
    g           \* g[p]: where the goroutine of pass p is

vars == <<main, cancelled, wg, g>>

(***************************************************************************)
(* Goroutine locations: "none" before Start, "spawned" before its first    *)
(* statement, "select" at the select, "busy" inside f(), "broke" after the *)
(* break of the Done case, "exited" past the loop.                         *)
(***************************************************************************)
Loc == {"none", "spawned", "select", "busy", "broke", "exited"}

TypeOK ==
    /\ main \in {"init", "started", "waiting", "returned"}
    /\ cancelled \in BOOLEAN
    /\ wg \in Nat
    /\ g \in [Passes -> Loc]

Init ==
    /\ main = "init"
    /\ cancelled = FALSE
    /\ wg = 0
    /\ g = [p \in Passes |-> "none"]

\* Start (lines 90-101): one go statement per pass.
Start ==
    /\ main = "init"
    /\ main' = "started"
    /\ g' = [p \in Passes |-> "spawned"]
    /\ UNCHANGED <<cancelled, wg>>

\* Lines 74-75: the goroutine's first statements, wg.Add(1) and the ticker.
Register(p) ==
    /\ g[p] = "spawned"
    /\ wg' = wg + 1
    /\ g' = [g EXCEPT ![p] = "select"]
    /\ UNCHANGED <<main, cancelled>>

\* Lines 78-79: the ticker case is chosen and f() runs.
Tick(p) ==
    /\ g[p] = "select"
    /\ g' = [g EXCEPT ![p] = "busy"]
    /\ UNCHANGED <<main, cancelled, wg>>

\* Mutant (checks PassesRecur): a failing f() makes run return.
FinishReturns(p) ==
    /\ g[p] = "busy"
    /\ g' = [g EXCEPT ![p] = "exited"]
    /\ wg' = wg - 1
    /\ UNCHANGED <<main, cancelled>>

\* Lines 79-82: f() returns; an error is logged and the loop goes on.
Finish(p) ==
    /\ g[p] = "busy"
    /\ g' = [g EXCEPT ![p] = "select"]
    /\ UNCHANGED <<main, cancelled, wg>>

(***************************************************************************)
(* Lines 83-84: the Done case is chosen once the context is cancelled;     *)
(* break leaves the select only, and the for loop selects again.           *)
(***************************************************************************)
DoneCase(p) ==
    /\ g[p] = "select"
    /\ cancelled
    /\ g' = [g EXCEPT ![p] = "broke"]
    /\ UNCHANGED <<main, cancelled, wg>>

\* Line 76: the end of the loop body; back to the select.
Loop(p) ==
    /\ g[p] = "broke"
    /\ g' = [g EXCEPT ![p] = "select"]
    /\ UNCHANGED <<main, cancelled, wg>>

\* Stop (lines 103-106): cancel the context, then wait.
Stop ==
    /\ main = "started"
    /\ main' = "waiting"
    /\ cancelled' = TRUE
    /\ UNCHANGED <<wg, g>>

\* Mutant (checks WaitAfterLoops): Stop returns without waiting.
WaitReturnsAtOnce ==
    /\ main = "waiting"
    /\ main' = "returned"
    /\ UNCHANGED <<cancelled, wg, g>>

\* Line 106: wg.Wait returns once the counter is zero.
WaitReturns ==
    /\ main = "waiting"
    /\ wg = 0
    /\ main' = "returned"
    /\ UNCHANGED <<cancelled, wg, g>>

Goroutine(p) ==
    \/ Register(p)
    \/ Tick(p)
    \/ Finish(p)
    \/ DoneCase(p)
    \/ Loop(p)

Next ==
    \/ Start
    \/ Stop
    \/ WaitReturns
    \/ \E p \in Passes : Goroutine(p)

(***************************************************************************)
(* The Go scheduler runs every runnable goroutine eventually, and a ticker *)
(* keeps firing: every goroutine step is weakly fair, and so is the return *)
(* of Wait.  Whether and when the caller invokes Start and Stop is not.    *)
(***************************************************************************)
Fairness ==
    /\ \A p \in Passes : WF_vars(Goroutine(p))
    /\ WF_vars(WaitReturns)

Spec == Init /\ [][Next]_vars /\ Fairness

-----------------------------------------------------------------------------
(* Properties                                                              *)

(***************************************************************************)
(* While the engine stays up, every pass is run again and again: the       *)
(* fairness the pass modules assume of their start step.  It fails if a    *)
(* goroutine of run can leave its loop while the engine is up.             *)
(***************************************************************************)
PassesRecur ==
    \A p \in Passes : []<>(main = "started" => g[p] = "busy")

\* The locations of a goroutine that has run wg.Add(1) and not wg.Done.
Looping == {"select", "busy", "broke"}

(***************************************************************************)
(* Stop's wg.Wait (line 106) returns only when no goroutine of run is      *)
(* inside its loop: every goroutine that has run its wg.Add(1) (line 74)   *)
(* is counted until it leaves.  It fails if a goroutine is not counted or  *)
(* Wait does not wait for the counter.                                     *)
(***************************************************************************)
ReturnsAfterLoops ==
    main' = "returned" /\ main # "returned" => \A p \in Passes : g[p] \notin Looping

WaitAfterLoops == [][ReturnsAfterLoops]_vars

(***************************************************************************)
(* Stop returns: StopCrossChainStats, once called, eventually returns.     *)
(***************************************************************************)
StopReturns == (main = "waiting") ~> (main = "returned")

=============================================================================
