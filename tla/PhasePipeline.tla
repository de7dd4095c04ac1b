--------------------------- MODULE PhasePipeline ---------------------------
(***************************************************************************)
(* One phase of the development workflow: a plan of tasks ordered by their *)
(* dependencies, an agent per task, the gate of shell commands, a review,  *)
(* and the verdict.  The agents are outside the repository: they answer    *)
(* what their reply schema allows, or nothing.                             *)
(***************************************************************************)
EXTENDS Collections, SequencesExt

CONSTANTS
  PhasePlans,  \* bound: plans, sequences of tasks [id, deps]
  PhaseGates   \* the gates of the phase: a sequence of BOOLEAN, required or not

(* What TASKS_SCHEMA asks of the plan, and the gates of gates.mjs. *)
ASSUME PhaseAssumption ==
  /\ \A plan \in PhasePlans : plan \in Seq([id : STRING, deps : SUBSET STRING])
  /\ PhaseGates \in Seq(BOOLEAN)

VARIABLES
  ppPlan,     \* the plan of the decomposing agent
  ppStage,    \* implement, gate, review or returned
  ppResults,  \* taskResults: the task and its status
  ppExits,    \* how each gate's process ended
  ppGate,     \* the gate report: "pass", "fail" or "null"
  ppPass      \* the verdict

ppVars == <<ppPlan, ppStage, ppResults, ppExits, ppGate, ppPass>>

-----------------------------------------------------------------------------
(* One sweep over the plan takes every task whose dependencies are done or      *)
(* unknown; a task whose id is done is passed over.                             *)
Known(plan) == {plan[i].id : i \in DOMAIN plan}
DoneIds(order) == {order[i].id : i \in DOMAIN order}

Visit(plan, order, t) ==
  IF t.id \notin DoneIds(order) /\ t.deps \cap Known(plan) \subseteq DoneIds(order)
  THEN Append(order, t) ELSE order

(* The order after the first i tasks of a sweep, for every i. *)
SweepUpTo(plan, order) ==
  LET swept[i \in 0 .. Len(plan)] ==
        IF i = 0 THEN order ELSE Visit(plan, swept[i - 1], plan[i])
  IN swept

Sweep(plan, order) == SweepUpTo(plan, order)[Len(plan)]

SweepUnlessAll(plan, order) == IF Len(order) < Len(plan) THEN Sweep(plan, order) ELSE order

(* The order after k sweeps, n * n of them at most. *)
SweepsUpTo(plan) ==
  LET swept[k \in 0 .. Len(plan) * Len(plan)] ==
        IF k = 0 THEN <<>> ELSE SweepUnlessAll(plan, swept[k - 1])
  IN swept

(* Bug: the plan is run in the order it was written. *)
topoAsGiven(plan) == plan

(* Sweeps until all are ordered; what is left over is in a cycle, or hangs on   *)
(* one, and follows in the order of the plan.                                   *)
topo(plan) ==
  LET order == SweepsUpTo(plan)[Len(plan) * Len(plan)]
  IN order \o Picked(plan, {i \in DOMAIN plan : plan[i].id \notin DoneIds(order)})

(* How a gate's process may end: killed by the timeout it has an error and no   *)
(* status; signalled by another it has neither.                                 *)
Exits == {"zero", "nonzero", "not found", "127", "spawn error", "timeout", "signal"}

Code(exit) == CASE exit = "zero" -> 0
                [] exit \in {"127", "spawn error", "timeout"} -> 127
                [] OTHER -> 1

classifyExit(exit) == CASE Code(exit) = 0 -> "pass"
                    [] Code(exit) = 127 \/ exit = "not found" -> "env-missing"
                    [] OTHER -> "fail"

runGate(exits) ==
  IF \E i \in DOMAIN exits : PhaseGates[i] /\ classifyExit(exits[i]) = "fail" THEN "fail" ELSE "pass"

-----------------------------------------------------------------------------
PhaseInit ==
  /\ ppPlan \in PhasePlans /\ ppStage = "implement"
  /\ ppResults = <<>> /\ ppExits = <<>> /\ ppGate = "null" /\ ppPass = FALSE

(* Bug: a blocked task does not stop the ones after it. *)
StopsNever(results) == FALSE

Stops(results) == results # <<>> /\ Last(results).status = "blocked"

(* The next task's agent answers; "null" is an agent that gave no result. *)
Implement ==
  /\ ppStage = "implement"
  /\ IF Stops(ppResults) \/ Len(ppResults) = Len(topo(ppPlan))
       THEN ppStage' = "gate" /\ UNCHANGED ppResults
       ELSE /\ \E status \in {"done", "flagged", "blocked", "null"} :
                 ppResults' = Append(ppResults,
                   [task |-> topo(ppPlan)[Len(ppResults) + 1], status |-> status])
            /\ UNCHANGED ppStage
  /\ UNCHANGED <<ppPlan, ppExits, ppGate, ppPass>>

(* The gate's agent runs the gates and reports their verdict, a failed visual   *)
(* assertion over it, or nothing.                                               *)
Gate ==
  /\ ppStage = "gate"
  /\ ppStage' = "review"
  /\ ppExits' \in [DOMAIN PhaseGates -> Exits]
  /\ ppGate' \in {runGate(ppExits'), "fail", "null"}
  /\ UNCHANGED <<ppPlan, ppResults, ppPass>>

Blocked(results) == \E i \in DOMAIN results : results[i].status = "blocked"

(* The review's agent answers whether something blocking remains, or nothing. *)
Review ==
  /\ ppStage = "review"
  /\ ppStage' = "returned"
  /\ \E review \in {"blocking", "clean", "null"} :
       ppPass' = (ppGate = "pass" /\ review # "blocking" /\ ~Blocked(ppResults))
  /\ UNCHANGED <<ppPlan, ppResults, ppExits, ppGate>>

PhaseNext == Implement \/ Gate \/ Review

PhaseSpec == PhaseInit /\ [][PhaseNext]_ppVars

-----------------------------------------------------------------------------
(* The tasks that can be done after their dependencies: those that reach no     *)
(* cycle, the least set closed under "all known dependencies are in it".        *)
Doable(plan) ==
  LET Closed(S) == \A i \in DOMAIN plan :
        plan[i].deps \cap Known(plan) \subseteq S => plan[i].id \in S
  IN {id \in Known(plan) : \A S \in SUBSET Known(plan) : Closed(S) => id \in S}

(* An agent builds on finished work: a task that reaches no cycle is given out  *)
(* only after its dependencies, none of which was blocked; and a phase passes   *)
(* only when every id of its plan was worked on, none was blocked, and no       *)
(* required gate ran to an exit other than zero.  A gate the timeout killed is  *)
(* let through as a missing tool is (run-gate.mjs:15).                          *)
PassedPhasesAreWhole ==
  /\ \A i \in DOMAIN ppResults :
       ppResults[i].task.id \in Doable(ppPlan) =>
         \A d \in ppResults[i].task.deps \cap Known(ppPlan) :
           \E j \in 1 .. i - 1 : ppResults[j].task.id = d /\ ppResults[j].status # "blocked"
  /\ ppPass =>
       /\ {ppResults[i].task.id : i \in DOMAIN ppResults} = Known(ppPlan)
       /\ \A i \in DOMAIN ppResults : ppResults[i].status # "blocked"
       /\ \A i \in DOMAIN ppExits : PhaseGates[i] => ppExits[i] \notin {"nonzero", "signal"}
=============================================================================
