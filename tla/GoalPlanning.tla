---------------------------- MODULE GoalPlanning ----------------------------
(***************************************************************************)
(* From a goal to its first plan (core/mesh.py, storage/redis_store.py).   *)
(* A goal is registered once; a planner worker on any node takes a lease   *)
(* on it, compiles it in a long model call and publishes the plan, whose   *)
(* work the mesh then begins.  Callers wait for that, and may be cancelled.*)
(* The lease may run out while its holder compiles, and nodes drain, stop  *)
(* and crash.  A step is a call of the store, or what happens between two  *)
(* awaits; what becomes of the work is StepLedger.                         *)
(***************************************************************************)
EXTENDS Naturals, FiniteSets

CONSTANTS
  Nodes,
  Goals,
  Callers,      \* coroutines that run execute_goal
  GoalOf,       \* the goal of each
  Free, NoPlan, NoGoal,
  MaxGoals,     \* bound of the goals that are registered
  MaxTroubles   \* bound of the drains, crashes, leases lost at work and
                \* callers that give up

ASSUME PlanningAssumption ==
  /\ GoalOf \in [Callers -> Goals]
  /\ Free \notin Nodes
  /\ NoPlan \notin Nodes \cup Callers
  /\ Nodes \cap Callers = {}
  /\ NoGoal \notin Goals
  /\ MaxGoals \in Nat /\ MaxTroubles \in Nat

VARIABLES
  goals,      \* those with a workflow_goal record
  pending,    \* jarviscore:pending_goal_plans
  plan,       \* the definition and graph of each, named for who made it
  status,     \* workflow_planning_status
  lock,       \* workflow_planning_lock
  tombstone,  \* workflow_cancelled
  mode,       \* of each node: up, draining or stopped
  todo,       \* the goals each planner worker read from the index
  planner,    \* what it is at, and with which goal
  lapsed,     \* its lease ran out or was taken from it (history)
  caller,     \* how far each caller is
  troubles

store == <<goals, pending, plan, status, lock, tombstone>>
planners == <<todo, planner, lapsed>>
planning == <<store, mode, planners, caller, troubles>>

Statuses == {"none", "planning", "published", "failed"}
Authors == Nodes \cup Callers
Idle == [at |-> "idle", goal |-> NoGoal]

(* A planner that was granted the lease and has not given it back.         *)
Engaged == {"claimed", "planning", "failing", "unindexing", "releasing"}
Stages == {"idle", "looked"} \cup Engaged

Waiting == {"submitted", "waiting", "checking", "refused"}
Ended == {"told", "failed", "cancelled", "gone"}

PlanningTypeOK ==
  /\ goals \subseteq Goals /\ pending \subseteq Goals
  /\ plan \in [Goals -> Authors \cup {NoPlan}]
  /\ status \in [Goals -> Statuses]
  /\ lock \in [Goals -> Nodes \cup {Free}]
  /\ tombstone \subseteq Goals
  /\ mode \in [Nodes -> {"up", "draining", "stopped"}]
  /\ todo \in [Nodes -> SUBSET Goals]
  /\ planner \in [Nodes -> [at : Stages, goal : Goals \cup {NoGoal}]]
  /\ \A n \in Nodes : planner[n].goal = NoGoal <=> planner[n].at = "idle"
  /\ lapsed \in [Nodes -> BOOLEAN]
  /\ caller \in [Callers -> {"new", "following"} \cup Waiting \cup Ended]
  /\ troubles \in 0..MaxTroubles

PlanningInit ==
  /\ goals = {} /\ pending = {}
  /\ plan = [g \in Goals |-> NoPlan]
  /\ status = [g \in Goals |-> "none"]
  /\ lock = [g \in Goals |-> Free]
  /\ tombstone = {}
  /\ mode = [n \in Nodes |-> "up"]
  /\ todo = [n \in Nodes |-> {}]
  /\ planner = [n \in Nodes |-> Idle]
  /\ lapsed = [n \in Nodes |-> FALSE]
  /\ caller = [c \in Callers |-> "new"]
  /\ troubles = 0

Planned(g) == plan[g] # NoPlan

Room(g) == g \in goals \/ Cardinality(goals) < MaxGoals

Trouble == troubles < MaxTroubles /\ troubles' = troubles + 1

-----------------------------------------------------------------------------
(* Submitting a goal                                                       *)

(* register_workflow_goal: nothing new if the goal or its plan exists.     *)
Submit(g) ==
  /\ goals' = goals \cup {g}
  /\ pending' = IF g \in goals \/ Planned(g) THEN pending ELSE pending \cup {g}
  /\ UNCHANGED <<plan, status, lock, tombstone>>

(* register_planned_workflow: a valid template is the plan of a goal that  *)
(* has none.                                                               *)
SubmitPlan(g, c) ==
  /\ goals' = goals \cup {g}
  /\ IF Planned(g)
     THEN UNCHANGED <<plan, pending, status>>
     ELSE /\ plan' = [plan EXCEPT ![g] = c]
          /\ pending' = pending \ {g}
          /\ status' = [status EXCEPT ![g] = "published"]
  /\ UNCHANGED <<lock, tombstone>>

CallerGoes(c, from, to) ==
  /\ caller[c] = from
  /\ caller' = [caller EXCEPT ![c] = to]

CallGoal(c) ==
  /\ CallerGoes(c, "new", "submitted")
  /\ Room(GoalOf[c])
  /\ Submit(GoalOf[c]) \/ SubmitPlan(GoalOf[c], c)
  /\ UNCHANGED <<mode, planners, troubles>>

(* The caller reads the definition once it has submitted the goal.         *)
ReadDefinition(c) ==
  /\ CallerGoes(c, "submitted", IF Planned(GoalOf[c]) THEN "following" ELSE "waiting")
  /\ UNCHANGED <<store, mode, planners, troubles>>

(* It waits: it reads the status, and then the definition.                 *)
PollStatus(c) ==
  /\ CallerGoes(c, "waiting", IF status[GoalOf[c]] = "failed" THEN "refused" ELSE "checking")
  /\ UNCHANGED <<store, mode, planners, troubles>>

PollDefinition(c) ==
  /\ CallerGoes(c, "checking", IF Planned(GoalOf[c]) THEN "following" ELSE "waiting")
  /\ UNCHANGED <<store, mode, planners, troubles>>

(* It reads the status again to tell a failure from a timeout.             *)
LearnFailure(c) ==
  /\ CallerGoes(c, "refused", IF status[GoalOf[c]] = "failed" THEN "told" ELSE "failed")
  /\ UNCHANGED <<store, mode, planners, troubles>>

(* cancel_workflow: a goal without a graph is not cancelled.               *)
Cancelled(g) ==
  IF Planned(g) /\ g \notin tombstone
  THEN /\ tombstone' = tombstone \cup {g}
       /\ pending' = pending \ {g}
       /\ lock' = [lock EXCEPT ![g] = Free]
       /\ lapsed' = [n \in Nodes |-> lapsed[n] \/ lock[g] = n]
       /\ UNCHANGED <<goals, plan, status, todo, planner>>
  ELSE UNCHANGED <<store, planners>>

(* Its coroutine is cancelled while it waits.                              *)
CancelCaller(c) ==
  /\ \E at \in {"waiting", "following"} : CallerGoes(c, at, "cancelled")
  /\ Trouble
  /\ Cancelled(GoalOf[c])
  /\ UNCHANGED mode

TimeOut(c) ==
  /\ \E at \in {"waiting", "following"} : CallerGoes(c, at, "gone")
  /\ Trouble
  /\ UNCHANGED <<store, mode, planners>>

-----------------------------------------------------------------------------
(* The planner worker of a node                                            *)

PlannerGoes(n, from, to) ==
  /\ planner[n].at = from
  /\ planner' = [planner EXCEPT ![n] = IF to = "idle" THEN Idle ELSE [@ EXCEPT !.at = to]]

Scan(n) ==
  /\ mode[n] # "stopped" /\ planner[n] = Idle /\ todo[n] = {}
  /\ pending # {}
  /\ todo' = [todo EXCEPT ![n] = pending]
  /\ UNCHANGED <<store, mode, planner, lapsed, caller, troubles>>

Look(n, g) ==
  /\ planner[n] = Idle /\ g \in todo[n]
  /\ todo' = [todo EXCEPT ![n] = @ \ {g}]
  /\ planner' = [planner EXCEPT ![n] = IF Planned(g) THEN Idle
                                       ELSE [at |-> "looked", goal |-> g]]
  /\ UNCHANGED <<store, mode, lapsed, caller, troubles>>

(* claim_workflow_planning: a key that is set if there is none.            *)
Claim(n) ==
  LET g == planner[n].goal IN
  /\ PlannerGoes(n, "looked", IF lock[g] = Free THEN "claimed" ELSE "idle")
  /\ lock' = IF lock[g] = Free THEN [lock EXCEPT ![g] = n] ELSE lock
  /\ UNCHANGED <<goals, pending, plan, status, tombstone, mode, todo, lapsed,
                 caller, troubles>>

Start(n) ==
  /\ PlannerGoes(n, "claimed", "planning")
  /\ status' = [status EXCEPT ![planner[n].goal] = "planning"]
  /\ UNCHANGED <<goals, pending, plan, lock, tombstone, mode, todo, lapsed,
                 caller, troubles>>

(* publish_workflow replaces whatever plan there is.                       *)
Publish(n) ==
  LET g == planner[n].goal IN
  /\ PlannerGoes(n, "planning", "releasing")
  /\ plan' = [plan EXCEPT ![g] = n]
  /\ pending' = pending \ {g}
  /\ status' = [status EXCEPT ![g] = "published"]
  /\ UNCHANGED <<goals, lock, tombstone, mode, todo, lapsed, caller, troubles>>

(* The goal cannot be compiled; the failure is recorded in two calls.      *)
FailPlan(n) ==
  /\ PlannerGoes(n, "planning", "failing")
  /\ UNCHANGED <<store, mode, todo, lapsed, caller, troubles>>

MutantFailStatus(n) ==
  /\ PlannerGoes(n, "failing", "releasing")
  /\ pending' = pending \ {planner[n].goal}
  /\ UNCHANGED <<goals, plan, status, lock, tombstone, mode, todo, lapsed,
                 caller, troubles>>

FailStatus(n) ==
  /\ PlannerGoes(n, "failing", "unindexing")
  /\ status' = [status EXCEPT ![planner[n].goal] = "failed"]
  /\ UNCHANGED <<goals, pending, plan, lock, tombstone, mode, todo, lapsed,
                 caller, troubles>>

MutantUnindex(n) ==
  /\ PlannerGoes(n, "unindexing", "releasing")
  /\ UNCHANGED <<store, mode, todo, lapsed, caller, troubles>>

Unindex(n) ==
  /\ PlannerGoes(n, "unindexing", "releasing")
  /\ pending' = pending \ {planner[n].goal}
  /\ UNCHANGED <<goals, plan, status, lock, tombstone, mode, todo, lapsed,
                 caller, troubles>>

MutantReleasable(n) == TRUE
Releasable(n) == lock[planner[n].goal] = n

(* release_workflow_planning, by the lease's owner only.                   *)
Release(n) ==
  /\ PlannerGoes(n, "releasing", "idle")
  /\ lock' = IF Releasable(n) THEN [lock EXCEPT ![planner[n].goal] = Free] ELSE lock
  /\ lapsed' = [lapsed EXCEPT ![n] = FALSE]
  /\ UNCHANGED <<goals, pending, plan, status, tombstone, mode, todo,
                 caller, troubles>>

(* The lease runs out, whether or not its holder is still at work.         *)
AtWork(n, g) == planner[n].goal = g /\ planner[n].at \in Engaged

Expire(g) ==
  LET n == lock[g] IN
  /\ n # Free
  /\ IF AtWork(n, g) THEN Trouble ELSE UNCHANGED troubles
  /\ lock' = [lock EXCEPT ![g] = Free]
  /\ lapsed' = [lapsed EXCEPT ![n] = @ \/ AtWork(n, g)]
  /\ UNCHANGED <<goals, pending, plan, status, tombstone, mode, todo, planner, caller>>

-----------------------------------------------------------------------------
(* A node's life                                                           *)

Drain(n) ==
  /\ mode[n] = "up"
  /\ mode' = [mode EXCEPT ![n] = "draining"]
  /\ Trouble
  /\ UNCHANGED <<store, planners, caller>>

(* Its tasks are cancelled where they wait; a planner that compiles gives  *)
(* back its lease.                                                         *)
StopPlanner(n) ==
  /\ mode[n] = "draining"
  /\ mode' = [mode EXCEPT ![n] = "stopped"]
  /\ (planner[n] = Idle /\ todo[n] = {}) \/ planner[n].at = "planning"
  /\ planner' = [planner EXCEPT ![n] = IF @ = Idle THEN Idle ELSE [@ EXCEPT !.at = "releasing"]]
  /\ todo' = [todo EXCEPT ![n] = {}]
  /\ UNCHANGED <<store, lapsed, caller, troubles>>

(* Its process dies, and is started again.                                 *)
CrashPlanner(n) ==
  /\ Trouble
  /\ mode' = [mode EXCEPT ![n] = "up"]
  /\ todo' = [todo EXCEPT ![n] = {}]
  /\ planner' = [planner EXCEPT ![n] = Idle]
  /\ lapsed' = [lapsed EXCEPT ![n] = FALSE]
  /\ UNCHANGED <<store, caller>>

-----------------------------------------------------------------------------
CallerStep(c) ==
  CallGoal(c) \/ ReadDefinition(c) \/ PollStatus(c) \/ PollDefinition(c) \/ LearnFailure(c)

PlannerStep(n) ==
  \/ Scan(n) \/ (\E g \in Goals : Look(n, g)) \/ Claim(n) \/ Start(n)
  \/ Publish(n) \/ FailPlan(n) \/ FailStatus(n) \/ Unindex(n) \/ Release(n)

PlanningStep ==
  \/ \E c \in Callers : CallerStep(c) \/ CancelCaller(c) \/ TimeOut(c)
  \/ \E n \in Nodes : PlannerStep(n) \/ Drain(n)
  \/ \E g \in Goals : Expire(g)

-----------------------------------------------------------------------------
(* Properties                                                              *)

(* A planner that compiles a goal holds its lease, unless the lease ran    *)
(* out or a cancellation took it: so at most one planner compiles a goal   *)
(* while it holds the lease, and a late one does not end another's.        *)
LeaseIsKept ==
  \A n \in Nodes :
    planner[n].at \in Engaged => lapsed[n] \/ lock[planner[n].goal] = n

(* A goal leaves the index of pending goals only with a plan or once a     *)
(* planner took it up, and without a disturbance only when its failure is  *)
(* on record, or overwritten by a planner that still works on a list from  *)
(* before and will record its own outcome.                                 *)
NoGoalIsForgotten ==
  \A g \in goals \ pending :
    ~ Planned(g) =>
      /\ status[g] # "none"
      /\ status[g] = "failed" \/ troubles > 0 \/ \E n \in Nodes : AtWork(n, g)

(* Every submitted goal is planned or fails, as long as a node is up.      *)
EveryGoalIsPlanned ==
  pending # {} ~> (pending = {} \/ \A n \in Nodes : mode[n] # "up")
=============================================================================
