--------------------------- MODULE SchedulesProofs ---------------------------
(***************************************************************************)
(* Proofs about GoalPlanning and Schedules, for any nodes, goals, callers  *)
(* and schedules, any clock and any number of disturbances.                *)
(***************************************************************************)
EXTENDS Schedules, TLAPS

(* A planner that moves on stays a record of its type.                     *)
LEMMA PlannerType ==
  ASSUME PlanningTypeOK, NEW n \in Nodes, NEW from \in Stages \ {"idle"},
         NEW to \in Stages, PlannerGoes(n, from, to)
  PROVE  /\ planner' \in [Nodes -> [at : Stages, goal : Goals \cup {NoGoal}]]
         /\ \A m \in Nodes : planner'[m].goal = NoGoal <=> planner'[m].at = "idle"
         /\ planner[n].goal \in Goals
         /\ \A m \in Nodes \ {n} : planner'[m] = planner[m]
         /\ planner'[n].at = to
         /\ to # "idle" => planner'[n].goal = planner[n].goal
<1> DEFINE next == IF to = "idle" THEN Idle ELSE [planner[n] EXCEPT !.at = to]
<1>1. planner' = [planner EXCEPT ![n] = next]
  BY DEF PlannerGoes
<1>2. planner[n].goal \in Goals
  BY DEF PlannerGoes, PlanningTypeOK
<1>3. /\ next \in [at : Stages, goal : Goals \cup {NoGoal}]
      /\ next.at = to
      /\ next.goal = NoGoal <=> next.at = "idle"
      /\ to # "idle" => next.goal = planner[n].goal
  <2>1. planner[n] \in [at : Stages, goal : Goals \cup {NoGoal}]
    BY DEF PlanningTypeOK
  <2>2. CASE to = "idle"
    BY <2>2 DEF Idle, Stages
  <2>3. CASE to # "idle"
    <3>1. planner[n].goal # NoGoal
      BY <1>2, PlanningAssumption DEF PlanningAssumption
    <3> QED BY <2>1, <2>3, <3>1
  <2> QED BY <2>2, <2>3
<1> HIDE DEF next
<1> QED BY <1>1, <1>2, <1>3 DEF PlanningTypeOK

LEMMA CallersType ==
  ASSUME PlanningTypeOK,
         \E c \in Callers : CallerStep(c) \/ CancelCaller(c) \/ TimeOut(c)
  PROVE  PlanningTypeOK'
<1> PICK c \in Callers : CallerStep(c) \/ CancelCaller(c) \/ TimeOut(c)
  OBVIOUS
<1> USE PlanningAssumption DEF PlanningAssumption
<1>1. CASE CallGoal(c)
  <2>1. CASE Submit(GoalOf[c])
    BY <1>1, <2>1 DEF CallGoal, Submit, CallerGoes, PlanningTypeOK, planners, Waiting
  <2>2. CASE SubmitPlan(GoalOf[c], c)
    <3>1. plan' \in [Goals -> Authors \cup {NoPlan}] /\ status' \in [Goals -> Statuses]
      <4>1. CASE Planned(GoalOf[c])
        BY <2>2, <4>1 DEF SubmitPlan, PlanningTypeOK
      <4>2. CASE ~Planned(GoalOf[c])
        <5>1. /\ plan' = [plan EXCEPT ![GoalOf[c]] = c]
              /\ status' = [status EXCEPT ![GoalOf[c]] = "published"]
          BY <2>2, <4>2 DEF SubmitPlan
        <5> QED BY <5>1 DEF PlanningTypeOK, Authors, Statuses
      <4> QED BY <4>1, <4>2
    <3>2. caller' \in [Callers -> {"new", "following"} \cup Waiting \cup Ended]
      BY <1>1 DEF CallGoal, CallerGoes, PlanningTypeOK, Waiting
    <3> QED BY <1>1, <2>2, <3>1, <3>2 DEF CallGoal, SubmitPlan, PlanningTypeOK, planners
  <2> QED BY <1>1, <2>1, <2>2 DEF CallGoal
<1>2. CASE ReadDefinition(c) \/ PollStatus(c) \/ PollDefinition(c) \/ LearnFailure(c)
  BY <1>2 DEF ReadDefinition, PollStatus, PollDefinition, LearnFailure, CallerGoes,
              PlanningTypeOK, store, planners, Waiting, Ended
<1>3. CASE CancelCaller(c)
  <2> DEFINE g == GoalOf[c]
  <2>1. /\ caller' \in [Callers -> {"new", "following"} \cup Waiting \cup Ended]
        /\ mode' = mode /\ troubles' \in 0..MaxTroubles
    BY <1>3 DEF CancelCaller, Trouble, CallerGoes, PlanningTypeOK, Ended
  <2>2. CASE ~ (Planned(g) /\ g \notin tombstone)
    BY <1>3, <2>1, <2>2 DEF CancelCaller, Cancelled, PlanningTypeOK, store, planners
  <2>3. CASE Planned(g) /\ g \notin tombstone
    <3>1. lapsed' = [n \in Nodes |-> lapsed[n] \/ lock[g] = n]
      BY <1>3, <2>3 DEF CancelCaller, Cancelled
    <3>2. lapsed' \in [Nodes -> BOOLEAN]
      BY <3>1, Zenon
    <3> QED BY <1>3, <2>1, <2>3, <3>2 DEF CancelCaller, Cancelled, PlanningTypeOK
  <2> QED BY <2>2, <2>3
<1>4. CASE TimeOut(c)
  BY <1>4 DEF TimeOut, Trouble, CallerGoes, PlanningTypeOK, store, planners, Waiting, Ended
<1> QED BY <1>1, <1>2, <1>3, <1>4 DEF CallerStep

LEMMA PlannersType ==
  ASSUME PlanningTypeOK, NEW n \in Nodes, PlannerStep(n)
  PROVE  PlanningTypeOK'
<1> USE DEF PlanningTypeOK
<1>1. CASE Scan(n)
  BY <1>1 DEF Scan, store
<1>2. CASE \E g \in Goals : Look(n, g)
  BY <1>2, PlanningAssumption DEF Look, store, Idle, Stages, PlanningAssumption
<1>3. CASE Claim(n)
  <2>1. \E to \in {"claimed", "idle"} : PlannerGoes(n, "looked", to)
    BY <1>3 DEF Claim
  <2> QED BY <1>3, <2>1, PlannerType DEF Claim, Stages, Engaged
<1>4. CASE Start(n)
  BY <1>4, PlannerType DEF Start, Stages, Engaged, Statuses
<1>5. CASE Publish(n)
  BY <1>5, PlannerType DEF Publish, Stages, Engaged, Statuses, Authors
<1>6. CASE FailPlan(n)
  BY <1>6, PlannerType DEF FailPlan, Stages, Engaged, store
<1>7. CASE FailStatus(n)
  BY <1>7, PlannerType DEF FailStatus, Stages, Engaged, Statuses
<1>8. CASE Unindex(n)
  BY <1>8, PlannerType DEF Unindex, Stages, Engaged
<1>9. CASE Release(n)
  BY <1>9, PlannerType DEF Release, Stages, Engaged
<1> QED BY <1>1, <1>2, <1>3, <1>4, <1>5, <1>6, <1>7, <1>8, <1>9 DEF PlannerStep

LEMMA ExpireType ==
  ASSUME PlanningTypeOK, NEW g \in Goals, Expire(g)
  PROVE  PlanningTypeOK'
BY PlanningAssumption DEF Expire, AtWork, Trouble, PlanningTypeOK, PlanningAssumption

LEMMA NodesType ==
  ASSUME PlanningTypeOK, NEW n \in Nodes, Drain(n) \/ StopPlanner(n) \/ CrashPlanner(n)
  PROVE  PlanningTypeOK'
<1> USE DEF PlanningTypeOK, Trouble
<1>1. CASE Drain(n)
  BY <1>1, PlanningAssumption DEF Drain, store, planners, PlanningAssumption
<1>2. CASE StopPlanner(n)
  BY <1>2 DEF StopPlanner, store, Idle, Stages, Engaged
<1>3. CASE CrashPlanner(n)
  BY <1>3, PlanningAssumption DEF CrashPlanner, store, Idle, Stages, PlanningAssumption
<1> QED BY <1>1, <1>2, <1>3

(* What every step of the planning leaves true.                            *)
LEMMA PlanningStepType ==
  ASSUME PlanningTypeOK, PlanningStep
  PROVE  PlanningTypeOK'
BY CallersType, PlannersType, NodesType, ExpireType DEF PlanningStep

LEMMA InitType == Init => TypeOK
<1> SUFFICES ASSUME Init PROVE TypeOK
  OBVIOUS
<1> USE PlanningAssumption, SchedulesAssumption
    DEF PlanningAssumption, SchedulesAssumption, Init, PlanningInit
<1>1. PlanningTypeOK
  BY DEF PlanningTypeOK, Statuses, Idle, Stages
<1> QED BY <1>1 DEF TypeOK

(* A pass takes what is due and books its next moment.                     *)
LEMMA FollowingMoment ==
  ASSUME TypeOK, NEW s \in Names, NEW now \in 0..MaxTime, IsDue(s, now)
  PROVE  /\ due[s] \in Moments
         /\ Following(s, now) \in 0..MaxTime + 1
         /\ every[s] > 0 => Following(s, now) > due[s]
<1>1. /\ due[s] \in 0..MaxTime + 1 /\ due[s] <= now
      /\ every[s] \in 0..1 /\ MaxTime \in Nat
  BY SchedulesAssumption DEF TypeOK, IsDue, SchedulesAssumption
<1> QED BY <1>1 DEF Following, Moments

LEMMA ScheduleType ==
  ASSUME TypeOK, Next, ~ (PlanningStep /\ UNCHANGED schedules)
  PROVE  TypeOK'
<1> USE SchedulesAssumption DEF SchedulesAssumption
<1>1. CASE \E s \in Names : Add(s) \/ CancelSchedule(s)
  <2>1. PlanningTypeOK'
    BY <1>1 DEF Add, CancelSchedule, planning, store, planners, PlanningTypeOK, TypeOK
  <2> QED BY <1>1, <2>1 DEF Add, CancelSchedule, passes, TypeOK
<1>2. CASE Pass
  <2>1. PlanningTypeOK'
    BY <1>2 DEF Pass, planning, store, planners, PlanningTypeOK, TypeOK
  <2> QED BY <1>2, <2>1 DEF Pass, records, passes, TypeOK
<1>3. ASSUME NEW n \in Nodes, Poll(n) \/ (\E e \in Events : Emit(n, e))
      PROVE  TypeOK'
  <2>1. PlanningTypeOK'
    BY <1>3 DEF Poll, Emit, planning, store, planners, PlanningTypeOK, TypeOK
  <2> QED BY <1>3, <2>1 DEF Poll, Emit, records, TypeOK, Firings
<1>4. ASSUME NEW n \in Nodes, NEW s \in Names, ClaimDue(n, s)
      PROVE  TypeOK'
  <2>1. PlanningTypeOK'
    BY <1>4 DEF ClaimDue, planning, store, planners, PlanningTypeOK, TypeOK
  <2>2. /\ clock' \in 0..MaxTime /\ removed' \subseteq Names
        /\ every' \in [Names -> 0..1]
        /\ polled' \in [Nodes -> 0..MaxTime] /\ listed' \in [Nodes -> SUBSET Names]
    BY <1>4 DEF ClaimDue, TypeOK
  <2>3. /\ book' \subseteq Names /\ due' \in [Names -> 0..MaxTime + 1 \cup {Never}]
        /\ taken' \in [Nodes -> SUBSET Firings] /\ claimed' \subseteq Firings
    <3>1. CASE Claimable(s, polled[n])
      <4>1. /\ due[s] \in Moments
            /\ Following(s, polled[n]) \in 0..MaxTime + 1
        BY <3>1, FollowingMoment DEF Claimable, TypeOK
      <4>2. <<s, due[s]>> \in Firings
        BY <4>1 DEF Firings
      <4>3. book' \subseteq Names /\ due' \in [Names -> 0..MaxTime + 1 \cup {Never}]
        BY <1>4, <3>1, <4>1 DEF ClaimDue, Taken, TypeOK
      <4> QED BY <1>4, <3>1, <4>2, <4>3 DEF ClaimDue, TypeOK
    <3>2. CASE ~ Claimable(s, polled[n])
      BY <1>4, <3>2 DEF ClaimDue, TypeOK
    <3> QED BY <3>1, <3>2
  <2> QED BY <2>1, <2>2, <2>3 DEF TypeOK
<1>5. ASSUME NEW n \in Nodes, Fire(n)
      PROVE  TypeOK'
  <2>1. PlanningTypeOK'
    BY <1>5 DEF Fire, Submit, store, planners, PlanningTypeOK, TypeOK
  <2> QED BY <1>5, <2>1 DEF Fire, records, TypeOK
<1>6. ASSUME NEW n \in Nodes, Stop(n) \/ Crash(n)
      PROVE  TypeOK'
  <2>1. PlanningTypeOK'
    BY <1>6, NodesType DEF Stop, Crash, TypeOK
  <2> QED BY <1>6, <2>1 DEF Stop, Crash, records, TypeOK
<1> QED BY <1>1, <1>2, <1>3, <1>4, <1>5, <1>6 DEF Next

(* Every variable keeps its type.                                          *)
THEOREM TypeIsKept == Spec => []TypeOK
<1>1. ASSUME TypeOK, [Next]_vars PROVE TypeOK'
  <2>1. CASE PlanningStep /\ UNCHANGED schedules
    BY <1>1, <2>1, PlanningStepType DEF TypeOK, schedules, records, passes
  <2>2. CASE UNCHANGED vars
    BY <1>1, <2>2 DEF TypeOK, vars, planning, store, planners, schedules, records,
                      passes, PlanningTypeOK
  <2> QED BY <1>1, <2>1, <2>2, ScheduleType
<1> QED BY <1>1, InitType, PTL DEF Spec

-----------------------------------------------------------------------------
(* The lease                                                               *)

(* A goal's lease changes hands only by a claim of a free one, by its      *)
(* owner's release, when it runs out and by a cancellation.                *)
LEMMA LeaseStep ==
  ASSUME PlanningTypeOK, LeaseIsKept, PlanningStep
  PROVE  LeaseIsKept'
<1> USE DEF LeaseIsKept
<1>1. ASSUME NEW c \in Callers, CallerStep(c) \/ TimeOut(c)
      PROVE  LeaseIsKept'
  BY <1>1 DEF CallerStep, CallGoal, Submit, SubmitPlan, ReadDefinition, PollStatus,
              PollDefinition, LearnFailure, TimeOut, store, planners
<1>2. ASSUME NEW c \in Callers, CancelCaller(c)
      PROVE  LeaseIsKept'
  <2> DEFINE g == GoalOf[c]
  <2>1. CASE Planned(g) /\ g \notin tombstone
    <3>1. /\ lapsed' = [n \in Nodes |-> lapsed[n] \/ lock[g] = n]
          /\ lock' = [lock EXCEPT ![g] = Free] /\ planner' = planner
      BY <1>2, <2>1 DEF CancelCaller, Cancelled
    <3>2. ASSUME NEW n \in Nodes, planner[n].at \in Engaged, ~ lapsed'[n]
          PROVE  lock'[planner[n].goal] = n
      <4>1. ~ lapsed[n] /\ lock[g] # n
        BY <3>1, <3>2
      <4> QED BY <3>1, <3>2, <4>1 DEF PlanningTypeOK
    <3> QED BY <3>1, <3>2
  <2>2. CASE ~ (Planned(g) /\ g \notin tombstone)
    BY <1>2, <2>2 DEF CancelCaller, Cancelled, store, planners
  <2> QED BY <2>1, <2>2
<1>3. ASSUME NEW n \in Nodes, Scan(n) \/ (\E g \in Goals : Look(n, g)) \/ Drain(n)
      PROVE  LeaseIsKept'
  BY <1>3 DEF Scan, Look, Drain, store, planners, Idle, Engaged, PlanningTypeOK
<1>4. ASSUME NEW n \in Nodes, Claim(n)
      PROVE  LeaseIsKept'
  <2>1. \E to \in {"claimed", "idle"} : PlannerGoes(n, "looked", to)
    BY <1>4 DEF Claim
  <2>2. \A m \in Nodes \ {n} : planner'[m] = planner[m]
    BY <2>1, PlannerType DEF Stages, Engaged
  <2>3. CASE lock[planner[n].goal] = Free
    <3>1. planner'[n].goal = planner[n].goal /\ planner[n].goal \in Goals
      BY <1>4, <2>3, PlannerType DEF Claim, Stages, Engaged
    <3>2. lock' = [lock EXCEPT ![planner[n].goal] = n] /\ lapsed' = lapsed
      BY <1>4, <2>3 DEF Claim
    <3> QED BY <2>2, <2>3, <3>1, <3>2, PlanningAssumption
            DEF PlanningTypeOK, PlanningAssumption
  <2>4. CASE lock[planner[n].goal] # Free
    <3>1. planner'[n].at = "idle"
      BY <1>4, <2>4, PlannerType DEF Claim, Stages
    <3> QED BY <1>4, <2>2, <2>4, <3>1 DEF Claim, Engaged
  <2> QED BY <2>3, <2>4
<1>5. ASSUME NEW n \in Nodes, NEW to \in Engaged, NEW from \in Engaged,
             PlannerGoes(n, from, to), lock' = lock, lapsed' = lapsed
      PROVE  LeaseIsKept'
  <2>1. planner'[n].goal = planner[n].goal /\ \A m \in Nodes \ {n} : planner'[m] = planner[m]
    BY <1>5, PlannerType DEF Stages, Engaged
  <2>2. planner[n].at \in Engaged
    BY <1>5 DEF PlannerGoes
  <2> QED BY <1>5, <2>1, <2>2
<1>6. ASSUME NEW n \in Nodes, Start(n) \/ Publish(n) \/ FailPlan(n) \/ FailStatus(n) \/ Unindex(n)
      PROVE  LeaseIsKept'
  BY <1>5, <1>6 DEF Start, Publish, FailPlan, FailStatus, Unindex, store, Engaged
<1>7. ASSUME NEW n \in Nodes, Release(n)
      PROVE  LeaseIsKept'
  <2>1. /\ planner'[n].at = "idle" /\ planner[n].goal \in Goals
        /\ \A m \in Nodes \ {n} : planner'[m] = planner[m]
    BY <1>7, PlannerType DEF Release, Stages, Engaged
  <2>2. \A m \in Nodes \ {n} : lapsed'[m] = lapsed[m]
    BY <1>7 DEF Release, PlanningTypeOK
  <2>3. \A m \in Nodes \ {n}, g \in Goals : lock[g] = m => lock'[g] = m
    BY <1>7 DEF Release, Releasable, PlanningTypeOK
  <2> QED BY <2>1, <2>2, <2>3 DEF Engaged, PlanningTypeOK
<1>8. ASSUME NEW g \in Goals, Expire(g)
      PROVE  LeaseIsKept'
  <2> DEFINE holder == lock[g]
  <2>1. /\ lapsed' = [lapsed EXCEPT ![holder] = @ \/ AtWork(holder, g)]
        /\ lock' = [lock EXCEPT ![g] = Free] /\ planner' = planner /\ holder \in Nodes
    BY <1>8 DEF Expire, PlanningTypeOK
  <2>2. ASSUME NEW n \in Nodes, planner[n].at \in Engaged, ~ lapsed'[n]
        PROVE  lock'[planner[n].goal] = n
    <3>1. ~ lapsed[n]
      BY <2>1, <2>2 DEF PlanningTypeOK
    <3>2. CASE planner[n].goal = g
      <4>1. AtWork(n, g) /\ holder = n
        BY <2>2, <3>1, <3>2 DEF AtWork
      <4> QED BY <2>1, <2>2, <4>1 DEF PlanningTypeOK
    <3>3. CASE planner[n].goal # g
      BY <2>1, <2>2, <3>1, <3>3 DEF PlanningTypeOK
    <3> QED BY <3>2, <3>3
  <2> QED BY <2>1, <2>2
<1> QED BY <1>1, <1>2, <1>3, <1>4, <1>6, <1>7, <1>8 DEF PlanningStep, PlannerStep

LEMMA LeaseNextStep ==
  ASSUME TypeOK, LeaseIsKept, [Next]_vars
  PROVE  LeaseIsKept'
<1>1. CASE PlanningStep
  BY <1>1, LeaseStep DEF TypeOK
<1>2. CASE UNCHANGED <<lock, planner, lapsed>>
  BY <1>2 DEF LeaseIsKept
<1>3. ASSUME NEW n \in Nodes, Stop(n) \/ Crash(n)
      PROVE  LeaseIsKept'
  BY <1>3 DEF Stop, Crash, StopPlanner, CrashPlanner, store, Idle, Engaged, LeaseIsKept,
              TypeOK, PlanningTypeOK
<1> QED BY <1>1, <1>2, <1>3
        DEF Next, Add, CancelSchedule, Pass, Poll, ClaimDue, Emit, Fire, Submit, vars,
            planning, store, planners

(* A planner at work holds the lease of its goal unless it lost it, so two *)
(* planners that both hold theirs never work on one goal.                  *)
THEOREM LeaseHolds == Spec => []LeaseIsKept
<1>1. Init => LeaseIsKept
  BY DEF Init, PlanningInit, LeaseIsKept, Idle, Engaged
<1> QED BY <1>1, LeaseNextStep, TypeIsKept, PTL DEF Spec

-----------------------------------------------------------------------------
(* The book                                                                *)

(* A cancelled schedule is not written back.                               *)
THEOREM CancelledSchedulesStay == Spec => []RemovedStays
<1>1. Init => RemovedStays
  BY DEF Init, RemovedStays
<1>2. ASSUME TypeOK, RemovedStays, [Next]_vars PROVE RemovedStays'
  <2> USE DEF RemovedStays
  <2>1. CASE UNCHANGED <<book, due, removed>>
    BY <1>2, <2>1
  <2>2. ASSUME NEW s \in Names, Add(s) \/ CancelSchedule(s)
        PROVE  RemovedStays'
    BY <1>2, <2>2 DEF Add, CancelSchedule, TypeOK
  <2>3. ASSUME NEW n \in Nodes, NEW s \in Names, ClaimDue(n, s)
        PROVE  RemovedStays'
    BY <1>2, <2>3 DEF ClaimDue, Claimable, Taken, TypeOK
  <2> QED BY <1>2, <2>1, <2>2, <2>3
          DEF Next, Pass, Poll, Emit, Fire, Stop, Crash, vars, schedules, records
<1> QED BY <1>1, <1>2, TypeIsKept, PTL DEF Spec

(* What was claimed is past: what is due now was not claimed before.       *)
Past ==
  /\ claimed \subseteq Names \X Moments
  /\ \A s \in Names, t \in Moments : <<s, t>> \in claimed => due[s] = Never \/ due[s] > t

LEMMA PastStep ==
  ASSUME TypeOK, Past, [Next]_vars
  PROVE  Past'
<1> USE DEF Past
<1>1. CASE UNCHANGED <<due, claimed>>
  BY <1>1
<1>2. ASSUME NEW s \in Names, Add(s) \/ CancelSchedule(s)
      PROVE  Past'
  BY <1>2 DEF Add, CancelSchedule, passes, TypeOK
<1>3. ASSUME NEW n \in Nodes, NEW s \in Names, ClaimDue(n, s)
      PROVE  Past'
  <2>1. CASE ~ Claimable(s, polled[n])
    BY <1>1, <1>3, <2>1 DEF ClaimDue
  <2>2. CASE Claimable(s, polled[n])
    <3> DEFINE now == polled[n]
    <3>1. /\ due[s] \in Moments
          /\ every[s] > 0 => Following(s, now) > due[s] /\ Following(s, now) \in 0..MaxTime + 1
      BY <2>2, FollowingMoment DEF Claimable, TypeOK
    <3>2. claimed' = claimed \cup {<<s, due[s]>>}
      BY <1>3, <2>2 DEF ClaimDue
    <3>3. /\ \A r \in Names \ {s} : due'[r] = due[r]
          /\ due'[s] = Never \/ (due'[s] > due[s] /\ due'[s] \in 0..MaxTime + 1)
      BY <1>3, <2>2, <3>1 DEF ClaimDue, Taken, TypeOK
    <3>4. due[s] # Never /\ MaxTime \in Nat
      BY <2>2, SchedulesAssumption DEF Claimable, IsDue, SchedulesAssumption
    <3> QED BY <3>1, <3>2, <3>3, <3>4 DEF Moments
  <2> QED BY <2>1, <2>2
<1> QED BY <1>1, <1>2, <1>3
        DEF Next, Pass, Poll, Emit, Fire, Stop, Crash, vars, schedules, records, passes

(* Each occurrence is taken out of the book once.                          *)
THEOREM OccurrencesOnce == Spec => TakenOnce
<1> DEFINE Once == \A n \in Nodes : (taken'[n] \ taken[n]) \cap claimed = {}
<1>1. Init => Past
  BY DEF Init, PlanningInit, Past
<1>2. Spec => []Past
  BY <1>1, PastStep, TypeIsKept, PTL DEF Spec
<1>3. ASSUME TypeOK, Past, [Next]_vars PROVE [Once]_vars
  <2>1. CASE \A n \in Nodes : taken'[n] \subseteq taken[n]
    BY <2>1
  <2>2. ASSUME NEW n \in Nodes, NEW s \in Names, ClaimDue(n, s)
        PROVE  Once
    <3>1. CASE Claimable(s, polled[n])
      <4>1. due[s] \in Moments /\ due[s] # Never
        BY <1>3, <3>1, FollowingMoment DEF Claimable, IsDue, TypeOK
      <4>2. <<s, due[s]>> \notin claimed
        BY <1>3, <4>1, SchedulesAssumption DEF Past, Moments, SchedulesAssumption
      <4> QED BY <1>3, <2>2, <3>1, <4>2 DEF ClaimDue, TypeOK
    <3>2. CASE ~ Claimable(s, polled[n])
      BY <2>2, <3>2 DEF ClaimDue
    <3> QED BY <3>1, <3>2
  <2>3. ASSUME NEW n \in Nodes, NEW e \in Events, Emit(n, e)
        PROVE  Once
    <3>1. \A s \in Names : <<s, e>> \notin claimed
      BY <1>3, SchedulesAssumption DEF Past, SchedulesAssumption
    <3> QED BY <1>3, <2>3, <3>1 DEF Emit, TypeOK
  <2>4. CASE UNCHANGED taken
    BY <2>1, <2>4
  <2>5. ASSUME NEW n \in Nodes, Fire(n) \/ Stop(n) \/ Crash(n)
        PROVE  Once
    BY <1>3, <2>5 DEF Fire, Stop, Crash, TypeOK
  <2> QED BY <1>3, <2>2, <2>3, <2>4, <2>5
          DEF Next, Add, CancelSchedule, Pass, Poll, vars, schedules, passes
<1> QED BY <1>2, <1>3, TypeIsKept, PTL DEF Spec, TakenOnce

-----------------------------------------------------------------------------
(* The index of pending goals                                              *)

Undisturbed == troubles = 0 => \A n \in Nodes : ~ lapsed[n] /\ mode[n] = "up"

(* What a planner at work has recorded of its goal, as long as no other    *)
(* planner is at work on it.                                               *)
TakenUp ==
  \A n \in Nodes :
    planner[n].at \in {"planning", "failing", "unindexing"} =>
      status[planner[n].goal] # "none"

Outcome(g) == Planned(g) \/ status[g] = "failed"
Recorded ==
  troubles = 0 =>
    \A n \in Nodes : planner[n].at \in {"unindexing", "releasing"} => Outcome(planner[n].goal)

IndexInv == Undisturbed /\ TakenUp /\ Recorded /\ NoGoalIsForgotten

LEMMA TroubleCounts ==
  ASSUME PlanningTypeOK, Trouble
  PROVE  troubles' > 0 /\ troubles' # 0
BY PlanningAssumption DEF Trouble, PlanningTypeOK, PlanningAssumption

(* A submission.                                                           *)
LEMMA SubmitKeepsIndex ==
  ASSUME PlanningTypeOK, IndexInv, NEW g \in Goals, NEW c \in Callers,
         Submit(g) \/ SubmitPlan(g, c), UNCHANGED <<mode, planners, troubles>>
  PROVE  IndexInv'
<1> USE DEF IndexInv, planners
<1>1. CASE Submit(g)
  BY <1>1 DEF Submit, Undisturbed, TakenUp, Recorded, Outcome, NoGoalIsForgotten, Planned, AtWork
<1>2. CASE SubmitPlan(g, c)
  <2>1. Undisturbed'
    BY <1>2 DEF Undisturbed
  <2>2. /\ \A h \in Goals : status[h] # "none" => status'[h] # "none"
        /\ \A h \in Goals : Outcome(h) => Outcome(h)'
        /\ \A h \in Goals : ~ Planned(h)' => ~ Planned(h) /\ status'[h] = status[h]
        /\ \A h \in goals' \ pending' : Planned(h)' \/ h \in goals \ pending
    BY <1>2, PlanningAssumption DEF SubmitPlan, Outcome, Planned, PlanningTypeOK, PlanningAssumption
  <2> planner' = planner /\ troubles' = troubles
    OBVIOUS
  <2>3. TakenUp' /\ Recorded'
    <3>1. \A n \in Nodes : planner[n].at # "idle" => planner[n].goal \in Goals
      BY DEF PlanningTypeOK
    <3>2. TakenUp'
      BY <2>2, <3>1 DEF TakenUp
    <3>3. ASSUME NEW n \in Nodes, troubles = 0, planner[n].at \in {"unindexing", "releasing"}
          PROVE  Outcome(planner[n].goal)'
      <4>1. Outcome(planner[n].goal) /\ planner[n].goal \in Goals
        BY <3>1, <3>3 DEF Recorded, Planned
      <4> QED BY <2>2, <4>1 DEF Outcome, Planned
    <3> QED BY <3>2, <3>3 DEF Recorded, Outcome, Planned
  <2>4. NoGoalIsForgotten'
    BY <2>2 DEF NoGoalIsForgotten, AtWork, PlanningTypeOK
  <2> QED BY <2>1, <2>3, <2>4
<1> QED BY <1>1, <1>2

(* A disturbance: what is on record of a goal stays.                       *)
LEMMA TroubleKeepsIndex ==
  ASSUME PlanningTypeOK, IndexInv, Trouble,
         UNCHANGED <<goals, plan, status>>,
         \A g \in pending \ pending' : Planned(g),
         \A n \in Nodes : \/ planner'[n] = planner[n]
                          \/ planner'[n].at \in {"idle", "releasing"}
  PROVE  IndexInv'
<1>1. troubles' > 0 /\ troubles' # 0
  BY TroubleCounts
<1>2. Undisturbed' /\ Recorded'
  BY <1>1 DEF Undisturbed, Recorded
<1>3. TakenUp'
  BY DEF IndexInv, TakenUp
<1>4. NoGoalIsForgotten'
  BY <1>1 DEF IndexInv, NoGoalIsForgotten, Planned
<1> QED BY <1>2, <1>3, <1>4 DEF IndexInv

(* A planner at work without a lost lease is the only one on its goal.     *)
LEMMA AloneAtWork ==
  ASSUME LeaseIsKept, Undisturbed, troubles = 0,
         NEW n \in Nodes, NEW m \in Nodes,
         planner[n].at \in Engaged, planner[m].at \in Engaged,
         planner[n].goal = planner[m].goal
  PROVE  n = m
BY DEF LeaseIsKept, Undisturbed

(* A planner that moves on: it touches the record of its own goal alone,   *)
(* and only while it has the lease.                                        *)
LEMMA MoveKeepsIndex ==
  ASSUME PlanningTypeOK, LeaseIsKept, IndexInv, NEW n \in Nodes, NEW g \in Goals,
         NEW from \in Stages \ {"idle"}, NEW to \in Stages,
         planner[n].goal = g, PlannerGoes(n, from, to),
         UNCHANGED <<goals, mode, troubles>>,
         \A m \in Nodes : lapsed'[m] => lapsed[m],
         \A h \in Goals \ {g} : plan'[h] = plan[h] /\ status'[h] = status[h],
         \A h \in Goals \ {g} : h \in pending' <=> h \in pending,
         from \notin Engaged => UNCHANGED <<plan[g], status[g]>>,
         from \notin Engaged => (g \in pending' <=> g \in pending),
         Planned(g) => Planned(g)',
         status[g] # "none" => status'[g] # "none",
         to \in {"planning", "failing", "unindexing"} => status'[g] # "none",
         to \in {"unindexing", "releasing"} /\ troubles = 0 => Outcome(g)',
         from \in Engaged /\ to \notin Engaged /\ troubles = 0 => Outcome(g)',
         g \in pending \ pending' => Planned(g)' \/ status'[g] # "none",
         g \in pending \ pending' /\ troubles = 0 => Outcome(g)'
  PROVE  IndexInv'
<1> USE DEF IndexInv
<1>1. /\ planner'[n].at = to /\ (to # "idle" => planner'[n].goal = g)
      /\ \A m \in Nodes \ {n} : planner'[m] = planner[m]
      /\ planner[n].at = from
  <2>1. planner[n].at = from
    BY DEF PlannerGoes
  <2> QED BY <2>1, PlannerType
<1>2. \A m \in Nodes : planner[m].at # "idle" => planner[m].goal \in Goals
  BY DEF PlanningTypeOK
<1>3. Undisturbed'
  BY DEF Undisturbed
<1>4. TakenUp'
  <2>1. \A h \in Goals : status[h] # "none" => status'[h] # "none"
    OBVIOUS
  <2>2. ASSUME NEW m \in Nodes, planner'[m].at \in {"planning", "failing", "unindexing"}
        PROVE  status'[planner'[m].goal] # "none"
    <3>1. CASE m = n
      BY <1>1, <2>2, <3>1
    <3>2. CASE m # n
      BY <1>1, <1>2, <2>1, <2>2, <3>2 DEF TakenUp
    <3> QED BY <3>1, <3>2
  <2> QED BY <2>2 DEF TakenUp
<1>5. Recorded'
  <2>1. ASSUME NEW m \in Nodes, troubles = 0, planner'[m].at \in {"unindexing", "releasing"},
               NEW h, h = planner'[m].goal
        PROVE  Outcome(h)'
    <3>1. CASE m = n
      BY <1>1, <2>1, <3>1
    <3>2. CASE m # n
      <4>1. h \in Goals /\ h = planner[m].goal /\ planner[m].at \in Engaged /\ Outcome(h)
        BY <1>1, <1>2, <2>1, <3>2 DEF Recorded, Engaged
      <4>2. h = g => from \notin Engaged
        BY <1>1, <2>1, <3>2, <4>1, AloneAtWork
      <4>3. plan'[h] = plan[h] /\ status'[h] = status[h]
        BY <4>1, <4>2
      <4> QED BY <4>1, <4>3 DEF Outcome, Planned
    <3> QED BY <3>1, <3>2
  <2> QED BY <2>1 DEF Recorded, Outcome, Planned
<1>6. NoGoalIsForgotten'
  <2>1. ASSUME NEW h \in goals \ pending', ~ Planned(h)', h \in Goals
        PROVE  /\ status'[h] # "none"
               /\ status'[h] = "failed" \/ troubles > 0 \/ \E m \in Nodes : AtWork(m, h)'
    <3>1. ASSUME NEW m \in Nodes, AtWork(m, h), m # n
          PROVE  AtWork(m, h)'
      BY <1>1, <3>1 DEF AtWork
    <3>2. CASE h # g
      <4>1. h \notin pending /\ ~ Planned(h) /\ status'[h] = status[h]
        BY <2>1, <3>2 DEF Planned
      <4>2. ~ AtWork(n, h)
        BY <3>2 DEF AtWork
      <4> QED BY <2>1, <3>1, <4>1, <4>2 DEF NoGoalIsForgotten
    <3>3. CASE h = g
      <4>1. ~ Planned(g) /\ status'[g] # "none"
        <5>1. ~ Planned(g) /\ g \in goals
          BY <2>1, <3>3
        <5> QED BY <2>1, <3>3, <5>1 DEF NoGoalIsForgotten
      <4>2. CASE to \in Engaged
        <5>1. AtWork(n, g)'
          BY <1>1, <4>2 DEF AtWork, Engaged
        <5> QED BY <3>3, <4>1, <5>1
      <4>3. CASE from \in Engaged /\ to \notin Engaged
        <5>1. troubles = 0 \/ troubles > 0
          BY PlanningAssumption DEF PlanningTypeOK, PlanningAssumption
        <5>2. troubles = 0 => status'[g] = "failed"
          BY <2>1, <3>3, <4>3 DEF Outcome
        <5> QED BY <3>3, <4>1, <5>1, <5>2
      <4>4. CASE from \notin Engaged /\ to \notin Engaged
        <5>1. status'[g] = status[g] /\ ~ AtWork(n, g)
          BY <1>1, <4>4 DEF AtWork
        <5>2. g \notin pending
          BY <2>1, <3>3, <4>4 DEF Engaged
        <5> QED BY <2>1, <3>1, <3>3, <4>1, <5>1, <5>2 DEF NoGoalIsForgotten
      <4> QED BY <2>1, <4>2, <4>3, <4>4
    <3> QED BY <3>2, <3>3
  <2> QED BY <2>1 DEF NoGoalIsForgotten, PlanningTypeOK, AtWork, Planned
<1> QED BY <1>3, <1>4, <1>5, <1>6

LEMMA PlannerKeepsIndex ==
  ASSUME PlanningTypeOK, LeaseIsKept, IndexInv, NEW n \in Nodes, PlannerStep(n),
         NEW g, g = planner[n].goal
  PROVE  IndexInv'
<1>1. CASE Scan(n) \/ \E h \in Goals : Look(n, h)
  <2>1. /\ UNCHANGED <<store, mode, lapsed, troubles>>
        /\ planner[n] = Idle /\ planner'[n].at \in {"idle", "looked"}
        /\ \A m \in Nodes \ {n} : planner'[m] = planner[m]
    BY <1>1 DEF Scan, Look, Idle, PlanningTypeOK
  <2>2. Undisturbed' /\ TakenUp' /\ Recorded'
    BY <2>1 DEF IndexInv, Undisturbed, TakenUp, Recorded, Outcome, Planned, store
  <2>3. \A m \in Nodes, h \in Goals : AtWork(m, h) => AtWork(m, h)'
    BY <2>1 DEF AtWork, Idle, Engaged
  <2>4. NoGoalIsForgotten'
    BY <2>1, <2>3 DEF IndexInv, NoGoalIsForgotten, Planned, store, PlanningTypeOK
  <2> QED BY <2>2, <2>4 DEF IndexInv
<1>2. CASE Claim(n)
  <2>1. \E to \in {"claimed", "idle"} : PlannerGoes(n, "looked", to)
    BY <1>2 DEF Claim
  <2>2. g \in Goals
    BY <2>1, PlannerType DEF Stages, Engaged
  <2> QED BY <1>2, <2>1, <2>2, MoveKeepsIndex DEF Claim, Planned, Stages, Engaged
<1>3. CASE Start(n)
  <2>1. g \in Goals
    BY <1>3, PlannerType DEF Start, Stages, Engaged
  <2> QED BY <1>3, <2>1, MoveKeepsIndex
          DEF Start, Planned, Stages, Engaged, PlanningTypeOK
<1>4. CASE Publish(n)
  <2>1. g \in Goals
    BY <1>4, PlannerType DEF Publish, Stages, Engaged
  <2>2. Planned(g)' /\ status'[g] = "published"
    BY <1>4, <2>1, PlanningAssumption
       DEF Publish, Planned, PlanningTypeOK, PlanningAssumption
  <2> QED BY <1>4, <2>1, <2>2, MoveKeepsIndex
          DEF Publish, Outcome, Stages, Engaged, PlanningTypeOK
<1>5. CASE FailPlan(n)
  <2>1. g \in Goals /\ planner[n].at = "planning"
    BY <1>5, PlannerType DEF FailPlan, PlannerGoes, Stages, Engaged
  <2>2. status[g] # "none"
    BY <2>1 DEF IndexInv, TakenUp
  <2> QED BY <1>5, <2>1, <2>2, MoveKeepsIndex DEF FailPlan, Planned, store, Stages, Engaged
<1>6. CASE FailStatus(n)
  <2>1. g \in Goals
    BY <1>6, PlannerType DEF FailStatus, Stages, Engaged
  <2>2. status'[g] = "failed" /\ Outcome(g)'
    BY <1>6, <2>1 DEF FailStatus, Outcome, PlanningTypeOK
  <2> QED BY <1>6, <2>1, <2>2, MoveKeepsIndex
          DEF FailStatus, Planned, Stages, Engaged, PlanningTypeOK
<1>7. CASE Unindex(n)
  <2>1. g \in Goals /\ planner[n].at = "unindexing"
    BY <1>7, PlannerType DEF Unindex, PlannerGoes, Stages, Engaged
  <2>2. status[g] # "none" /\ (troubles = 0 => Outcome(g))
    BY <2>1 DEF IndexInv, TakenUp, Recorded
  <2>3. (troubles = 0 => Outcome(g)') /\ status'[g] # "none"
    BY <1>7, <2>2 DEF Unindex, Outcome, Planned
  <2> QED BY <1>7, <2>1, <2>3, MoveKeepsIndex DEF Unindex, Planned, Stages, Engaged
<1>8. CASE Release(n)
  <2>1. g \in Goals /\ planner[n].at = "releasing"
    BY <1>8, PlannerType DEF Release, PlannerGoes, Stages, Engaged
  <2>2. troubles = 0 => Outcome(g)'
    BY <1>8, <2>1 DEF Release, IndexInv, Recorded, Outcome, Planned
  <2> QED BY <1>8, <2>1, <2>2, MoveKeepsIndex
          DEF Release, Planned, Stages, Engaged, PlanningTypeOK
<1> QED BY <1>1, <1>2, <1>3, <1>4, <1>5, <1>6, <1>7, <1>8 DEF PlannerStep

LEMMA IndexStep ==
  ASSUME TypeOK, LeaseIsKept, IndexInv, [Next]_vars
  PROVE  IndexInv'
<1> PlanningTypeOK
  BY DEF TypeOK
<1> USE PlanningAssumption DEF PlanningAssumption
<1>1. CASE UNCHANGED planning
  BY <1>1 DEF planning, store, planners, IndexInv, Undisturbed, TakenUp, Recorded, Outcome,
              Planned, NoGoalIsForgotten, AtWork
<1>2. ASSUME NEW c \in Callers, CallerStep(c)
      PROVE  IndexInv'
  <2>1. CASE CallGoal(c)
    BY <1>2, <2>1, SubmitKeepsIndex DEF CallGoal
  <2>2. CASE ~ CallGoal(c)
    BY <1>2, <2>2
       DEF CallerStep, ReadDefinition, PollStatus, PollDefinition, LearnFailure, store, planners,
           IndexInv, Undisturbed, TakenUp, Recorded, Outcome, Planned, NoGoalIsForgotten, AtWork
  <2> QED BY <2>1, <2>2
<1>3. ASSUME NEW c \in Callers, CancelCaller(c) \/ TimeOut(c)
      PROVE  IndexInv'
  <2>1. /\ Trouble /\ UNCHANGED <<goals, plan, status, planner>>
        /\ \A g \in pending \ pending' : Planned(g)
    BY <1>3 DEF CancelCaller, TimeOut, Cancelled, store, planners, Planned
  <2> QED BY <2>1, TroubleKeepsIndex
<1>4. ASSUME NEW n \in Nodes, Drain(n) \/ StopPlanner(n) \/ Crash(n)
      PROVE  IndexInv'
  <2>1. CASE Drain(n) \/ Crash(n)
    BY <1>4, <2>1, TroubleKeepsIndex
       DEF Drain, Crash, CrashPlanner, store, planners, Idle, PlanningTypeOK
  <2>2. CASE StopPlanner(n)
    <3>1. troubles # 0 /\ troubles' = troubles /\ troubles > 0
      BY <2>2 DEF StopPlanner, IndexInv, Undisturbed, PlanningTypeOK
    <3>2. /\ UNCHANGED store
          /\ \A m \in Nodes : planner'[m] = planner[m] \/ planner'[m].at = "releasing"
      BY <2>2 DEF StopPlanner, Idle, PlanningTypeOK
    <3> QED BY <3>1, <3>2 DEF IndexInv, Undisturbed, TakenUp, Recorded, NoGoalIsForgotten,
                              Planned, store
  <2> QED BY <1>4, <2>1, <2>2
<1>5. ASSUME NEW g \in Goals, Expire(g)
      PROVE  IndexInv'
  <2>1. CASE AtWork(lock[g], g)
    BY <1>5, <2>1, TroubleKeepsIndex DEF Expire
  <2>2. CASE ~ AtWork(lock[g], g)
    BY <1>5, <2>2
       DEF Expire, PlanningTypeOK, IndexInv, Undisturbed, TakenUp, Recorded, Outcome, Planned,
           NoGoalIsForgotten, AtWork
  <2> QED BY <2>1, <2>2
<1>6. ASSUME NEW n \in Nodes, Fire(n)
      PROVE  IndexInv'
  <2>1. PICK firing \in taken[n] : Submit(firing) \/ UNCHANGED store
    BY <1>6 DEF Fire
  <2>2. UNCHANGED <<mode, planners, caller, troubles>>
    BY <1>6 DEF Fire
  <2>3. CASE Submit(firing)
    BY <2>2, <2>3
       DEF Submit, planners, IndexInv, Undisturbed, TakenUp, Recorded, Outcome,
           NoGoalIsForgotten, Planned, AtWork
  <2> QED BY <1>1, <2>1, <2>2, <2>3 DEF planning
<1> QED BY <1>1, <1>2, <1>3, <1>4, <1>5, <1>6, PlannerKeepsIndex
        DEF Next, PlanningStep, Add, CancelSchedule, Pass, Poll, ClaimDue, Emit, Stop, vars

(* A submitted goal leaves the index only with a plan or once a planner    *)
(* took it up; its failure is then on record unless there was trouble.     *)
THEOREM GoalsAreFound == Spec => []NoGoalIsForgotten
<1>1. Init => IndexInv
  BY DEF Init, PlanningInit, IndexInv, Undisturbed, TakenUp, Recorded, NoGoalIsForgotten, Idle
<1>2. Spec => []IndexInv
  BY <1>1, IndexStep, TypeIsKept, LeaseHolds, PTL DEF Spec
<1> QED BY <1>2, PTL DEF IndexInv
=============================================================================
