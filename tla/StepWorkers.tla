---------------------------- MODULE StepWorkers ----------------------------
(***************************************************************************)
(* The nodes of a mesh working off one published workflow.  For every      *)
(* agent a dispatcher visits the steps (_ready_steps, _run_pool), a        *)
(* claimed step runs as a task with a heartbeat                            *)
(* (_execute_distributed_step), a caller waits for the end                 *)
(* (_wait_for_workflow_terminal) and may replan (replan_goal), and people  *)
(* resume and cancel.  They share nothing but the store.                   *)
(*                                                                         *)
(* A transaction of the store is one step of StepLedger.  block_step and   *)
(* requeue_blocked_step are not transactions: here each reads the record   *)
(* in one step and writes it back in a later one.                          *)
(***************************************************************************)
EXTENDS StepLedger

CONSTANTS
  MayRun,      \* the steps an agent's role and capabilities let it run
  Named,       \* agents whose agent_id is configured, not generated
  Mortal       \* agents whose node may die

ASSUME WorkerAssumption ==
  /\ MayRun \in [Agents -> SUBSET Steps]
  /\ Named \subseteq Agents
  /\ Mortal \subseteq Agents

VARIABLES
  visit,    \* the dispatcher of an agent: where it is with which step
  job,      \* the executor a claim id belongs to
  waiter,   \* the caller waiting for the workflow
  planner   \* the revision a replanning caller plans against, or 0

workers == <<visit, job, waiter, planner>>
allVars == <<vars, workers>>

-----------------------------------------------------------------------------
(* Dispatchers and executors                                               *)

NoVisit == [at |-> "idle", step |-> {}, seen |-> FreshRecord, blockers |-> {}]

(* What a visit does next; step is the singleton of the step it is at.  A  *)
(* dispatcher is gone when its node died and no process has its id again.  *)
VisitPhases == {"idle", "recover", "requeue", "depend", "rewrite", "reread",
                "check", "block", "overwrite", "claim", "gone"}
Visits == [at : VisitPhases, step : SUBSET Steps, seen : StepRecord,
           blockers : SUBSET Steps]

NoJob == [at |-> "idle", step |-> {}, seen |-> FreshRecord, todo |-> {},
          paused |-> {}]

(* An executor starts, works, and after its commit releases dependents;    *)
(* step is then the dependent it requeues, todo those it has not read.     *)
JobPhases == {"idle", "start", "work", "release", "depend", "rewrite"}
Jobs == [at : JobPhases, step : SUBSET Steps, seen : StepRecord,
         todo : SUBSET Steps, paused : SUBSET Steps]

WorkersTypeOK ==
  /\ TypeOK
  /\ visit \in [Agents -> Visits]
  /\ job \in [Claims -> Jobs]
  /\ waiter \in {"watching", "closing"}
  /\ planner \in Nat

VisitAt(a, phase, s) == visit[a].at = phase /\ visit[a].step = {s}
JobAt(c, phase, s) == job[c].at = phase /\ job[c].step = {s}

Goto(a, phase, s) ==
  visit' = [visit EXCEPT ![a] = [NoVisit EXCEPT !.at = phase, !.step = {s}]]
Proceed(a, phase) == visit' = [visit EXCEPT ![a] = [@ EXCEPT !.at = phase]]
Leave(a) == visit' = [visit EXCEPT ![a] = NoVisit]
EndJob(c) == job' = [job EXCEPT ![c] = NoJob]

(* Every agent has a node of its own.  The scan is a thread; claims and    *)
(* executors share the node's event loop, and none of them runs while one  *)
(* releases dependents, which never awaits.                                *)
LoopFree(a) ==
  \A c \in Claims :
    AgentOf[c] = a => job[c].at \notin {"release", "depend", "rewrite"}

(* A paused or continued step goes back to the agent that ran it.          *)
ForAgent(a, record) == record.resumeAgent \in {NoAgent, a}

-----------------------------------------------------------------------------
(* A dispatcher visits a step                                              *)

WorkersInit ==
  /\ Init
  /\ visit = [a \in Agents |-> NoVisit]
  /\ job = [c \in Claims |-> NoJob]
  /\ waiter = "watching"
  /\ planner = 0

MutantLook(a, s) ==
  /\ visit[a] = NoVisit
  /\ active /\ ~ cancelled
  /\ s \in Published \cap MayRun[a]
  /\ \/ Expired(s) /\ Goto(a, "recover", s)
     \/ Status(s) = "pending" /\ ForAgent(a, step[s]) /\ Goto(a, "check", s)
  /\ UNCHANGED <<vars, job, waiter, planner>>

(* The scan reads the graph of an active workflow that is not cancelled.   *)
Look(a, s) ==
  /\ visit[a] = NoVisit
  /\ active /\ ~ cancelled
  /\ s \in Published \cap MayRun[a]
  /\ \/ Expired(s) /\ Goto(a, "recover", s)
     \/ Status(s) = "blocked" /\ Goto(a, "requeue", s)
     \/ Status(s) = "pending" /\ ForAgent(a, step[s]) /\ Goto(a, "check", s)
  /\ UNCHANGED <<vars, job, waiter, planner>>

VisitRecover(a, s) ==
  /\ VisitAt(a, "recover", s)
  /\ \/ Recover(s) /\ Goto(a, "reread", s)
     \/ (cancelled \/ ~ Expired(s)) /\ UNCHANGED vars /\ Leave(a)
  /\ UNCHANGED <<job, waiter, planner>>

Blocked(record) == record.status = "blocked" /\ record.blockedBy # {}

(* requeue_blocked_step reads the record, then the dependencies, and then  *)
(* writes back the record it read, whatever became of the step since.      *)
WriteRequeued(s, seen) ==
  /\ step' = [step EXCEPT ![s] =
                [seen EXCEPT !.status = "pending", !.blockedBy = {}]]
  /\ UNCHANGED <<lock, ttl, output, projection, revision, settlement,
                 cancelled, active>>

VisitRequeue(a, s) ==
  /\ VisitAt(a, "requeue", s)
  /\ IF Blocked(step[s])
     THEN visit' = [visit EXCEPT ![a] = [@ EXCEPT !.at = "depend",
                                                  !.seen = step[s]]]
     ELSE Goto(a, "reread", s)
  /\ UNCHANGED <<vars, job, waiter, planner>>

VisitDepend(a, s) ==
  /\ VisitAt(a, "depend", s)
  /\ IF DependenciesMet(s) THEN Proceed(a, "rewrite") ELSE Goto(a, "reread", s)
  /\ UNCHANGED <<vars, job, waiter, planner>>

VisitRewrite(a, s) ==
  /\ VisitAt(a, "rewrite", s)
  /\ WriteRequeued(s, visit[a].seen)
  /\ Goto(a, "reread", s)
  /\ UNCHANGED <<job, waiter, planner>>

VisitReread(a, s) ==
  /\ VisitAt(a, "reread", s)
  /\ IF Status(s) = "pending" /\ ForAgent(a, step[s])
     THEN Goto(a, "check", s) ELSE Leave(a)
  /\ UNCHANGED <<vars, job, waiter, planner>>

(* A step that nothing blocks joins the list of steps to claim.            *)
VisitCheck(a, s) ==
  /\ VisitAt(a, "check", s)
  /\ \/ /\ DependencyBlockers(s) # {}
        /\ visit' = [visit EXCEPT ![a] = [@ EXCEPT !.at = "block",
                                          !.blockers = DependencyBlockers(s)]]
     \/ DependencyBlockers(s) = {} /\ DependenciesMet(s) /\ Goto(a, "claim", s)
     \/ DependencyBlockers(s) = {} /\ ~ DependenciesMet(s) /\ Leave(a)
  /\ UNCHANGED <<vars, job, waiter, planner>>

(* block_step: the record as it is by now, then the record written back.   *)
VisitBlock(a, s) ==
  /\ VisitAt(a, "block", s)
  /\ visit' = [visit EXCEPT ![a] = [@ EXCEPT !.at = "overwrite",
                                             !.seen = step[s]]]
  /\ UNCHANGED <<vars, job, waiter, planner>>

VisitOverwrite(a, s) ==
  /\ VisitAt(a, "overwrite", s)
  /\ step' = [step EXCEPT ![s] = [visit[a].seen EXCEPT
                 !.status = "blocked", !.blockedBy = visit[a].blockers]]
  /\ Leave(a)
  /\ UNCHANGED <<lock, ttl, output, projection, revision, settlement,
                 cancelled, active, job, waiter, planner>>

(* The claim rechecks the record, but not which agent it is kept for; it   *)
(* is given up when no member of the pool is free.                         *)
VisitClaim(a, s) ==
  /\ VisitAt(a, "claim", s) /\ LoopFree(a)
  /\ \/ \E c \in Claims :
          /\ AgentOf[c] = a /\ job[c] = NoJob
          /\ Claim(s, c)
          /\ job' = [job EXCEPT ![c] = [@ EXCEPT !.at = "start", !.step = {s}]]
     \/ ~ Claimable(s) /\ UNCHANGED <<vars, job>>
     \/ (\A c \in Claims : AgentOf[c] = a => job[c] # NoJob)
        /\ UNCHANGED <<vars, job>>
  /\ Leave(a)
  /\ UNCHANGED <<waiter, planner>>

-----------------------------------------------------------------------------
(* An executor runs the step it claimed                                    *)

(* A response reads the evidence of the whole workflow.                    *)
Evidence(s) ==
  {d \in Published : IsFinal(s) /\ s \in Downstream(d) /\ Status(d) = "waiting"}

(* A step found pending again is claimed once more, or left alone.         *)
Start(c, s) ==
  /\ JobAt(c, "start", s) /\ LoopFree(AgentOf[c])
  /\ \/ /\ Status(s) # "pending" \/ Claimable(s)
        /\ IF Status(s) = "pending" THEN Claim(s, c) ELSE UNCHANGED vars
        /\ job' = [job EXCEPT ![c] = [@ EXCEPT !.at = "work",
                                               !.paused = Evidence(s)]]
     \/ /\ Status(s) = "pending" /\ ~ Claimable(s)
        /\ EndJob(c) /\ UNCHANGED vars
  /\ UNCHANGED <<visit, waiter, planner>>

(* The heartbeat renews the claim, or stops the work that lost it.         *)
Heartbeat(c, s) ==
  /\ JobAt(c, "work", s) /\ LoopFree(AgentOf[c])
  /\ \/ Renew(s, c) /\ UNCHANGED job
     \/ ~ Holds(s, c) /\ EndJob(c) /\ UNCHANGED vars
  /\ UNCHANGED <<visit, waiter, planner>>

Commit(c, s, outcome, report) ==
  /\ JobAt(c, "work", s) /\ LoopFree(AgentOf[c])
  /\ \/ /\ Finish(s, c, outcome, report)
        /\ job' = [job EXCEPT ![c] =
             [NoJob EXCEPT !.at = "release",
                           !.todo = {t \in Published : s \in DependsOn[t]}]]
     \/ ~ Holds(s, c) /\ EndJob(c) /\ UNCHANGED vars
  /\ UNCHANGED <<visit, waiter, planner>>

(* The agent spent its epoch: another one, or the step has failed.         *)
Exhaust(c, s) ==
  /\ JobAt(c, "work", s) /\ LoopFree(AgentOf[c])
  /\ \/ EpochsLeft(s) /\ Continue(s, c)
     \/ /\ ~ EpochsLeft(s)
        /\ \E report \in Reports(s) :
             report.verdict = "none" /\ Finish(s, c, "failed", report)
     \/ ~ Holds(s, c) /\ UNCHANGED vars
  /\ EndJob(c)
  /\ UNCHANGED <<visit, waiter, planner>>

(* _release_dependents, one dependent at a time.                           *)
ReleaseRead(c) ==
  /\ job[c].at = "release"
  /\ \/ \E t \in job[c].todo :
          job' = [job EXCEPT ![c] =
            IF Blocked(step[t])
            THEN [@ EXCEPT !.at = "depend", !.step = {t}, !.seen = step[t],
                           !.todo = job[c].todo \ {t}]
            ELSE [@ EXCEPT !.todo = job[c].todo \ {t}]]
     \/ job[c].todo = {} /\ EndJob(c)
  /\ UNCHANGED <<vars, visit, waiter, planner>>

NextDependent(c) ==
  job' = [job EXCEPT ![c] =
    [NoJob EXCEPT !.at = "release", !.todo = job[c].todo]]

ReleaseDepend(c, t) ==
  /\ JobAt(c, "depend", t)
  /\ IF DependenciesMet(t)
     THEN job' = [job EXCEPT ![c] = [@ EXCEPT !.at = "rewrite"]]
     ELSE NextDependent(c)
  /\ UNCHANGED <<vars, visit, waiter, planner>>

ReleaseRewrite(c, t) ==
  /\ JobAt(c, "rewrite", t)
  /\ WriteRequeued(t, job[c].seen)
  /\ NextDependent(c)
  /\ UNCHANGED <<visit, waiter, planner>>

(* A node dies with its dispatcher and its executors.  Its agent comes     *)
(* back if its id is configured; the next process of any other agent has   *)
(* an id of its own, and is another agent here.                            *)
Crash(a) ==
  /\ a \in Mortal
  /\ visit[a].at # "gone"
  /\ visit' = [visit EXCEPT ![a] =
       IF a \in Named THEN NoVisit ELSE [NoVisit EXCEPT !.at = "gone"]]
  /\ job' = [c \in Claims |-> IF AgentOf[c] = a THEN NoJob ELSE job[c]]
  /\ UNCHANGED <<vars, waiter, planner>>

-----------------------------------------------------------------------------
(* The caller and people                                                   *)

(* The waiter reads a finished revision and decides to close the workflow. *)
Watch ==
  /\ waiter = "watching"
  /\ active
  /\ CurrentSteps # {} /\ AllTerminal /\ ~ SettlementDue /\ ~ PausedForPerson
  /\ waiter' = "closing"
  /\ UNCHANGED <<vars, visit, job, planner>>

Unregister ==
  /\ waiter = "closing"
  /\ waiter' = "watching"
  /\ active' = FALSE
  /\ UNCHANGED <<step, lock, ttl, output, projection, revision, settlement,
                 cancelled, visit, job, planner>>

(* Work replan_goal waits for instead of replacing it.                     *)
Resumable ==
  \E s \in CurrentSteps :
    \/ Status(s) = "in_progress"
    \/ /\ Status(s) \in {"pending", "blocked"}
       /\ DependencyBlockers(s) = {} /\ DependenciesMet(s)

Unsatisfied == {o \in Obligations : ObligationState(o) # "satisfied"}
NextRevision == {s \in Steps : RevisionOf[s] = revision + 1}

(* replan_goal finds work that can go on, and only puts the workflow back  *)
(* on the active index.                                                    *)
Reopen ==
  /\ Resumable
  /\ active' = TRUE
  /\ UNCHANGED <<step, lock, ttl, output, projection, revision, settlement,
                 cancelled, workers>>

(* A scan takes a cancelled workflow off the active index again.           *)
Sweep ==
  /\ cancelled /\ active
  /\ active' = FALSE
  /\ UNCHANGED <<step, lock, ttl, output, projection, revision, settlement,
                 cancelled, workers>>

(* Otherwise it reads the obligations that are not satisfied; the plan it  *)
(* gets covers exactly those.                                              *)
Plan ==
  /\ planner = 0
  /\ ~ Resumable
  /\ NextRevision # {} /\ Unsatisfied # {}
  /\ UNION {Covers[s] : s \in NextRevision} = Unsatisfied
  /\ planner' = revision
  /\ UNCHANGED <<vars, visit, job, waiter>>

Publish ==
  /\ planner # 0
  /\ planner' = 0
  /\ \/ Amend(planner)
     \/ (cancelled \/ planner # revision) /\ UNCHANGED vars
  /\ UNCHANGED <<visit, job, waiter>>

Ledger(action) == action /\ UNCHANGED workers

VisitGoesOn(a, s) ==
  \/ VisitRecover(a, s) \/ VisitRequeue(a, s) \/ VisitDepend(a, s)
  \/ VisitRewrite(a, s) \/ VisitReread(a, s) \/ VisitCheck(a, s)
  \/ VisitBlock(a, s) \/ VisitOverwrite(a, s) \/ VisitClaim(a, s)

DispatcherNext(a) ==
  \/ Crash(a)
  \/ \E s \in Steps : Look(a, s) \/ VisitGoesOn(a, s)

(* The agent's work on a step comes to an end.                             *)
WorkEnds(c, s) ==
  \/ Exhaust(c, s)
  \/ \E outcome \in Outcomes, report \in Reports(s) :
       Commit(c, s, outcome, report)

(* What its end unblocked is released.                                     *)
Releases(c) ==
  \/ ReleaseRead(c)
  \/ \E s \in Steps : ReleaseDepend(c, s) \/ ReleaseRewrite(c, s)

ExecutorNext(c) ==
  \/ Releases(c)
  \/ \E s \in Steps : Start(c, s) \/ Heartbeat(c, s) \/ WorkEnds(c, s)

WorkersNext ==
  \/ \E a \in Agents : DispatcherNext(a)
  \/ \E c \in Claims : ExecutorNext(c)
  \/ Watch \/ Unregister \/ Reopen \/ Sweep \/ Plan \/ Publish
  \/ \E s \in Steps : Ledger(Resume(s))
  \/ Ledger(Tick) \/ Ledger(Cancel) \/ Ledger(Settle)

WorkersSpec == WorkersInit /\ [][WorkersNext]_allVars

(* A dispatcher whose node lives, or comes back under its id, polls for    *)
(* ever and every scan looks at every step; a visit goes on, an agent's    *)
(* work ends within its budget, and time passes.                           *)
Fairness ==
  /\ \A a \in Agents : \A s \in MayRun[a] :
       SF_allVars(Look(a, s)) /\ WF_allVars(VisitGoesOn(a, s))
  /\ \A c \in Claims :
       /\ WF_allVars(Releases(c))
       /\ \A s \in MayRun[AgentOf[c]] :
            WF_allVars(Start(c, s)) /\ WF_allVars(WorkEnds(c, s))
  /\ WF_allVars(Ledger(Tick))

FairWorkersSpec == WorkersSpec /\ Fairness

-----------------------------------------------------------------------------
(* Properties                                                              *)

(* Whatever a stale write, a late resume or a replan does, a cancelled     *)
(* workflow has no lock and no running or waiting step.                    *)
CancelledStaysFenced ==
  cancelled => \A s \in Steps :
    lock[s] = NoClaim /\ Status(s) \notin {"in_progress", "waiting"}

(* A response that commits after reading that a step waits for a person    *)
(* does not hide the answer: the step waits still, or will never run.      *)
ResponseIsCurrent ==
  [][\A c \in Claims, r \in Steps :
       JobAt(c, "work", r) /\ output'[r] = c /\ lock[r] = c /\ lock'[r] = NoClaim
         => \A d \in job[c].paused :
              Status(d) \in {"waiting", "cancelled", "superseded"}]_allVars

(* Work of an open workflow that nobody does while it could be done.       *)
Idle(s) ==
  active /\ ~ cancelled /\ (Expired(s) \/ Requeueable(s) \/ Claimable(s))

(* The agents left that could take a step; a paused or continued step is   *)
(* kept for the id that ran it.                                            *)
Takers(s) ==
  {a \in Agents :
     /\ visit[a].at # "gone"
     /\ s \in MayRun[a]
     /\ Status(s) = "pending" => ForAgent(a, step[s])}

(* As long as the workflow is open and somebody may take it, no step stays *)
(* idle: not when its executor's node dies and another node has to find    *)
(* it, not when a finisher dies before it released what its commit         *)
(* unblocked.                                                              *)
NoStepStaysIdle ==
  \A s \in Steps : Idle(s) ~> ~ Idle(s) \/ Takers(s) = {}
=============================================================================
