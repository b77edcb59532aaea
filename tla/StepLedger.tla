----------------------------- MODULE StepLedger -----------------------------
(***************************************************************************)
(* The step ledger of one published workflow: the records a Redis store    *)
(* keeps for its steps (workflow_graph), the claim locks with their TTL    *)
(* (step_lock), the obligation projection, the plan revision, the          *)
(* reconciliation settlements, the cancellation tombstone and the          *)
(* membership in the active-workflow index.                                *)
(*                                                                         *)
(* Each call of the store is one step here, made by anybody at any time:   *)
(* the store's WATCH/MULTI transactions are exactly that.  Two calls are   *)
(* not transactions in the code, block_step and requeue_blocked_step: this *)
(* module gives what they do when nothing comes between their read and     *)
(* their write, and StepWorkers splits them as the code does.              *)
(***************************************************************************)
EXTENDS Naturals, FiniteSets

CONSTANTS
  Steps,             \* the steps of every revision of the plan
  RevisionOf,        \* the plan revision that publishes a step
  DependsOn,         \* the steps a step depends on
  EffectOf,          \* the step's declared effect
  TerminalEvidence,  \* steps whose dependency_policy is terminal_evidence
  Systems,           \* external systems
  SystemsOf,         \* the systems a step touches
  Obligations,       \* the source obligations of the goal
  Covers,            \* the obligations a step covers
  Agents,            \* agent ids
  Claims,            \* claim ids, "<agent id>:<uuid>"
  AgentOf,           \* the agent id a claim id starts with
  NoAgent, NoClaim,
  LeaseTicks,        \* how long a claim lives without renewal
  MaxEpochs,         \* ExecutionBudget.max_epochs_per_step
  HasPlanner         \* whether the node has a planning LLM

Effects == {"read", "propose", "write", "notify", "destructive",
            "final_response"}
ConsequentialEffects == {"write", "notify", "destructive"}

(* _validate_acyclic_steps walks the graph: some order of the steps puts   *)
(* every dependency first.                                                 *)
Acyclic ==
  \E order \in [Steps -> 1 .. Cardinality(Steps)] :
    \A s \in Steps : \A d \in DependsOn[s] : order[d] < order[s]

ASSUME PlanAssumption ==
  /\ RevisionOf \in [Steps -> Nat \ {0}]
  /\ DependsOn \in [Steps -> SUBSET Steps]
  /\ EffectOf \in [Steps -> Effects]
  /\ TerminalEvidence \subseteq Steps
  /\ SystemsOf \in [Steps -> SUBSET Systems]
  /\ Covers \in [Steps -> SUBSET Obligations]
  /\ \A s \in Steps : \A d \in DependsOn[s] : RevisionOf[d] <= RevisionOf[s]

ASSUME AcyclicAssumption == Acyclic

ASSUME ClaimAssumption ==
  /\ AgentOf \in [Claims -> Agents]
  /\ NoAgent \notin Agents
  /\ NoClaim \notin Claims

ASSUME BoundAssumption ==
  /\ LeaseTicks \in Nat \ {0}
  /\ MaxEpochs \in Nat \ {0}
  /\ HasPlanner \in BOOLEAN

VARIABLES
  step,        \* workflow_graph: the record of each step
  lock,        \* step_lock: the claim id that holds a step, or NoClaim
  ttl,         \* time left before Redis drops the lock
  output,      \* step_output: the claim that wrote the saved output
  attempt,     \* projection: attempt_states of the current steps
  interpreted, \* projection: the steps with an attempt_interpretation
  revision,    \* workflow_definition.revision
  settlement,  \* revisions decided to be settled, and those with a
               \* saved reconciliation settlement
  cancelled,   \* the tombstone workflow_cancelled exists
  active       \* the workflow is in jarviscore:active_workflows

vars == <<step, lock, ttl, output, attempt, interpreted, revision,
          settlement, cancelled, active>>
projection == <<attempt, interpreted>>

-----------------------------------------------------------------------------
(* Records                                                                 *)

Statuses == {"pending", "in_progress", "completed", "failed", "waiting",
             "blocked", "cancelled", "superseded"}

(* The statuses finish_claimed_step may write.                             *)
Outcomes == {"completed", "failed", "waiting", "blocked"}

StepRecord ==
  [status : Statuses, claim : Claims \cup {NoClaim},
   completedBy : Agents \cup {NoAgent}, resumeAgent : Agents \cup {NoAgent},
   epochs : 1 .. MaxEpochs, blockedBy : SUBSET Steps]

FreshRecord ==
  [status |-> "pending", claim |-> NoClaim, completedBy |-> NoAgent,
   resumeAgent |-> NoAgent, epochs |-> 1, blockedBy |-> {}]

(* The attempt_states of an obligation; "none" is a step that is not one   *)
(* of the obligation's current_step_ids.                                   *)
AttemptStates == {"pending", "satisfied", "unresolved", "not_applicable"}

TypeOK ==
  /\ step \in [Steps -> StepRecord]
  /\ lock \in [Steps -> Claims \cup {NoClaim}]
  /\ ttl \in [Steps -> 0 .. LeaseTicks]
  /\ output \in [Steps -> Claims \cup {NoClaim}]
  /\ attempt \in [Obligations -> [Steps -> AttemptStates \cup {"none"}]]
  /\ interpreted \in [Obligations -> SUBSET Steps]
  /\ revision \in Nat \ {0}
  /\ settlement \in [decided : SUBSET Nat, saved : SUBSET Nat]
  /\ cancelled \in BOOLEAN
  /\ active \in BOOLEAN

Status(s) == step[s].status
IsFinal(s) == EffectOf[s] = "final_response"

(* The steps in the graph: a revision's steps appear when it is published. *)
Published == {s \in Steps : RevisionOf[s] <= revision}
CurrentSteps == {s \in Steps : RevisionOf[s] = revision}

-----------------------------------------------------------------------------
(* Obligations                                                             *)

CurrentAttempts(o) == {s \in Steps : attempt[o][s] # "none"}

(* The stored state of an obligation, which every write recomputes from    *)
(* the attempt states.                                                     *)
ObligationState(o) ==
  LET states == {attempt[o][s] : s \in CurrentAttempts(o)} IN
  CASE states = {} -> "pending"
    [] "satisfied" \in states \/ states = {"not_applicable"} -> "satisfied"
    [] "pending" \in states /\ "satisfied" \notin states -> "pending"
    [] OTHER -> "unresolved"

(* Obligations a step reported on and left unresolved.                     *)
SemanticGaps ==
  {o \in Obligations : ObligationState(o) = "unresolved" /\ interpreted[o] # {}}

(* What an executor's interpretation says of the obligations its step      *)
(* covers: verdict "none" stands for a result without an interpretation,   *)
(* and for every result of a step that covers nothing, where an            *)
(* interpretation changes nothing.                                         *)
Findings == {"satisfied", "not_applicable", "unmet", "unnamed"}
Reports(s) ==
  {r \in [verdict : {"none", "satisfied", "rejected"},
          finding : [Covers[s] -> Findings]] :
     /\ r.verdict = "none" => \A o \in Covers[s] : r.finding[o] = "unnamed"
     /\ Covers[s] = {} => r.verdict = "none"}

IdAddressed(s, report) == \E o \in Covers[s] : report.finding[o] # "unnamed"

(* The attempt state a committed result gives to one covered obligation.   *)
AttemptState(s, o, outcome, report) ==
  IF IdAddressed(s, report)
  THEN IF report.finding[o] \in {"satisfied", "not_applicable"}
       THEN report.finding[o] ELSE "unresolved"
  ELSE CASE report.verdict = "satisfied" -> "satisfied"
         [] report.verdict # "satisfied" /\ outcome = "waiting" -> "pending"
         [] report.verdict = "none" /\ outcome = "completed" -> "satisfied"
         [] OTHER -> "unresolved"

-----------------------------------------------------------------------------
(* Dependencies                                                            *)

ReadsEvidence(s) == IsFinal(s) \/ s \in TerminalEvidence

DependenciesAuthorize(s) ==
  \A d \in DependsOn[s] :
    \/ Status(d) = "completed"
    \/ /\ ReadsEvidence(s)
       /\ Status(d) \in {"failed", "waiting", "blocked", "cancelled"}

(* A final response also waits for open semantic gaps to be settled.       *)
ReconciliationDone(s) ==
  IsFinal(s) => SemanticGaps = {} \/ RevisionOf[s] \in settlement.saved

DependenciesMet(s) == DependenciesAuthorize(s) /\ ReconciliationDone(s)

DependencyBlockers(s) ==
  {d \in DependsOn[s] :
     /\ ~ ReadsEvidence(s)
     /\ Status(d) \in {"failed", "waiting", "blocked", "cancelled"}}

Consequential(s) == EffectOf[s] \in ConsequentialEffects

(* Two steps that may not act at the same time.                            *)
Conflict(s, t) ==
  /\ s # t
  /\ Consequential(s) /\ Consequential(t)
  /\ SystemsOf[s] \cap SystemsOf[t] # {}

MutantConsequentialWriterActive(s) ==
  \E t \in Published : Conflict(s, t) /\ Status(t) = "in_progress"

ConsequentialWriterActive(s) ==
  \E t \in Published : Conflict(s, t) /\ Status(t) \in {"in_progress", "waiting"}

(* Every step a step depends on, directly or not.                          *)
Upstream[s \in Steps] ==
  DependsOn[s] \cup UNION {Upstream[d] : d \in DependsOn[s]}

Downstream(s) == {t \in Published : s \in Upstream[t]}

-----------------------------------------------------------------------------
(* Claims                                                                  *)

Init ==
  /\ step = [s \in Steps |-> FreshRecord]
  /\ lock = [s \in Steps |-> NoClaim]
  /\ ttl = [s \in Steps |-> 0]
  /\ output = [s \in Steps |-> NoClaim]
  /\ attempt = [o \in Obligations |-> [s \in Steps |->
       IF RevisionOf[s] = 1 /\ o \in Covers[s] /\ ~ IsFinal(s)
       THEN "pending" ELSE "none"]]
  /\ interpreted = [o \in Obligations |-> {}]
  /\ revision = 1
  /\ settlement = [decided |-> {}, saved |-> {}]
  /\ cancelled = FALSE
  /\ active = TRUE

(* What claim_step checks before it takes the lock.                        *)
MutantClaimable(s) ==
  /\ s \in Published
  /\ lock[s] = NoClaim
  /\ Status(s) = "pending"
  /\ DependenciesMet(s)
  /\ ~ ConsequentialWriterActive(s)

Claimable(s) ==
  /\ ~ cancelled
  /\ s \in Published
  /\ lock[s] = NoClaim
  /\ Status(s) = "pending"
  /\ DependenciesMet(s)
  /\ ~ ConsequentialWriterActive(s)

Claim(s, c) ==
  /\ Claimable(s)
  /\ lock' = [lock EXCEPT ![s] = c]
  /\ ttl' = [ttl EXCEPT ![s] = LeaseTicks]
  /\ step' = [step EXCEPT ![s] =
       [@ EXCEPT !.status = "in_progress", !.claim = c]]
  /\ UNCHANGED <<output, projection, revision, settlement, cancelled, active>>

MutantHolds(s, c) ==
  ~ cancelled /\ s \in Published /\ lock[s] \in {c, NoClaim}

(* The fence of every write an executor makes with its claim.              *)
Holds(s, c) == ~ cancelled /\ s \in Published /\ lock[s] = c

Renew(s, c) ==
  /\ Holds(s, c)
  /\ ttl' = [ttl EXCEPT ![s] = LeaseTicks]
  /\ UNCHANGED <<step, lock, output, projection, revision, settlement,
                 cancelled, active>>

(* Time passes for every lock; Redis drops the ones that ran out.          *)
Tick ==
  /\ \E s \in Steps : ttl[s] > 0
  /\ ttl' = [s \in Steps |-> IF ttl[s] = 0 THEN 0 ELSE ttl[s] - 1]
  /\ lock' = [s \in Steps |-> IF ttl[s] <= 1 THEN NoClaim ELSE lock[s]]
  /\ UNCHANGED <<step, output, projection, revision, settlement, cancelled,
                 active>>

(* A claim whose lock Redis dropped before its holder finished.            *)
MutantExpired(s) == Status(s) = "in_progress"
Expired(s) == lock[s] = NoClaim /\ Status(s) = "in_progress"

Recover(s) ==
  /\ ~ cancelled
  /\ s \in Published
  /\ Expired(s)
  /\ step' = [step EXCEPT ![s] = [@ EXCEPT !.status = "pending"]]
  /\ UNCHANGED <<lock, ttl, output, projection, revision, settlement,
                 cancelled, active>>

Unlock(s) ==
  /\ lock' = [lock EXCEPT ![s] = NoClaim]
  /\ ttl' = [ttl EXCEPT ![s] = 0]

(* Whether a result of s still speaks for obligation o.                    *)
MutantCounts(s, o) == o \in Covers[s]
Counts(s, o) == o \in Covers[s] /\ s \in CurrentAttempts(o)

(* finish_claimed_step: record, output, projection and lock together.      *)
Finish(s, c, outcome, report) ==
  /\ Holds(s, c)
  /\ step' = [step EXCEPT ![s] =
       [@ EXCEPT !.status = outcome, !.claim = c,
                 !.completedBy = AgentOf[c], !.resumeAgent = NoAgent]]
  /\ output' = [output EXCEPT ![s] = c]
  /\ attempt' = [o \in Obligations |->
       IF Counts(s, o)
       THEN [attempt[o] EXCEPT ![s] = AttemptState(s, o, outcome, report)]
       ELSE attempt[o]]
  /\ interpreted' = [o \in Obligations |->
       IF Counts(s, o) /\ report.verdict # "none"
       THEN interpreted[o] \cup {s} ELSE interpreted[o]]
  /\ Unlock(s)
  /\ UNCHANGED <<revision, settlement, cancelled, active>>

MutantEpochsLeft(s) == step[s].epochs <= MaxEpochs
EpochsLeft(s) == step[s].epochs < MaxEpochs

(* An exhausted epoch is handed back to its own agent while epochs remain; *)
(* the last one is finished as failed (Finish).                            *)
Continue(s, c) ==
  /\ Holds(s, c)
  /\ EpochsLeft(s)
  /\ step' = [step EXCEPT ![s] =
       [@ EXCEPT !.status = "pending", !.resumeAgent = AgentOf[c],
                 !.epochs = step[s].epochs + 1]]
  /\ Unlock(s)
  /\ UNCHANGED <<output, projection, revision, settlement, cancelled, active>>

-----------------------------------------------------------------------------
(* Waiting, blocked, cancelled and amended steps                           *)

(* Responses composed while s was paused: they described the pause.        *)
MutantComposedBefore(s) ==
  {r \in Downstream(s) : IsFinal(r) /\ Status(r) \in {"completed", "failed"}}
ComposedBefore(s) ==
  {r \in Downstream(s) :
     IsFinal(r) /\ Status(r) \in {"in_progress", "completed", "failed"}}

(* resume_workflow_step: the waiting step goes back to the agent that      *)
(* paused it and every response downstream of it is reopened.              *)
Resume(s) ==
  LET stale == ComposedBefore(s) IN
  /\ s \in Published
  /\ Status(s) = "waiting"
  /\ step' = [t \in Steps |->
       CASE t = s -> [step[s] EXCEPT !.status = "pending",
                                     !.resumeAgent = step[s].completedBy,
                                     !.blockedBy = {}]
         [] t \in stale -> [FreshRecord EXCEPT !.epochs = step[t].epochs,
                                               !.blockedBy = step[t].blockedBy]
         [] OTHER -> step[t]]
  /\ lock' = [t \in Steps |-> IF t \in stale THEN NoClaim ELSE lock[t]]
  /\ ttl' = [t \in Steps |-> IF t \in stale THEN 0 ELSE ttl[t]]
  /\ output' = [t \in Steps |-> IF t \in stale THEN NoClaim ELSE output[t]]
  /\ active' = TRUE
  /\ UNCHANGED <<projection, revision, settlement, cancelled>>

(* A scan of the active workflows finds a pending step that a dependency   *)
(* forbids (_ready_steps) and records what blocks it.                      *)
Block(s) ==
  /\ active /\ ~ cancelled
  /\ s \in Published
  /\ Status(s) = "pending"
  /\ DependencyBlockers(s) # {}
  /\ step' = [step EXCEPT ![s] =
       [@ EXCEPT !.status = "blocked", !.blockedBy = DependencyBlockers(s)]]
  /\ UNCHANGED <<lock, ttl, output, projection, revision, settlement,
                 cancelled, active>>

(* What requeue_blocked_step asks of the record it read; a step its own    *)
(* executor ended as blocked names no blocker and stays.                   *)
Requeueable(s) ==
  /\ s \in Published
  /\ Status(s) = "blocked"
  /\ step[s].blockedBy # {}
  /\ DependenciesMet(s)

Requeue(s) ==
  /\ Requeueable(s)
  /\ step' = [step EXCEPT ![s] =
       [@ EXCEPT !.status = "pending", !.blockedBy = {}]]
  /\ UNCHANGED <<lock, ttl, output, projection, revision, settlement,
                 cancelled, active>>

(* The steps a cancellation ends.                                          *)
MutantUnfinished ==
  {s \in Published : Status(s) \notin {"completed", "failed", "cancelled", "waiting"}}
Unfinished ==
  {s \in Published : Status(s) \notin {"completed", "failed", "cancelled"}}

Cancel ==
  /\ ~ cancelled
  /\ cancelled' = TRUE
  /\ active' = FALSE
  /\ step' = [s \in Steps |->
       IF s \in Unfinished
       THEN [step[s] EXCEPT !.status = "cancelled", !.resumeAgent = NoAgent]
       ELSE step[s]]
  /\ lock' = [s \in Steps |-> NoClaim]
  /\ ttl' = [s \in Steps |-> 0]
  /\ UNCHANGED <<output, projection, revision, settlement>>

MutantReplaced(delta) ==
  LET covered == UNION {Covers[d] : d \in delta} IN
  {s \in Published :
     \/ Covers[s] \cap covered # {}
     \/ IsFinal(s) /\ \E d \in delta : IsFinal(d)}

(* The live steps an amendment publishing the steps of delta replaces.     *)
Replaced(delta) ==
  LET covered == UNION {Covers[d] : d \in delta} IN
  {s \in Published :
     /\ Status(s) \in {"pending", "waiting", "blocked"}
     /\ \/ Covers[s] \cap covered # {}
        \/ IsFinal(s) /\ \E d \in delta : IsFinal(d)}

(* An amendment lands only on the revision it was planned against.         *)
Amendable(expected) == ~ cancelled /\ expected = revision

(* amend_workflow, for a caller that planned against revision expected.    *)
Amend(expected) ==
  LET delta == {s \in Steps : RevisionOf[s] = expected + 1}
      covered == UNION {Covers[d] : d \in delta}
  IN
  /\ Amendable(expected)
  /\ delta # {}
  /\ revision' = expected + 1
  /\ step' = [s \in Steps |->
       IF s \in Replaced(delta)
       THEN [step[s] EXCEPT !.status = "superseded"] ELSE step[s]]
  /\ attempt' = [o \in Obligations |->
       IF o \notin covered THEN attempt[o]
       ELSE [s \in Steps |-> IF s \in delta /\ o \in Covers[s]
                             THEN "pending" ELSE "none"]]
  /\ interpreted' = [o \in Obligations |->
       IF o \in covered THEN {} ELSE interpreted[o]]
  /\ active' = TRUE
  /\ UNCHANGED <<lock, ttl, output, settlement, cancelled>>

-----------------------------------------------------------------------------
(* The caller waiting for the workflow                                     *)

EndStatuses == {"completed", "failed", "waiting", "blocked", "cancelled",
                "superseded"}

PausedForPerson == \E s \in CurrentSteps : Status(s) = "waiting"
AllTerminal == \A s \in CurrentSteps : Status(s) \in EndStatuses

(* Every current domain step ended, or everything current did.             *)
WorkEnded ==
  \/ CurrentSteps # {} /\ AllTerminal
  \/ LET domain == {s \in CurrentSteps : ~ IsFinal(s)} IN
     domain # {} /\ \A s \in domain : Status(s) \in EndStatuses

(* A settlement is owed: gaps nobody amends away, or an amended revision   *)
(* that left none.                                                         *)
SettlementDue ==
  /\ WorkEnded /\ ~ PausedForPerson
  /\ revision \notin settlement.saved
  /\ IF SemanticGaps = {} THEN revision > 1 ELSE HasPlanner

DecideSettlement ==
  /\ SettlementDue
  /\ settlement' = [settlement EXCEPT !.decided = @ \cup {revision}]
  /\ UNCHANGED <<step, lock, ttl, output, projection, revision, cancelled,
                 active>>

(* The planner is asked in between: the settlement is saved whatever       *)
(* became of the workflow since.                                           *)
SaveSettlement(r) ==
  /\ r \in settlement.decided \ settlement.saved
  /\ settlement' = [settlement EXCEPT !.saved = @ \cup {r}]
  /\ UNCHANGED <<step, lock, ttl, output, projection, revision, cancelled,
                 active>>

Settle == DecideSettlement \/ \E r \in settlement.decided : SaveSettlement(r)

(* The waiter sees the revision terminal and takes the workflow off the    *)
(* active index.                                                           *)
Close ==
  /\ active
  /\ CurrentSteps # {} /\ AllTerminal /\ ~ SettlementDue
  /\ ~ PausedForPerson
  /\ active' = FALSE
  /\ UNCHANGED <<step, lock, ttl, output, projection, revision, settlement,
                 cancelled>>

Next ==
  \/ \E s \in Steps, c \in Claims :
       \/ Claim(s, c)
       \/ Renew(s, c)
       \/ Continue(s, c)
       \/ \E outcome \in Outcomes, report \in Reports(s) :
            Finish(s, c, outcome, report)
  \/ \E s \in Steps : Recover(s) \/ Resume(s) \/ Block(s) \/ Requeue(s)
  \/ Tick
  \/ Cancel
  \/ \E expected \in {RevisionOf[s] : s \in Steps} : Amend(expected)
  \/ Settle
  \/ Close

Spec == Init /\ [][Next]_vars

-----------------------------------------------------------------------------
(* Properties                                                              *)

(* A lock never outlives the run it fences: while Redis holds a claim's    *)
(* lock, the step is in progress under that very claim, so a write fenced  *)
(* by the lock never lands on a step that moved on (finish_claimed_step    *)
(* and continue_claimed_step do not look at the status).                   *)
HolderIsRunning ==
  \A s \in Steps : lock[s] # NoClaim =>
    s \in Published /\ Status(s) = "in_progress" /\ step[s].claim = lock[s]

(* At most one consequential step is in progress or waiting for a person   *)
(* on any system, however claims expire, steps resume and plans are        *)
(* amended.                                                                *)
OneWriterPerSystem ==
  \A s, t \in Published :
    Conflict(s, t) => ~ (/\ Status(s) \in {"in_progress", "waiting"}
                        /\ Status(t) \in {"in_progress", "waiting"})

(* A cancelled workflow holds no lock, is not scanned for work, and every  *)
(* step of it has ended; no resume, recovery or late amendment revives it. *)
CancelledIsFenced ==
  cancelled =>
    /\ ~ active
    /\ \A s \in Steps : lock[s] = NoClaim
    /\ \A s \in Published : Status(s) \in {"completed", "failed", "cancelled"}

(* An obligation is judged only by attempts of the newest published        *)
(* revision that covers it: a result of a replaced step that commits late  *)
(* changes nothing.                                                        *)
NewestAttemptsCount ==
  \A o \in Obligations : \A s \in CurrentAttempts(o) :
    /\ s \in Published /\ o \in Covers[s]
    /\ \A t \in Published : o \in Covers[t] => RevisionOf[t] <= RevisionOf[s]

(* A completed domain step is never run again, cancelled or replaced; only *)
(* a final response is reopened.                                           *)
CompletedStays ==
  [][\A s \in Steps :
       Status(s) = "completed" /\ ~ IsFinal(s) => Status(s)' = "completed"]_vars

(* The steps somebody acts on, or that wait for a person in the middle.    *)
Engaged == {s \in Steps : Status(s) \in {"in_progress", "waiting"}}

(* The ledger implements exclusive work: a claim's lock is the holder, the *)
(* saved output the result; a step that runs or waits for a person is      *)
(* engaged; only final responses are withdrawn; the tombstone calls off.   *)
Work == INSTANCE ExclusiveWork WITH
  Pieces <- Steps,
  Retractable <- {s \in Steps : IsFinal(s)},
  Workers <- Claims,
  Nobody <- NoClaim,
  Excludes <- {e \in Steps \X Steps : Conflict(e[1], e[2])},
  holder <- lock,
  engaged <- Engaged,
  result <- output,
  open <- ~ cancelled

(* However leases run out, steps resume and plans are amended, each call   *)
(* of the store is one step of exclusive work or none: a result is the     *)
(* work of the claim that holds the step at that moment, a step is taken   *)
(* only when no other holds or engages it or a conflicting one, and a      *)
(* cancelled workflow changes no result.                                   *)
WorkIsExclusive == Work!Spec
=============================================================================
