-------------------------- MODULE StepLedgerProofs --------------------------
(* Proofs about StepLedger and StepWorkers for every plan, every set of    *)
(* claims, whoever may run which step, and every lease length.             *)
EXTENDS StepWorkers, TLAPS

USE PlanAssumption, ClaimAssumption, BoundAssumption

-----------------------------------------------------------------------------
(* Type correctness                                                        *)

(* A committed result gives an obligation one of the attempt states.       *)
LEMMA AttemptStateType ==
  ASSUME NEW s \in Steps, NEW o \in Covers[s],
         NEW outcome \in Outcomes, NEW report \in Reports(s)
  PROVE  AttemptState(s, o, outcome, report) \in AttemptStates
BY DEF AttemptState, AttemptStates, Reports

(* The record updates the store makes give records.                        *)
LEMMA FreshRecordType == FreshRecord \in StepRecord
BY DEF FreshRecord, StepRecord, Statuses

LEMMA StatusUpdate ==
  ASSUME NEW r \in StepRecord, NEW status \in Statuses
  PROVE  [r EXCEPT !.status = status] \in StepRecord
BY DEF StepRecord

LEMMA ClaimUpdate ==
  ASSUME NEW r \in StepRecord, NEW c \in Claims
  PROVE  [r EXCEPT !.status = "in_progress", !.claim = c] \in StepRecord
BY DEF StepRecord, Statuses

LEMMA BlockUpdate ==
  ASSUME NEW r \in StepRecord, NEW status \in Statuses, NEW by \in SUBSET Steps
  PROVE  [r EXCEPT !.status = status, !.blockedBy = by] \in StepRecord
BY DEF StepRecord

LEMMA FinishUpdate ==
  ASSUME NEW r \in StepRecord, NEW outcome \in Outcomes, NEW c \in Claims
  PROVE  [r EXCEPT !.status = outcome, !.claim = c,
                   !.completedBy = AgentOf[c], !.resumeAgent = NoAgent]
           \in StepRecord
BY DEF StepRecord, Statuses, Outcomes

LEMMA ContinueUpdate ==
  ASSUME NEW r \in StepRecord, r.epochs < MaxEpochs, NEW a \in Agents
  PROVE  [r EXCEPT !.status = "pending", !.resumeAgent = a,
                   !.epochs = r.epochs + 1] \in StepRecord
<1>1. r.epochs + 1 \in 1 .. MaxEpochs
  BY DEF StepRecord
<1>2. QED
  BY <1>1 DEF StepRecord, Statuses

LEMMA ResumeUpdate ==
  ASSUME NEW r \in StepRecord
  PROVE  [r EXCEPT !.status = "pending", !.resumeAgent = r.completedBy,
                   !.blockedBy = {}] \in StepRecord
BY DEF StepRecord, Statuses

LEMMA ReopenUpdate ==
  ASSUME NEW r \in StepRecord
  PROVE  [FreshRecord EXCEPT !.epochs = r.epochs, !.blockedBy = r.blockedBy]
           \in StepRecord
BY DEF FreshRecord, StepRecord, Statuses

LEMMA CancelUpdate ==
  ASSUME NEW r \in StepRecord
  PROVE  [r EXCEPT !.status = "cancelled", !.resumeAgent = NoAgent]
           \in StepRecord
BY DEF StepRecord, Statuses

(* One tick leaves a lease within its length.                              *)
LEMMA TickedLease ==
  ASSUME NEW n \in 0 .. LeaseTicks
  PROVE  (IF n = 0 THEN 0 ELSE n - 1) \in 0 .. LeaseTicks
OBVIOUS

LEMMA InitType == Init => TypeOK
<1> SUFFICES ASSUME Init PROVE TypeOK
  OBVIOUS
<1>1. step \in [Steps -> StepRecord]
  BY FreshRecordType DEF Init
<1>2. /\ lock \in [Steps -> Claims \cup {NoClaim}]
      /\ output \in [Steps -> Claims \cup {NoClaim}]
      /\ ttl \in [Steps -> 0 .. LeaseTicks]
  BY DEF Init
<1>3. /\ attempt \in [Obligations -> [Steps -> AttemptStates \cup {"none"}]]
      /\ interpreted \in [Obligations -> SUBSET Steps]
  BY DEF Init, AttemptStates
<1>4. /\ revision = 1 /\ settlement = [decided |-> {}, saved |-> {}]
      /\ cancelled = FALSE /\ active = TRUE
  BY DEF Init
<1>5. revision \in Nat \ {0} /\ settlement \in [decided : SUBSET Nat, saved : SUBSET Nat]
  BY <1>4
<1>6. cancelled \in BOOLEAN /\ active \in BOOLEAN
  BY <1>4
<1>7. QED
  BY <1>1, <1>2, <1>3, <1>5, <1>6 DEF TypeOK

LEMMA ClaimType ==
  ASSUME TypeOK, NEW s \in Steps, NEW c \in Claims, Claim(s, c)
  PROVE  TypeOK'
<1>1. step' \in [Steps -> StepRecord]
  BY ClaimUpdate DEF TypeOK, Claim
<1>2. QED
  BY <1>1 DEF TypeOK, Claim, projection

LEMMA RenewType ==
  ASSUME TypeOK, NEW s \in Steps, NEW c \in Claims, Renew(s, c)
  PROVE  TypeOK'
BY DEF TypeOK, Renew, projection

LEMMA ContinueType ==
  ASSUME TypeOK, NEW s \in Steps, NEW c \in Claims, Continue(s, c)
  PROVE  TypeOK'
<1>1. step' \in [Steps -> StepRecord]
  BY ContinueUpdate DEF TypeOK, Continue, EpochsLeft
<1>2. QED
  BY <1>1 DEF TypeOK, Continue, Unlock, projection

LEMMA FinishType ==
  ASSUME TypeOK, NEW s \in Steps, NEW c \in Claims,
         NEW outcome \in Outcomes, NEW report \in Reports(s),
         Finish(s, c, outcome, report)
  PROVE  TypeOK'
<1>1. step' \in [Steps -> StepRecord]
  BY FinishUpdate DEF TypeOK, Finish
<1>2. ASSUME NEW o \in Obligations
      PROVE  attempt'[o] \in [Steps -> AttemptStates \cup {"none"}]
  BY AttemptStateType DEF TypeOK, Finish, Counts
<1>3. attempt' \in [Obligations -> [Steps -> AttemptStates \cup {"none"}]]
  BY <1>2 DEF Finish
<1>4. interpreted' \in [Obligations -> SUBSET Steps]
  BY DEF TypeOK, Finish
<1>5. QED
  BY <1>1, <1>3, <1>4 DEF TypeOK, Finish, Unlock

LEMMA TickType == TypeOK /\ Tick => TypeOK'
<1> SUFFICES ASSUME TypeOK, Tick PROVE TypeOK'
  OBVIOUS
<1>1. ttl' \in [Steps -> 0 .. LeaseTicks]
  BY TickedLease DEF TypeOK, Tick
<1>2. lock' \in [Steps -> Claims \cup {NoClaim}]
  BY DEF TypeOK, Tick
<1>3. QED
  BY <1>1, <1>2 DEF TypeOK, Tick, projection

LEMMA RecoverType ==
  ASSUME TypeOK, NEW s \in Steps, Recover(s)
  PROVE  TypeOK'
<1>1. step' \in [Steps -> StepRecord]
  BY StatusUpdate DEF TypeOK, Recover, Statuses
<1>2. QED
  BY <1>1 DEF TypeOK, Recover, projection

LEMMA ResumeType ==
  ASSUME TypeOK, NEW s \in Steps, Resume(s)
  PROVE  TypeOK'
<1>1. step' \in [Steps -> StepRecord]
  BY ResumeUpdate, ReopenUpdate DEF TypeOK, Resume
<1>2. /\ lock' \in [Steps -> Claims \cup {NoClaim}]
      /\ output' \in [Steps -> Claims \cup {NoClaim}]
  BY DEF TypeOK, Resume
<1>3. ttl' \in [Steps -> 0 .. LeaseTicks]
  <2>1. 0 \in 0 .. LeaseTicks
    OBVIOUS
  <2>2. QED
    BY <2>1 DEF TypeOK, Resume
<1>4. QED
  BY <1>1, <1>2, <1>3 DEF TypeOK, Resume, projection

LEMMA BlockType ==
  ASSUME TypeOK, NEW s \in Steps, Block(s)
  PROVE  TypeOK'
<1>1. step' \in [Steps -> StepRecord]
  BY BlockUpdate DEF TypeOK, Block, Statuses, DependencyBlockers
<1>2. QED
  BY <1>1 DEF TypeOK, Block, projection

LEMMA RequeueType ==
  ASSUME TypeOK, NEW s \in Steps, Requeue(s)
  PROVE  TypeOK'
<1>1. step' \in [Steps -> StepRecord]
  BY BlockUpdate DEF TypeOK, Requeue, Statuses
<1>2. QED
  BY <1>1 DEF TypeOK, Requeue, projection

LEMMA CancelType == TypeOK /\ Cancel => TypeOK'
<1> SUFFICES ASSUME TypeOK, Cancel PROVE TypeOK'
  OBVIOUS
<1>1. step' \in [Steps -> StepRecord]
  BY CancelUpdate DEF TypeOK, Cancel
<1>2. /\ lock' = [s \in Steps |-> NoClaim]
      /\ ttl' = [s \in Steps |-> 0]
  BY DEF Cancel
<1>3. /\ UNCHANGED <<output, projection, revision, settlement>>
      /\ cancelled' \in BOOLEAN /\ active' \in BOOLEAN
  BY DEF Cancel
<1>4. QED
  BY <1>1, <1>2, <1>3 DEF TypeOK, projection

LEMMA AmendType ==
  ASSUME TypeOK, NEW expected \in Nat, Amend(expected)
  PROVE  TypeOK'
<1>1. step' \in [Steps -> StepRecord]
  BY StatusUpdate DEF TypeOK, Amend, Statuses
<1>2. attempt' \in [Obligations -> [Steps -> AttemptStates \cup {"none"}]]
  BY DEF TypeOK, Amend, AttemptStates
<1>3. interpreted' \in [Obligations -> SUBSET Steps]
  BY DEF TypeOK, Amend
<1>4. /\ UNCHANGED <<lock, ttl, output, settlement, cancelled>>
      /\ revision' \in Nat \ {0} /\ active' \in BOOLEAN
  BY DEF Amend
<1>5. QED
  BY <1>1, <1>2, <1>3, <1>4 DEF TypeOK

LEMMA SettleType == TypeOK /\ Settle => TypeOK'
BY DEF TypeOK, Settle, DecideSettlement, SaveSettlement, projection

LEMMA CloseType == TypeOK /\ Close => TypeOK'
BY DEF TypeOK, Close, projection

(* The expected revision of an amendment is a natural number.              *)
LEMMA ExpectedType == {RevisionOf[s] : s \in Steps} \subseteq Nat
OBVIOUS

LEMMA NextType == TypeOK /\ [Next]_vars => TypeOK'
<1> SUFFICES ASSUME TypeOK, [Next]_vars
             PROVE  TypeOK'
  OBVIOUS
<1>1. CASE UNCHANGED vars
  BY <1>1 DEF TypeOK, vars
<1>2. CASE Next
  BY <1>2, ClaimType, RenewType, ContinueType, FinishType, RecoverType,
     ResumeType, BlockType, RequeueType, TickType, CancelType, AmendType,
     ExpectedType, SettleType, CloseType DEF Next
<1>3. QED
  BY <1>1, <1>2

(* Every variable of the ledger keeps its type: no record gets a status    *)
(* outside the eight the code writes, an epoch count beyond the budget or  *)
(* a lock longer than its lease.                                           *)
THEOREM TypeCorrect == Spec => []TypeOK
BY InitType, NextType, PTL DEF Spec

-----------------------------------------------------------------------------
(* What each operation does to the status of the steps                     *)

LEMMA ClaimEffect ==
  ASSUME TypeOK, NEW s \in Steps, NEW c \in Claims, Claim(s, c)
  PROVE  /\ Status(s)' = "in_progress" /\ step'[s].claim = c
         /\ \A t \in Steps \ {s} : step'[t] = step[t]
BY DEF TypeOK, Claim, Status, StepRecord

LEMMA FinishEffect ==
  ASSUME TypeOK, NEW s \in Steps, NEW c \in Claims,
         NEW outcome \in Outcomes, NEW report \in Reports(s),
         Finish(s, c, outcome, report)
  PROVE  /\ Status(s)' = outcome
         /\ \A t \in Steps \ {s} : step'[t] = step[t]
BY DEF TypeOK, Finish, Status, StepRecord

LEMMA ContinueEffect ==
  ASSUME TypeOK, NEW s \in Steps, NEW c \in Claims, Continue(s, c)
  PROVE  /\ Status(s)' = "pending"
         /\ \A t \in Steps \ {s} : step'[t] = step[t]
BY DEF TypeOK, Continue, Status, StepRecord

LEMMA RecoverEffect ==
  ASSUME TypeOK, NEW s \in Steps, Recover(s)
  PROVE  /\ Status(s) = "in_progress" /\ Status(s)' = "pending"
         /\ \A t \in Steps \ {s} : step'[t] = step[t]
BY DEF TypeOK, Recover, Expired, Status, StepRecord

LEMMA ResumeEffect ==
  ASSUME TypeOK, NEW s \in Steps, Resume(s)
  PROVE  /\ Status(s) = "waiting" /\ Status(s)' = "pending"
         /\ \A t \in Steps \ {s} :
              \/ step'[t] = step[t] /\ lock'[t] = lock[t]
              \/ IsFinal(t) /\ Status(t)' = "pending" /\ lock'[t] = NoClaim
         /\ lock'[s] = lock[s] \/ lock'[s] = NoClaim
<1>1. Status(s) = "waiting"
  BY DEF Resume
<1>2. Status(s)' = "pending"
  <2>1. s \notin ComposedBefore(s)
    BY <1>1 DEF ComposedBefore
  <2>2. step'[s] = [step[s] EXCEPT !.status = "pending",
                       !.resumeAgent = step[s].completedBy, !.blockedBy = {}]
    BY <2>1 DEF Resume
  <2>3. QED
    BY <2>2 DEF TypeOK, Status, StepRecord
<1>3. ASSUME NEW t \in Steps \ {s}
      PROVE  \/ step'[t] = step[t] /\ lock'[t] = lock[t]
             \/ IsFinal(t) /\ Status(t)' = "pending" /\ lock'[t] = NoClaim
  <2>1. CASE t \in ComposedBefore(s)
    <3>1. IsFinal(t)
      BY <2>1 DEF ComposedBefore
    <3>2. step'[t] = [FreshRecord EXCEPT !.epochs = step[t].epochs,
                                         !.blockedBy = step[t].blockedBy]
      BY <2>1 DEF Resume
    <3>3. QED
      BY <2>1, <3>1, <3>2 DEF Resume, Status, FreshRecord
  <2>2. CASE t \notin ComposedBefore(s)
    BY <2>2 DEF Resume
  <2>3. QED
    BY <2>1, <2>2
<1>4. lock'[s] = lock[s] \/ lock'[s] = NoClaim
  BY DEF Resume
<1>5. QED
  BY <1>1, <1>2, <1>3, <1>4

LEMMA CancelEffect ==
  ASSUME TypeOK, Cancel
  PROVE  \A t \in Steps :
           /\ t \in Unfinished => Status(t)' = "cancelled"
           /\ t \notin Unfinished => step'[t] = step[t]
<1>1. ASSUME NEW t \in Unfinished PROVE Status(t)' = "cancelled"
  <2>1. t \in Steps
    BY DEF Unfinished, Published
  <2>2. step'[t] = [step[t] EXCEPT !.status = "cancelled",
                                   !.resumeAgent = NoAgent]
    BY <2>1 DEF Cancel
  <2>3. QED
    BY <2>1, <2>2 DEF TypeOK, Status, StepRecord
<1>2. ASSUME NEW t \in Steps, t \notin Unfinished PROVE step'[t] = step[t]
  BY <1>2 DEF Cancel
<1>3. QED
  BY <1>1, <1>2

LEMMA AmendEffect ==
  ASSUME TypeOK, NEW expected \in Nat, Amend(expected)
  PROVE  \A t \in Steps :
           \/ step'[t] = step[t]
           \/ /\ t \in Published /\ Status(t) \in {"pending", "waiting", "blocked"}
              /\ Status(t)' = "superseded"
<1> SUFFICES ASSUME NEW t \in Steps
             PROVE  \/ step'[t] = step[t]
                    \/ /\ t \in Published
                       /\ Status(t) \in {"pending", "waiting", "blocked"}
                       /\ Status(t)' = "superseded"
  OBVIOUS
<1> DEFINE delta == {s \in Steps : RevisionOf[s] = expected + 1}
<1>1. step'[t] = IF t \in Replaced(delta)
                 THEN [step[t] EXCEPT !.status = "superseded"] ELSE step[t]
  BY DEF Amend
<1>2. CASE t \in Replaced(delta)
  <2>1. t \in Published /\ Status(t) \in {"pending", "waiting", "blocked"}
    BY <1>2 DEF Replaced
  <2>2. Status(t)' = "superseded"
    BY <1>1, <1>2 DEF TypeOK, Status, StepRecord
  <2>3. QED
    BY <2>1, <2>2
<1>3. CASE t \notin Replaced(delta)
  BY <1>1, <1>3
<1>4. QED
  BY <1>2, <1>3

-----------------------------------------------------------------------------
(* The calls of the store, by what they do to the steps                    *)

(* A write of block_step or requeue_blocked_step: some record, read at     *)
(* another time, goes back as blocked or pending.                          *)
StaleWrite(s) ==
  /\ \E r \in StepRecord :
       r.status \in {"pending", "blocked"} /\ step' = [step EXCEPT ![s] = r]
  /\ UNCHANGED <<lock, ttl, output, projection, revision, settlement,
                 cancelled, active>>

(* It comes in time if nobody took up the step, ended or replaced it.      *)
TimelyWrite(s) == StaleWrite(s) /\ Status(s) \in {"pending", "blocked"}

StepCall(s) ==
  \/ Recover(s) \/ Resume(s)
  \/ \E c \in Claims :
       \/ Claim(s, c) \/ Renew(s, c) \/ Continue(s, c)
       \/ \E outcome \in Outcomes, report \in Reports(s) :
            Finish(s, c, outcome, report)

(* Calls that leave every step, lock and obligation alone.                 *)
IndexCall ==
  /\ active' \in BOOLEAN
  /\ UNCHANGED <<step, lock, ttl, output, projection, revision, settlement,
                 cancelled>>

WorkflowCall ==
  \/ \E expected \in Nat : Amend(expected)
  \/ Tick \/ Cancel \/ Settle \/ IndexCall \/ UNCHANGED vars

AnyCall == WorkflowCall \/ \E s \in Steps : StepCall(s) \/ StaleWrite(s)
OrderlyCall == WorkflowCall \/ \E s \in Steps : StepCall(s) \/ TimelyWrite(s)

LEMMA OrderlyIsAny == OrderlyCall => AnyCall
BY DEF OrderlyCall, AnyCall, TimelyWrite

(* Blocking and requeueing a step in one step of the store come in time.   *)
LEMMA LedgerIsOrderly == TypeOK /\ [Next]_vars => OrderlyCall
<1> SUFFICES ASSUME TypeOK, [Next]_vars PROVE OrderlyCall
  OBVIOUS
<1>1. ASSUME NEW s \in Steps, Block(s) PROVE TimelyWrite(s)
  <2> DEFINE r == [step[s] EXCEPT !.status = "blocked", !.blockedBy = DependencyBlockers(s)]
  <2>1. step[s] \in StepRecord
    BY DEF TypeOK
  <2>2. r \in StepRecord
    BY <2>1, BlockUpdate DEF Statuses, DependencyBlockers
  <2>3. r.status = "blocked"
    BY <2>1 DEF StepRecord
  <2>4. step' = [step EXCEPT ![s] = r]
    BY <1>1 DEF Block
  <2> HIDE DEF r
  <2>5. QED
    BY <1>1, <2>2, <2>3, <2>4 DEF Block, TimelyWrite, StaleWrite
<1>2. ASSUME NEW s \in Steps, Requeue(s) PROVE TimelyWrite(s)
  <2> DEFINE r == [step[s] EXCEPT !.status = "pending", !.blockedBy = {}]
  <2>1. step[s] \in StepRecord
    BY DEF TypeOK
  <2>2. r \in StepRecord
    BY <2>1, BlockUpdate DEF Statuses
  <2>3. r.status = "pending"
    BY <2>1 DEF StepRecord
  <2>4. step' = [step EXCEPT ![s] = r]
    BY <1>2 DEF Requeue
  <2> HIDE DEF r
  <2>5. QED
    BY <1>2, <2>2, <2>3, <2>4 DEF Requeue, Requeueable, TimelyWrite, StaleWrite
<1>3. Close => IndexCall
  BY DEF Close, IndexCall
<1>4. QED
  BY <1>1, <1>2, <1>3, ExpectedType DEF Next, OrderlyCall, WorkflowCall, StepCall

LEMMA AnyCallType == TypeOK /\ AnyCall => TypeOK'
<1> SUFFICES ASSUME TypeOK, AnyCall PROVE TypeOK'
  OBVIOUS
<1>1. ASSUME NEW s \in Steps, StaleWrite(s) PROVE TypeOK'
  <2>1. step' \in [Steps -> StepRecord]
    BY <1>1 DEF TypeOK, StaleWrite
  <2>2. QED
    BY <1>1, <2>1 DEF TypeOK, StaleWrite, projection
<1>2. ASSUME NEW s \in Steps, StepCall(s) PROVE TypeOK'
  BY <1>2, ClaimType, RenewType, ContinueType, FinishType, RecoverType, ResumeType
     DEF StepCall
<1>3. CASE IndexCall
  BY <1>3 DEF TypeOK, IndexCall, projection
<1>4. CASE UNCHANGED vars
  BY <1>4 DEF TypeOK, vars
<1>5. QED
  BY <1>1, <1>2, <1>3, <1>4, AmendType, TickType, CancelType, SettleType
     DEF AnyCall, WorkflowCall

LEMMA TimelyEffect ==
  ASSUME TypeOK, NEW s \in Steps, TimelyWrite(s)
  PROVE  /\ Status(s) \in {"pending", "blocked"} /\ Status(s)' \in {"pending", "blocked"}
         /\ \A t \in Steps \ {s} : step'[t] = step[t]
BY DEF TypeOK, TimelyWrite, StaleWrite, Status

-----------------------------------------------------------------------------
(* The inductive invariant                                                 *)

(* No step runs or waits before it is published.                           *)
EngagedArePublished == \A s \in Steps \ Published : Status(s) \notin {"in_progress", "waiting"}

WorkInvariant ==
  /\ TypeOK
  /\ HolderIsRunning
  /\ OneWriterPerSystem
  /\ CancelledStaysFenced
  /\ EngagedArePublished

(* A step comes to run or to wait, and a lock is taken, only where the     *)
(* workflow is not cancelled and the step is published.                    *)
MovesOfOpen(t) ==
  /\ Status(t)' \in {"in_progress", "waiting"} =>
       Status(t)' = Status(t) \/ (~ cancelled /\ t \in Published)
  /\ lock'[t] \in {lock[t], NoClaim} \/ ~ cancelled

LEMMA CallMovesOpen ==
  ASSUME TypeOK, NEW s \in Steps, StepCall(s) \/ StaleWrite(s), NEW t \in Steps
  PROVE  MovesOfOpen(t) /\ UNCHANGED <<cancelled, revision>>
<1> USE DEF MovesOfOpen
<1>1. ASSUME NEW c \in Claims, Claim(s, c)
      PROVE  MovesOfOpen(t) /\ UNCHANGED <<cancelled, revision>>
  <2>1. \/ t = s
        \/ step'[t] = step[t]
    BY <1>1, ClaimEffect
  <2>2. ~ cancelled /\ s \in Published
    BY <1>1 DEF Claim, Claimable
  <2>3. QED
    BY <1>1, <2>1, <2>2 DEF Claim, Status
<1>2. ASSUME NEW c \in Claims, Renew(s, c)
      PROVE  MovesOfOpen(t) /\ UNCHANGED <<cancelled, revision>>
  BY <1>2 DEF Renew, Status
<1>3. ASSUME NEW c \in Claims, Continue(s, c)
      PROVE  MovesOfOpen(t) /\ UNCHANGED <<cancelled, revision>>
  <2>1. t = s \/ step'[t] = step[t]
    BY <1>3, ContinueEffect
  <2>2. ~ cancelled /\ s \in Published
    BY <1>3 DEF Continue, Holds
  <2>3. QED
    BY <1>3, <2>1, <2>2 DEF Continue, Status
<1>4. ASSUME NEW c \in Claims, NEW outcome \in Outcomes, NEW report \in Reports(s),
             Finish(s, c, outcome, report)
      PROVE  MovesOfOpen(t) /\ UNCHANGED <<cancelled, revision>>
  <2>1. t = s \/ step'[t] = step[t]
    BY <1>4, FinishEffect
  <2>2. ~ cancelled /\ s \in Published
    BY <1>4 DEF Finish, Holds
  <2>3. QED
    BY <1>4, <2>1, <2>2 DEF Finish, Status
<1>5. CASE Recover(s)
  <2>1. t = s \/ step'[t] = step[t]
    BY <1>5, RecoverEffect
  <2>2. ~ cancelled /\ s \in Published
    BY <1>5 DEF Recover
  <2>3. QED
    BY <1>5, <2>1, <2>2 DEF Recover, Status
<1>6. CASE Resume(s)
  <2>1. \/ Status(t)' = "pending" /\ lock'[t] \in {lock[t], NoClaim}
        \/ step'[t] = step[t] /\ lock'[t] = lock[t]
    BY <1>6, ResumeEffect
  <2>2. QED
    BY <1>6, <2>1 DEF Resume, Status
<1>7. CASE StaleWrite(s)
  <2>1. Status(t)' \in {"pending", "blocked"} \/ step'[t] = step[t]
    BY <1>7 DEF StaleWrite, Status, TypeOK
  <2>2. QED
    BY <1>7, <2>1 DEF StaleWrite, Status
<1>8. QED
  BY <1>1, <1>2, <1>3, <1>4, <1>5, <1>6, <1>7 DEF StepCall

LEMMA MovesOpen ==
  ASSUME TypeOK, AnyCall, NEW t \in Steps
  PROVE  /\ MovesOfOpen(t)
         /\ Published \subseteq Published'
         /\ cancelled' = cancelled \/ Cancel
<1>1. CASE \E s \in Steps : StepCall(s) \/ StaleWrite(s)
  BY <1>1, CallMovesOpen DEF Published
<1>2. ASSUME NEW expected \in Nat, Amend(expected)
      PROVE  /\ MovesOfOpen(t) /\ Published \subseteq Published' /\ cancelled' = cancelled
  <2>1. step'[t] = step[t] \/ Status(t)' = "superseded"
    BY <1>2, AmendEffect
  <2>2. lock' = lock /\ cancelled' = cancelled /\ revision' = revision + 1
    BY <1>2 DEF Amend, Amendable
  <2>3. Published \subseteq Published'
    BY <2>2 DEF Published, TypeOK
  <2>4. QED
    BY <2>1, <2>2, <2>3 DEF MovesOfOpen, Status
<1>3. CASE Tick
  BY <1>3 DEF Tick, MovesOfOpen, Status, Published
<1>4. CASE Cancel
  <2>1. Status(t)' = "cancelled" \/ step'[t] = step[t]
    BY <1>4, CancelEffect
  <2>2. QED
    BY <1>4, <2>1 DEF Cancel, MovesOfOpen, Status, Published
<1>5. CASE Settle \/ IndexCall \/ UNCHANGED vars
  BY <1>5 DEF Settle, DecideSettlement, SaveSettlement, IndexCall, vars, MovesOfOpen,
     Status, Published
<1>6. QED
  BY <1>1, <1>2, <1>3, <1>4, <1>5 DEF AnyCall, WorkflowCall

LEMMA FencedByCalls ==
  ASSUME TypeOK, CancelledStaysFenced, EngagedArePublished, AnyCall
  PROVE  CancelledStaysFenced' /\ EngagedArePublished'
<1>1. EngagedArePublished'
  BY MovesOpen DEF EngagedArePublished, MovesOfOpen
<1>2. CancelledStaysFenced'
  <2>1. CASE Cancel
    <3>1. SUFFICES ASSUME NEW t \in Steps
                   PROVE  lock'[t] = NoClaim /\ Status(t)' \notin {"in_progress", "waiting"}
      BY DEF CancelledStaysFenced
    <3>2. CASE t \in Unfinished
      BY <2>1, <3>2, CancelEffect DEF Cancel
    <3>3. CASE t \notin Unfinished
      <4>1. Status(t) \notin {"in_progress", "waiting"}
        BY <3>3 DEF Unfinished, EngagedArePublished
      <4>2. QED
        BY <2>1, <3>3, <4>1, CancelEffect DEF Cancel, Status
    <3>4. QED
      BY <3>2, <3>3
  <2>2. CASE cancelled' = cancelled
    <3>1. SUFFICES ASSUME cancelled, NEW t \in Steps
                   PROVE  lock'[t] = NoClaim /\ Status(t)' \notin {"in_progress", "waiting"}
      BY <2>2 DEF CancelledStaysFenced
    <3>2. lock[t] = NoClaim /\ Status(t) \notin {"in_progress", "waiting"}
      BY <3>1 DEF CancelledStaysFenced
    <3>3. QED
      BY <3>1, <3>2, MovesOpen DEF MovesOfOpen
  <2>3. QED
    BY <2>1, <2>2, MovesOpen DEF CancelledStaysFenced
<1>3. QED
  BY <1>1, <1>2

(* A lock outlives no status change.                                       *)
LEMMA HolderStep ==
  ASSUME WorkInvariant, OrderlyCall
  PROVE  HolderIsRunning'
<1> DEFINE held(t) == /\ t \in Published' /\ Status(t)' = "in_progress"
                      /\ step'[t].claim = lock'[t]
<1> SUFFICES ASSUME NEW t \in Steps, lock'[t] # NoClaim PROVE held(t)
  BY DEF HolderIsRunning, Status
<1> USE DEF WorkInvariant
<1>0. /\ lock[t] # NoClaim =>
           t \in Published /\ Status(t) = "in_progress" /\ step[t].claim = lock[t]
      /\ Published \subseteq Published'
  BY OrderlyIsAny, MovesOpen DEF HolderIsRunning
<1>1. ASSUME step'[t] = step[t], lock'[t] = lock[t] PROVE held(t)
  BY <1>0, <1>1 DEF Status
<1>2. ASSUME NEW s \in Steps, NEW c \in Claims, Claim(s, c) PROVE held(t)
  <2>1. Published' = Published /\ s \in Published
    BY <1>2 DEF Claim, Claimable, Published
  <2>2. CASE t = s
    BY <2>1, <2>2, <1>2, ClaimEffect DEF Claim, TypeOK
  <2>3. CASE t # s
    BY <1>1, <2>3, <1>2, ClaimEffect DEF Claim, TypeOK
  <2>4. QED
    BY <2>2, <2>3
<1>3. ASSUME NEW s \in Steps, NEW c \in Claims, Renew(s, c) PROVE held(t)
  BY <1>1, <1>3 DEF Renew
<1>4. ASSUME NEW s \in Steps, NEW c \in Claims, Continue(s, c) PROVE held(t)
  <2>1. t # s /\ lock'[t] = lock[t]
    BY <1>4 DEF Continue, Unlock, TypeOK
  <2>2. QED
    BY <1>1, <2>1, <1>4, ContinueEffect
<1>5. ASSUME NEW s \in Steps, NEW c \in Claims, NEW outcome \in Outcomes,
             NEW report \in Reports(s), Finish(s, c, outcome, report)
      PROVE  held(t)
  <2>1. t # s /\ lock'[t] = lock[t]
    BY <1>5 DEF Finish, Unlock, TypeOK
  <2>2. QED
    BY <1>1, <2>1, <1>5, FinishEffect
<1>6. ASSUME NEW s \in Steps, Recover(s) PROVE held(t)
  <2>1. t # s /\ lock'[t] = lock[t]
    BY <1>6 DEF Recover, Expired
  <2>2. QED
    BY <1>1, <2>1, <1>6, RecoverEffect
<1>7. ASSUME NEW s \in Steps, Resume(s) PROVE held(t)
  <2>1. t # s
    BY <1>0, <1>7, ResumeEffect
  <2>2. step'[t] = step[t] /\ lock'[t] = lock[t]
    BY <2>1, <1>7, ResumeEffect
  <2>3. QED
    BY <1>1, <2>2
<1>8. ASSUME NEW s \in Steps, TimelyWrite(s) PROVE held(t)
  <2>1. lock'[t] = lock[t] /\ t # s
    BY <1>0, <1>8, TimelyEffect DEF TimelyWrite, StaleWrite
  <2>2. QED
    BY <1>1, <2>1, <1>8, TimelyEffect
<1>9. CASE Tick
  <2>1. lock'[t] = lock[t]
    BY <1>9 DEF Tick, TypeOK
  <2>2. QED
    BY <1>1, <2>1, <1>9 DEF Tick
<1>10. CASE Cancel
  BY <1>10 DEF Cancel
<1>11. ASSUME NEW expected \in Nat, Amend(expected) PROVE held(t)
  <2>1. lock'[t] = lock[t]
    BY <1>11 DEF Amend
  <2>2. step'[t] = step[t]
    BY <2>1, <1>0, <1>11, AmendEffect
  <2>3. QED
    BY <1>1, <2>1, <2>2
<1>12. CASE Settle \/ IndexCall \/ UNCHANGED vars
  BY <1>1, <1>12 DEF Settle, DecideSettlement, SaveSettlement, IndexCall, vars
<1> HIDE DEF held
<1>13. QED
  BY <1>2, <1>3, <1>4, <1>5, <1>6, <1>7, <1>8, <1>9, <1>10, <1>11, <1>12
     DEF OrderlyCall, WorkflowCall, StepCall

-----------------------------------------------------------------------------
(* How a status may change                                                 *)

StatusStep(t) ==
  \/ Status(t)' = Status(t)
  \/ /\ Claimable(t) /\ Status(t)' = "in_progress"
     /\ \A u \in Steps \ {t} : Status(u)' = Status(u)
  \/ Status(t) = "in_progress" /\ Status(t)' \in Outcomes \cup {"pending"}
  \/ Resume(t) /\ Status(t) = "waiting" /\ Status(t)' = "pending"
  \/ Status(t) \in {"pending", "blocked"} /\ Status(t)' \in {"pending", "blocked"}
  \/ IsFinal(t) /\ Status(t) \in {"in_progress", "completed", "failed"} /\ Status(t)' = "pending"
  \/ Status(t) \notin {"completed", "failed"} /\ Status(t)' = "cancelled"
  \/ Status(t) \in {"pending", "waiting", "blocked"} /\ Status(t)' = "superseded"

(* Every call moves each record along this lifecycle: the writes that do   *)
(* not look at the status are safe because a lock is held only by a step   *)
(* in progress, and the stale ones where they come in time.                *)
LEMMA LifecycleStep ==
  ASSUME WorkInvariant, OrderlyCall, NEW t \in Steps
  PROVE  StatusStep(t)
<1> USE DEF WorkInvariant
<1>1. ASSUME NEW s \in Steps, NEW c \in Claims, Claim(s, c) PROVE StatusStep(t)
  <2>1. Claimable(s)
    BY <1>1 DEF Claim
  <2>2. \A u \in Steps \ {s} : Status(u)' = Status(u)
    BY <1>1, ClaimEffect DEF Status
  <2>3. Status(s)' = "in_progress"
    BY <1>1, ClaimEffect
  <2>4. QED
    BY <2>1, <2>2, <2>3 DEF StatusStep
<1>2. ASSUME NEW s \in Steps, NEW c \in Claims, Renew(s, c) PROVE StatusStep(t)
  BY <1>2 DEF Renew, StatusStep, Status
<1>3. ASSUME NEW s \in Steps, NEW c \in Claims, Continue(s, c) PROVE StatusStep(t)
  <2>1. Status(s) = "in_progress"
    BY <1>3 DEF Continue, Holds, HolderIsRunning, ClaimAssumption
  <2>2. Status(s)' = "pending" /\ (t # s => Status(t)' = Status(t))
    BY <1>3, ContinueEffect DEF Status
  <2>3. QED
    BY <2>1, <2>2 DEF StatusStep
<1>4. ASSUME NEW s \in Steps, NEW c \in Claims, NEW outcome \in Outcomes,
             NEW report \in Reports(s), Finish(s, c, outcome, report)
      PROVE  StatusStep(t)
  <2>1. Status(s) = "in_progress"
    BY <1>4 DEF Finish, Holds, HolderIsRunning, ClaimAssumption
  <2>2. Status(s)' \in Outcomes /\ (t # s => Status(t)' = Status(t))
    BY <1>4, FinishEffect DEF Status
  <2>3. QED
    BY <2>1, <2>2 DEF StatusStep
<1>5. ASSUME NEW s \in Steps, Recover(s) PROVE StatusStep(t)
  <2>1. /\ Status(s) = "in_progress" /\ Status(s)' = "pending"
        /\ t # s => Status(t)' = Status(t)
    BY <1>5, RecoverEffect DEF Status
  <2>2. QED
    BY <2>1 DEF StatusStep
<1>6. ASSUME NEW s \in Steps, Resume(s) PROVE StatusStep(t)
  <2>1. CASE t = s
    BY <2>1, <1>6, ResumeEffect DEF StatusStep
  <2>2. CASE t # s /\ t \in ComposedBefore(s)
    <3>1. step'[t] = [FreshRecord EXCEPT !.epochs = step[t].epochs,
                                         !.blockedBy = step[t].blockedBy]
      BY <1>6, <2>2 DEF Resume
    <3>2. Status(t)' = "pending"
      BY <3>1 DEF Status, FreshRecord
    <3>3. QED
      BY <2>2, <3>2 DEF StatusStep, ComposedBefore
  <2>3. CASE t # s /\ t \notin ComposedBefore(s)
    BY <1>6, <2>3 DEF Resume, StatusStep, Status
  <2>4. QED
    BY <2>1, <2>2, <2>3
<1>7. ASSUME NEW s \in Steps, TimelyWrite(s) PROVE StatusStep(t)
  <2>1. /\ Status(s) \in {"pending", "blocked"} /\ Status(s)' \in {"pending", "blocked"}
        /\ t # s => Status(t)' = Status(t)
    BY <1>7, TimelyEffect DEF Status
  <2>2. QED
    BY <2>1 DEF StatusStep
<1>8. CASE Cancel
  <2>1. CASE t \in Unfinished
    BY <2>1, <1>8, CancelEffect DEF StatusStep, Unfinished
  <2>2. CASE t \notin Unfinished
    BY <2>2, <1>8, CancelEffect DEF StatusStep, Status
  <2>3. QED
    BY <2>1, <2>2
<1>9. ASSUME NEW expected \in Nat, Amend(expected) PROVE StatusStep(t)
  BY <1>9, AmendEffect DEF StatusStep, Status
<1>10. CASE Tick \/ Settle \/ IndexCall \/ UNCHANGED vars
  BY <1>10 DEF Tick, Settle, DecideSettlement, SaveSettlement, IndexCall, vars, StatusStep, Status
<1>11. QED
  BY <1>1, <1>2, <1>3, <1>4, <1>5, <1>6, <1>7, <1>8, <1>9, <1>10
     DEF OrderlyCall, WorkflowCall, StepCall

LEMMA WriterStep ==
  ASSUME WorkInvariant, OrderlyCall
  PROVE  OneWriterPerSystem'
<1> SUFFICES ASSUME NEW s \in Steps, NEW t \in Steps, Conflict(s, t),
                    Status(s)' \in {"in_progress", "waiting"},
                    Status(t)' \in {"in_progress", "waiting"}
             PROVE  FALSE
  BY DEF OneWriterPerSystem, Published, Conflict, Consequential
<1> DEFINE engaged(u) == Status(u) \in {"in_progress", "waiting"}
<1> DEFINE takes(u, v) == /\ Claimable(u) /\ ~ engaged(u)
                          /\ Status(v)' = Status(v)
<1>1. s # t /\ Conflict(t, s)
  BY DEF Conflict
<1>2. engaged(s) \/ takes(s, t)
  BY <1>1, LifecycleStep DEF StatusStep, Outcomes, Claimable
<1>3. engaged(t) \/ takes(t, s)
  BY <1>1, LifecycleStep DEF StatusStep, Outcomes, Claimable
<1>4. \A u \in Steps : engaged(u) => u \in Published
  BY DEF WorkInvariant, EngagedArePublished
<1>5. CASE engaged(s) /\ engaged(t)
  BY <1>4, <1>5 DEF WorkInvariant, OneWriterPerSystem
<1>6. CASE engaged(s) /\ takes(t, s)
  BY <1>1, <1>4, <1>6 DEF Claimable, ConsequentialWriterActive
<1>7. CASE takes(s, t) /\ engaged(t)
  BY <1>4, <1>7 DEF Claimable, ConsequentialWriterActive
<1>8. CASE takes(s, t) /\ takes(t, s)
  BY <1>8
<1>9. QED
  BY <1>2, <1>3, <1>5, <1>6, <1>7, <1>8

LEMMA WorkInvariantInit == Init => WorkInvariant
<1> SUFFICES ASSUME Init PROVE WorkInvariant
  OBVIOUS
<1>1. TypeOK
  BY InitType
<1>2. \A s \in Steps : Status(s) = "pending" /\ lock[s] = NoClaim
  BY DEF Init, Status, FreshRecord
<1>3. QED
  BY <1>1, <1>2 DEF WorkInvariant, HolderIsRunning, OneWriterPerSystem,
     CancelledStaysFenced, EngagedArePublished, Published

LEMMA WorkInvariantStep == WorkInvariant /\ OrderlyCall => WorkInvariant'
BY OrderlyIsAny, AnyCallType, FencedByCalls, HolderStep, WriterStep DEF WorkInvariant

-----------------------------------------------------------------------------
(* Cancellation in the ledger                                              *)

Inv == WorkInvariant /\ CancelledIsFenced

(* After a cancellation only time passes and a late waiter writes its      *)
(* settlement.                                                             *)
LEMMA CancelStep == Inv /\ [Next]_vars => CancelledIsFenced'
<1> SUFFICES ASSUME Inv, [Next]_vars, cancelled'
             PROVE  /\ ~ active'
                    /\ \A s \in Steps : lock'[s] = NoClaim
                    /\ \A s \in Published' :
                         Status(s)' \in {"completed", "failed", "cancelled"}
  BY DEF CancelledIsFenced
<1> DEFINE fenced == /\ ~ active
                     /\ \A s \in Steps : lock[s] = NoClaim
                     /\ \A s \in Published :
                          Status(s) \in {"completed", "failed", "cancelled"}
<1>1. cancelled => fenced
  BY DEF Inv, CancelledIsFenced
<1>2. CASE Cancel
  <2>1. ~ active' /\ \A s \in Steps : lock'[s] = NoClaim
    BY <1>2 DEF Cancel
  <2>2. Published' = Published
    BY <1>2 DEF Cancel, Published
  <2>3. ASSUME NEW s \in Published
        PROVE  Status(s)' \in {"completed", "failed", "cancelled"}
    BY <1>2, CancelEffect DEF Inv, WorkInvariant, Unfinished, Published, Status
  <2>4. QED
    BY <2>1, <2>2, <2>3
<1>3. CASE Next /\ ~ Cancel
  <2>1. ~ (\E expected \in {RevisionOf[s] : s \in Steps} : Amend(expected))
    BY DEF Amend, Amendable
  <2>2. cancelled
    BY <1>3, <2>1 DEF Next, Claim, Renew, Continue, Finish, Recover, Resume,
       Block, Requeue, Tick, Settle, DecideSettlement, SaveSettlement, Close
  <2>3. fenced
    BY <1>1, <2>2
  <2>4. Tick \/ Settle
    <3>1. \A s \in Steps, c \in Claims :
            ~ Claim(s, c) /\ ~ Renew(s, c) /\ ~ Continue(s, c)
      BY <2>2 DEF Claim, Claimable, Renew, Continue, Holds
    <3>2. \A s \in Steps, c \in Claims, outcome \in Outcomes :
            \A report \in Reports(s) : ~ Finish(s, c, outcome, report)
      BY <2>2 DEF Finish, Holds
    <3>3. \A s \in Steps : ~ Recover(s) /\ ~ Block(s)
      BY <2>2 DEF Recover, Block
    <3>4. \A s \in Steps : ~ Resume(s) /\ ~ Requeue(s)
      BY <2>3 DEF Resume, Requeue, Requeueable
    <3>5. ~ Close
      BY <2>3 DEF Close
    <3>6. QED
      BY <1>3, <2>1, <3>1, <3>2, <3>3, <3>4, <3>5 DEF Next
  <2>5. /\ step' = step /\ revision' = revision /\ active' = active
        /\ \A s \in Steps : lock'[s] = NoClaim
    BY <2>3, <2>4 DEF Tick, Settle, DecideSettlement, SaveSettlement
  <2>6. QED
    BY <2>3, <2>5 DEF Published, Status
<1>4. CASE UNCHANGED vars
  BY <1>1, <1>4 DEF vars, Published, Status
<1>5. QED
  BY <1>2, <1>3, <1>4

LEMMA NextInv == Inv /\ [Next]_vars => Inv'
BY LedgerIsOrderly, WorkInvariantStep, CancelStep DEF Inv, WorkInvariant

LEMMA InvHolds == Spec => []Inv
<1>1. Init => Inv
  BY WorkInvariantInit DEF Inv, CancelledIsFenced, Init
<1>2. QED
  BY <1>1, NextInv, PTL DEF Spec

-----------------------------------------------------------------------------
(* Attempts                                                                *)

LEMMA NewestInit == Init => NewestAttemptsCount
<1> SUFFICES ASSUME Init, NEW o \in Obligations, NEW s \in CurrentAttempts(o)
             PROVE  /\ s \in Published /\ o \in Covers[s]
                    /\ \A t \in Published :
                         o \in Covers[t] => RevisionOf[t] <= RevisionOf[s]
  BY DEF NewestAttemptsCount
<1>1. s \in Steps /\ RevisionOf[s] = 1 /\ o \in Covers[s]
  BY DEF Init, CurrentAttempts
<1>2. QED
  BY <1>1 DEF Init, Published

(* A committed result only changes the state of attempts that count.       *)
LEMMA FinishKeepsAttempts ==
  ASSUME TypeOK, NEW s \in Steps, NEW c \in Claims,
         NEW outcome \in Outcomes, NEW report \in Reports(s),
         Finish(s, c, outcome, report)
  PROVE  \A o \in Obligations : CurrentAttempts(o)' = CurrentAttempts(o)
<1> SUFFICES ASSUME NEW o \in Obligations
             PROVE  CurrentAttempts(o)' = CurrentAttempts(o)
  OBVIOUS
<1>1. attempt[o] \in [Steps -> AttemptStates \cup {"none"}]
  BY DEF TypeOK
<1>2. CASE ~ Counts(s, o)
  BY <1>2 DEF Finish, CurrentAttempts
<1>3. CASE Counts(s, o)
  <2>1. AttemptState(s, o, outcome, report) # "none"
    BY <1>3, AttemptStateType DEF Counts, AttemptStates
  <2>2. attempt'[o] =
          [attempt[o] EXCEPT ![s] = AttemptState(s, o, outcome, report)]
    BY <1>3 DEF Finish
  <2>3. attempt[o][s] # "none"
    BY <1>3 DEF Counts, CurrentAttempts
  <2>4. \A t \in Steps : attempt'[o][t] = "none" <=> attempt[o][t] = "none"
    BY <1>1, <2>1, <2>2, <2>3
  <2>5. QED
    BY <2>4 DEF CurrentAttempts
<1>4. QED
  BY <1>2, <1>3

LEMMA NewestAmend ==
  ASSUME TypeOK, NewestAttemptsCount, NEW expected \in Nat, Amend(expected)
  PROVE  NewestAttemptsCount'
<1> DEFINE delta == {s \in Steps : RevisionOf[s] = expected + 1}
           covered == UNION {Covers[d] : d \in delta}
<1>1. revision = expected /\ revision' = expected + 1
  BY DEF Amend, Amendable
<1>2. Published' = Published \cup delta
  BY <1>1 DEF Published
<1> SUFFICES ASSUME NEW o \in Obligations, NEW s \in CurrentAttempts(o)'
             PROVE  /\ s \in Published' /\ o \in Covers[s]
                    /\ \A t \in Published' :
                         o \in Covers[t] => RevisionOf[t] <= RevisionOf[s]
  BY DEF NewestAttemptsCount
<1>3. CASE o \in covered
  <2>1. s \in delta /\ o \in Covers[s]
    BY <1>3 DEF Amend, CurrentAttempts
  <2>2. QED
    BY <1>1, <1>2, <2>1 DEF Published
<1>4. CASE o \notin covered
  <2>1. s \in CurrentAttempts(o)
    BY <1>4 DEF Amend, CurrentAttempts
  <2>2. \A t \in delta : o \notin Covers[t]
    BY <1>4
  <2>3. QED
    BY <1>2, <2>1, <2>2 DEF NewestAttemptsCount
<1>5. QED
  BY <1>3, <1>4

LEMMA NewestStep ==
  TypeOK /\ NewestAttemptsCount /\ [Next]_vars => NewestAttemptsCount'
<1> SUFFICES ASSUME TypeOK, NewestAttemptsCount, [Next]_vars
             PROVE  NewestAttemptsCount'
  OBVIOUS
<1>1. ASSUME Published' = Published,
             \A o \in Obligations : CurrentAttempts(o)' = CurrentAttempts(o)
      PROVE  NewestAttemptsCount'
  BY <1>1 DEF NewestAttemptsCount
<1>2. ASSUME revision' = revision, attempt' = attempt
      PROVE  NewestAttemptsCount'
  BY <1>1, <1>2 DEF Published, CurrentAttempts
<1>3. ASSUME NEW s \in Steps, NEW c \in Claims,
             NEW outcome \in Outcomes, NEW report \in Reports(s),
             Finish(s, c, outcome, report)
      PROVE  NewestAttemptsCount'
  BY <1>1, <1>3, FinishKeepsAttempts DEF Finish, Published
<1>4. ASSUME NEW expected \in {RevisionOf[s] : s \in Steps}, Amend(expected)
      PROVE  NewestAttemptsCount'
  BY <1>4, NewestAmend, ExpectedType
<1>5. ASSUME NEW s \in Steps, NEW c \in Claims,
             Claim(s, c) \/ Renew(s, c) \/ Continue(s, c)
      PROVE  NewestAttemptsCount'
  BY <1>2, <1>5 DEF Claim, Renew, Continue, projection
<1>6. ASSUME NEW s \in Steps, Recover(s) \/ Resume(s) \/ Block(s) \/ Requeue(s)
      PROVE  NewestAttemptsCount'
  BY <1>2, <1>6 DEF Recover, Resume, Block, Requeue, projection
<1>7. CASE Tick \/ Cancel \/ Settle \/ Close
  BY <1>2, <1>7 DEF Tick, Cancel, Settle, DecideSettlement, SaveSettlement, Close, projection
<1>8. CASE UNCHANGED vars
  BY <1>2, <1>8 DEF vars
<1>9. QED
  BY <1>3, <1>4, <1>5, <1>6, <1>7, <1>8 DEF Next

-----------------------------------------------------------------------------
(* The theorems                                                            *)

(* The claim lock is a fence: whoever holds it holds a step in progress    *)
(* under that very claim.                                                  *)
THEOREM LocksFence == Spec => []HolderIsRunning
<1>1. Inv => HolderIsRunning
  BY DEF Inv, WorkInvariant
<1>2. QED
  BY <1>1, InvHolds, PTL

(* Consequential steps on one system exclude each other, for every plan    *)
(* and whatever expires, resumes or is amended.                            *)
THEOREM WritersExclude == Spec => []OneWriterPerSystem
<1>1. Inv => OneWriterPerSystem
  BY DEF Inv, WorkInvariant
<1>2. QED
  BY <1>1, InvHolds, PTL

(* A cancellation is final.                                                *)
THEOREM CancellationFences == Spec => []CancelledIsFenced
<1>1. Inv => CancelledIsFenced
  BY DEF Inv
<1>2. QED
  BY <1>1, InvHolds, PTL

LEMMA CompletedStep ==
  ASSUME WorkInvariant, OrderlyCall, NEW s \in Steps, Status(s) = "completed", ~ IsFinal(s)
  PROVE  Status(s)' = "completed"
BY LifecycleStep DEF StatusStep, Claimable

(* No operation of the ledger, in any order, moves a completed domain step *)
(* again.                                                                  *)
THEOREM CompletedDomainStepsStay == Spec => CompletedStays
<1>1. Inv /\ [Next]_vars =>
        [\A s \in Steps : Status(s) = "completed" /\ ~ IsFinal(s)
                            => Status(s)' = "completed"]_vars
  BY CompletedStep, LedgerIsOrderly DEF Inv, WorkInvariant
<1>2. QED
  BY <1>1, InvHolds, PTL DEF Spec, CompletedStays

(* However late a result commits, an obligation is judged only by attempts *)
(* of the newest revision that covers it.                                  *)
THEOREM ReplacedAttemptsDoNotCount == Spec => []NewestAttemptsCount
BY TypeCorrect, NewestInit, NewestStep, PTL DEF Spec
-----------------------------------------------------------------------------
(* The refinement                                                          *)

(* A step of the ledger as a step of exclusive work, or as none.           *)
LEMMA EngagedStep ==
  ASSUME NEW s \in Steps, \A t \in Steps \ {s} : Status(t)' = Status(t)
  PROVE  Engaged' = IF Status(s)' \in {"in_progress", "waiting"}
                    THEN Engaged \cup {s} ELSE Engaged \ {s}
BY DEF Engaged

LEMMA EngagedSame ==
  ASSUME \A t \in Steps : Status(t)' = Status(t)
  PROVE  Engaged' = Engaged
BY DEF Engaged

LEMMA ClaimTakes ==
  ASSUME WorkInvariant, NEW s \in Steps, NEW c \in Claims, Claim(s, c)
  PROVE  Work!Take(s, c)
<1>1. /\ ~ cancelled /\ lock[s] = NoClaim /\ Status(s) = "pending"
      /\ ~ ConsequentialWriterActive(s)
  BY DEF Claim, Claimable
<1>2. s \notin Engaged
  BY <1>1 DEF Engaged
<1>3. \A q \in Engaged :
        <<s, q>> \notin {e \in Steps \X Steps : Conflict(e[1], e[2])}
  BY <1>1 DEF Engaged, ConsequentialWriterActive, WorkInvariant, EngagedArePublished
<1>4. /\ Status(s)' = "in_progress"
      /\ \A t \in Steps \ {s} : Status(t)' = Status(t)
  BY ClaimEffect DEF WorkInvariant, Status
<1>5. Engaged' = Engaged \cup {s}
  BY <1>4, EngagedStep
<1>6. QED
  BY <1>1, <1>2, <1>3, <1>5 DEF Work!Take, Claim

LEMMA FinishDelivers ==
  ASSUME WorkInvariant, NEW s \in Steps, NEW c \in Claims, NEW outcome \in Outcomes,
         NEW report \in Reports(s), Finish(s, c, outcome, report)
  PROVE  Work!Deliver(s)
<1>1. ~ cancelled /\ lock[s] = c /\ c # NoClaim
  BY ClaimAssumption DEF Finish, Holds
<1>2. s \in Engaged
  BY <1>1 DEF WorkInvariant, HolderIsRunning, Engaged
<1>3. \A t \in Steps \ {s} : Status(t)' = Status(t)
  BY FinishEffect DEF WorkInvariant, Status
<1>4. Engaged' = Engaged \/ Engaged' = Engaged \ {s}
  <2>1. Engaged \cup {s} = Engaged
    BY <1>2
  <2>2. QED
    BY <1>3, <2>1, EngagedStep
<1>5. QED
  BY <1>1, <1>4 DEF Work!Deliver, Finish, Unlock

LEMMA ContinueHandsBack ==
  ASSUME WorkInvariant, NEW s \in Steps, NEW c \in Claims, Continue(s, c)
  PROVE  Work!HandBack(s)
<1>1. ~ cancelled /\ lock[s] = c /\ c # NoClaim
  BY ClaimAssumption DEF Continue, Holds
<1>2. /\ Status(s)' = "pending"
      /\ \A t \in Steps \ {s} : Status(t)' = Status(t)
  BY ContinueEffect DEF WorkInvariant, Status
<1>3. Engaged' = Engaged \ {s}
  BY <1>2, EngagedStep
<1>4. QED
  BY <1>1, <1>3 DEF Work!HandBack, Continue, Unlock

LEMMA TickLapses ==
  ASSUME WorkInvariant, Tick
  PROVE  \/ \E lapsed \in SUBSET Steps : Work!Lapse(lapsed)
         \/ UNCHANGED Work!vars
<1>1. Engaged' = Engaged
  BY EngagedSame DEF Tick, Status
<1>2. CASE cancelled
  <2>1. lock' = lock
    BY <1>2 DEF Tick, WorkInvariant, CancelledStaysFenced, TypeOK
  <2>2. QED
    BY <1>1, <2>1 DEF Tick, Work!vars
<1>3. CASE ~ cancelled
  <2> DEFINE lapsed == {s \in Steps : ttl[s] <= 1}
  <2>1. lock' = [s \in Steps |-> IF s \in lapsed THEN NoClaim ELSE lock[s]]
    BY DEF Tick
  <2>2. Work!Lapse(lapsed)
    BY <1>1, <1>3, <2>1 DEF Work!Lapse, Tick
  <2>3. QED
    BY <2>2
<1>4. QED
  BY <1>2, <1>3

LEMMA RecoverFrees ==
  ASSUME WorkInvariant, NEW s \in Steps, Recover(s)
  PROVE  Work!Free({s})
<1>1. /\ Status(s)' = "pending"
      /\ \A t \in Steps \ {s} : Status(t)' = Status(t)
  BY RecoverEffect DEF WorkInvariant, Status
<1>2. Engaged' = Engaged \ {s}
  BY <1>1, EngagedStep
<1>3. QED
  BY <1>2 DEF Work!Free, Recover, Expired

LEMMA ResumeWithdraws ==
  ASSUME WorkInvariant, NEW s \in Steps, Resume(s)
  PROVE  Work!Withdraw(s, ComposedBefore(s))
<1>1. s \in Published /\ Status(s) = "waiting"
  BY DEF Resume
<1>2. ~ cancelled /\ lock[s] = NoClaim
  BY <1>1 DEF WorkInvariant, CancelledStaysFenced, HolderIsRunning
<1>3. \A t \in ComposedBefore(s) \cup {s} : Status(t)' = "pending"
  <2>1. ComposedBefore(s) \subseteq Steps
    BY DEF ComposedBefore, Downstream, Published
  <2>2. step'[s].status = "pending"
    BY ResumeEffect DEF WorkInvariant, Status
  <2>3. ASSUME NEW t \in ComposedBefore(s), t # s
        PROVE  step'[t].status = "pending"
    <3>1. step'[t] = [FreshRecord EXCEPT !.epochs = step[t].epochs,
                                         !.blockedBy = step[t].blockedBy]
      BY <2>1, <2>3 DEF Resume
    <3>2. QED
      BY <3>1 DEF FreshRecord
  <2>4. QED
    BY <2>2, <2>3 DEF Status
<1>4. \A t \in Steps \ (ComposedBefore(s) \cup {s}) : Status(t)' = Status(t)
  BY DEF Resume, Status
<1>5. Engaged' = Engaged \ (ComposedBefore(s) \cup {s})
  BY <1>3, <1>4 DEF Engaged
<1>6. QED
  BY <1>2, <1>5 DEF Work!Withdraw, Resume

LEMMA CancelCallsOff ==
  ASSUME WorkInvariant, Cancel
  PROVE  Work!CallOff
<1>1. \A t \in Steps : Status(t)' \notin {"in_progress", "waiting"}
  <2>1. ASSUME NEW t \in Unfinished PROVE Status(t)' = "cancelled"
    BY CancelEffect DEF WorkInvariant, Unfinished, Published
  <2>2. ASSUME NEW t \in Steps \ Unfinished
        PROVE  Status(t)' \notin {"in_progress", "waiting"}
    <3>1. Status(t)' = Status(t)
      BY CancelEffect DEF WorkInvariant, Status
    <3>2. Status(t) \notin {"in_progress", "waiting"}
      BY DEF Unfinished, WorkInvariant, EngagedArePublished
    <3>3. QED
      BY <3>1, <3>2
  <2>3. QED
    BY <2>1, <2>2
<1>2. Engaged' = {}
  BY <1>1 DEF Engaged
<1>3. QED
  BY <1>2 DEF Work!CallOff, Cancel

LEMMA AmendFrees ==
  ASSUME WorkInvariant, NEW expected \in Nat, Amend(expected)
  PROVE  \E freed \in SUBSET Steps : Work!Free(freed)
<1> DEFINE freed == {t \in Engaged : Status(t)' = "superseded"}
<1>1. /\ \A t \in Steps : \/ Status(t)' = Status(t)
                          \/ /\ Status(t)' = "superseded"
                             /\ Status(t) \in {"pending", "waiting", "blocked"}
  BY AmendEffect DEF WorkInvariant, Status
<1>2. Engaged' = Engaged \ freed
  BY <1>1 DEF Engaged
<1>3. \A t \in freed : lock[t] = NoClaim
  BY <1>1 DEF Engaged, WorkInvariant, HolderIsRunning
<1>4. freed \in SUBSET Steps
  BY DEF Engaged
<1>5. Work!Free(freed)
  BY <1>2, <1>3 DEF Work!Free, Amend, Amendable
<1>6. QED
  BY <1>4, <1>5

(* The other calls change nothing of the work.                             *)
LEMMA OtherCallsStutter ==
  ASSUME WorkInvariant,
         \/ \E s \in Steps, c \in Claims : Renew(s, c)
         \/ \E s \in Steps : TimelyWrite(s)
         \/ Settle \/ IndexCall \/ UNCHANGED vars
  PROVE  UNCHANGED Work!vars
<1>1. UNCHANGED <<lock, output, cancelled>>
  BY DEF Renew, TimelyWrite, StaleWrite, Settle, DecideSettlement, SaveSettlement, IndexCall, vars
<1>2. Engaged' = Engaged
  <2>1. ASSUME NEW s \in Steps, TimelyWrite(s) PROVE Engaged' = Engaged
    <3>1. /\ Status(s) \in {"pending", "blocked"} /\ Status(s)' \in {"pending", "blocked"}
          /\ \A t \in Steps \ {s} : Status(t)' = Status(t)
      BY <2>1, TimelyEffect DEF WorkInvariant, Status
    <3>2. QED
      BY <3>1 DEF Engaged
  <2>2. CASE \/ \E s \in Steps, c \in Claims : Renew(s, c)
             \/ Settle \/ IndexCall \/ UNCHANGED vars
    <3>1. step' = step
      BY <2>2 DEF Renew, Settle, DecideSettlement, SaveSettlement, IndexCall, vars
    <3>2. QED
      BY <3>1, EngagedSame DEF Status
  <2>3. QED
    BY <2>1, <2>2
<1>3. QED
  BY <1>1, <1>2 DEF Work!vars

LEMMA StepOfWork ==
  ASSUME WorkInvariant, OrderlyCall
  PROVE  [Work!Next]_(Work!vars)
<1>1. ASSUME NEW s \in Steps, NEW c \in Claims, Claim(s, c)
      PROVE  Work!Next
  BY <1>1, ClaimTakes DEF Work!Next
<1>2. ASSUME NEW s \in Steps, NEW c \in Claims, Continue(s, c)
      PROVE  Work!Next
  BY <1>2, ContinueHandsBack DEF Work!Next
<1>3. ASSUME NEW s \in Steps, NEW c \in Claims, NEW outcome \in Outcomes,
             NEW report \in Reports(s), Finish(s, c, outcome, report)
      PROVE  Work!Next
  BY <1>3, FinishDelivers DEF Work!Next
<1>4. ASSUME NEW s \in Steps, Recover(s)
      PROVE  Work!Next
  <2>1. {s} \in SUBSET Steps
    OBVIOUS
  <2>2. QED
    BY <1>4, <2>1, RecoverFrees DEF Work!Next
<1>5. ASSUME NEW s \in Steps, Resume(s)
      PROVE  Work!Next
  <2>1. ComposedBefore(s) \in SUBSET {t \in Steps : IsFinal(t)}
    BY DEF ComposedBefore, Downstream, Published
  <2>2. QED
    BY <1>5, <2>1, ResumeWithdraws DEF Work!Next
<1>6. CASE Tick
  BY <1>6, TickLapses DEF Work!Next
<1>7. CASE Cancel
  BY <1>7, CancelCallsOff DEF Work!Next
<1>8. ASSUME NEW expected \in Nat, Amend(expected)
      PROVE  Work!Next
  BY <1>8, AmendFrees DEF Work!Next
<1>9. CASE \/ \E s \in Steps, c \in Claims : Renew(s, c)
           \/ \E s \in Steps : TimelyWrite(s)
           \/ Settle \/ IndexCall \/ UNCHANGED vars
  BY <1>9, OtherCallsStutter
<1>10. QED
  BY <1>1, <1>2, <1>3, <1>4, <1>5, <1>6, <1>7, <1>8, <1>9
     DEF OrderlyCall, WorkflowCall, StepCall

LEMMA WorkInit == Init => Work!Init
<1>1. Init => Engaged = {}
  BY DEF Init, Engaged, Status, FreshRecord
<1>2. QED
  BY <1>1 DEF Init, Work!Init

(* The ledger implements exclusive work, for every plan, however leases    *)
(* run out, steps resume and plans are amended.                            *)
THEOREM LedgerIsExclusive == Spec => WorkIsExclusive
<1>1. Inv /\ [Next]_vars => [Work!Next]_(Work!vars)
  BY LedgerIsOrderly, StepOfWork DEF Inv, WorkInvariant
<1>2. QED
  BY <1>1, WorkInit, InvHolds, PTL DEF Spec, WorkIsExclusive, Work!Spec
-----------------------------------------------------------------------------
(* The nodes at work: StepWorkers                                          *)

USE WorkerAssumption

(* A node writes back a record of s that it read before.                   *)
WritesBack(s) ==
  \/ \E a \in Agents : VisitRewrite(a, s) \/ VisitOverwrite(a, s)
  \/ \E c \in Claims : ReleaseRewrite(c, s)

CallOfStep(s) ==
  \/ Recover(s) \/ Resume(s)
  \/ StaleWrite(s) /\ WritesBack(s)
  \/ \E c \in Claims :
       \/ Claim(s, c) /\ job[c].at \in {"idle", "start"}
       \/ Renew(s, c) \/ Continue(s, c)
       \/ \E outcome \in Outcomes, report \in Reports(s) :
            Finish(s, c, outcome, report)

StoreCall ==
  \/ \E s \in Steps : CallOfStep(s)
  \/ \E expected \in Nat : Amend(expected)
  \/ Tick \/ Cancel \/ Settle \/ IndexCall

(* The records a dispatcher and an executor keep.                          *)
LEMMA VisitRecords ==
  /\ NoVisit \in Visits
  /\ \A phase \in VisitPhases, s \in Steps :
       [NoVisit EXCEPT !.at = phase, !.step = {s}] \in Visits
  /\ \A v \in Visits, r \in StepRecord, phase \in VisitPhases :
       [v EXCEPT !.at = phase, !.seen = r] \in Visits
  /\ \A v \in Visits, blockers \in SUBSET Steps, phase \in VisitPhases :
       [v EXCEPT !.at = phase, !.blockers = blockers] \in Visits
  /\ \A v \in Visits, phase \in VisitPhases : [v EXCEPT !.at = phase] \in Visits
  /\ [NoVisit EXCEPT !.at = "gone"] \in Visits
BY FreshRecordType DEF NoVisit, Visits, VisitPhases

LEMMA JobRecords ==
  /\ NoJob \in Jobs
  /\ \A j \in Jobs, s \in Steps : [j EXCEPT !.at = "start", !.step = {s}] \in Jobs
  /\ \A j \in Jobs, paused \in SUBSET Steps :
       [j EXCEPT !.at = "work", !.paused = paused] \in Jobs
  /\ \A todo \in SUBSET Steps : [NoJob EXCEPT !.at = "release", !.todo = todo] \in Jobs
  /\ \A j \in Jobs, todo \in SUBSET Steps : [j EXCEPT !.todo = todo] \in Jobs
  /\ \A j \in Jobs, t \in Steps, r \in StepRecord, todo \in SUBSET Steps :
       [j EXCEPT !.at = "depend", !.step = {t}, !.seen = r, !.todo = todo] \in Jobs
  /\ \A j \in Jobs : [j EXCEPT !.at = "rewrite"] \in Jobs
BY FreshRecordType DEF NoJob, Jobs, JobPhases

(* Each phase of a visit calls the store at most once.                     *)
LEMMA VisitCalls ==
  ASSUME WorkersTypeOK, NEW a \in Agents, NEW s \in Steps, Look(a, s) \/ VisitGoesOn(a, s)
  PROVE  /\ \E v \in Visits : visit' = [visit EXCEPT ![a] = v]
         /\ \/ job' = job
            \/ \E c \in Claims, j \in Jobs : job' = [job EXCEPT ![c] = j]
         /\ UNCHANGED <<waiter, planner>>
         /\ CallOfStep(s) \/ UNCHANGED vars
<1> USE VisitRecords, JobRecords DEF WorkersTypeOK
<1>1. visit[a] \in Visits /\ step[s] \in StepRecord
  BY DEF TypeOK
<1>2. CASE Look(a, s)
  BY <1>1, <1>2 DEF Look, Goto, VisitPhases
<1>3. CASE VisitRecover(a, s)
  BY <1>1, <1>3 DEF VisitRecover, Goto, Leave, VisitPhases, CallOfStep
<1>4. CASE VisitRequeue(a, s)
  BY <1>1, <1>4 DEF VisitRequeue, Goto, VisitPhases
<1>4a. CASE VisitDepend(a, s)
  BY <1>1, <1>4a DEF VisitDepend, Proceed, Goto, VisitPhases
<1>5. CASE VisitRewrite(a, s)
  <2>1. [visit[a].seen EXCEPT !.status = "pending", !.blockedBy = {}] \in StepRecord
    BY <1>1, BlockUpdate DEF Visits, Statuses
  <2>2. [visit[a].seen EXCEPT !.status = "pending", !.blockedBy = {}].status = "pending"
    BY <1>1 DEF Visits, StepRecord
  <2>3. StaleWrite(s)
    BY <1>5, <2>1, <2>2 DEF VisitRewrite, WriteRequeued, StaleWrite
  <2>4. QED
    BY <1>5, <2>3 DEF VisitRewrite, Goto, VisitPhases, CallOfStep, WritesBack
<1>6. CASE VisitReread(a, s)
  BY <1>1, <1>6 DEF VisitReread, Goto, Leave, VisitPhases
<1>7. CASE VisitCheck(a, s)
  <2>1. DependencyBlockers(s) \in SUBSET Steps
    BY DEF DependencyBlockers
  <2>2. QED
    BY <1>1, <1>7, <2>1 DEF VisitCheck, Goto, Leave, VisitPhases
<1>8. CASE VisitBlock(a, s)
  BY <1>1, <1>8 DEF VisitBlock, VisitPhases
<1>9. CASE VisitOverwrite(a, s)
  <2>1. [visit[a].seen EXCEPT !.status = "blocked", !.blockedBy = visit[a].blockers]
          \in StepRecord
    BY <1>1, BlockUpdate DEF Visits, Statuses
  <2>2. [visit[a].seen EXCEPT !.status = "blocked",
                              !.blockedBy = visit[a].blockers].status = "blocked"
    BY <1>1 DEF Visits, StepRecord
  <2>3. StaleWrite(s)
    BY <1>9, <2>1, <2>2 DEF VisitOverwrite, StaleWrite
  <2>4. QED
    BY <1>9, <2>3 DEF VisitOverwrite, Leave, CallOfStep, WritesBack
<1>10. CASE VisitClaim(a, s)
  <2>0. NoJob.at = "idle"
    BY DEF NoJob
  <2>1. \/ job' = job /\ UNCHANGED vars
        \/ \E c \in Claims :
             /\ Claim(s, c) /\ job[c].at = "idle"
             /\ job' = [job EXCEPT ![c] = [job[c] EXCEPT !.at = "start", !.step = {s}]]
    BY <1>10, <2>0 DEF VisitClaim
  <2>2. QED
    BY <1>10, <2>1 DEF VisitClaim, Leave, CallOfStep
<1>11. QED
  BY <1>2, <1>3, <1>4, <1>4a, <1>5, <1>6, <1>7, <1>8, <1>9, <1>10 DEF VisitGoesOn

LEMMA ExecutorCalls ==
  ASSUME WorkersTypeOK, NEW c \in Claims, ExecutorNext(c)
  PROVE  /\ job' = job \/ \E j \in Jobs : job' = [job EXCEPT ![c] = j]
         /\ UNCHANGED <<visit, waiter, planner>>
         /\ UNCHANGED vars \/ \E s \in Steps : CallOfStep(s)
<1> USE JobRecords DEF WorkersTypeOK
<1>0. job[c] \in Jobs
  OBVIOUS
<1>1. CASE ReleaseRead(c)
  <2>1. job[c].todo \in SUBSET Steps
    BY <1>0 DEF Jobs
  <2>2. ASSUME NEW t \in job[c].todo PROVE step[t] \in StepRecord /\ t \in Steps
    BY <2>1, <2>2 DEF TypeOK
  <2>3. \E j \in Jobs : job' = [job EXCEPT ![c] = j]
    <3>1. CASE job' = [job EXCEPT ![c] = NoJob]
      BY <3>1
    <3>2. ASSUME NEW t \in job[c].todo,
                 job' = [job EXCEPT ![c] =
                   IF Blocked(step[t])
                   THEN [job[c] EXCEPT !.at = "depend", !.step = {t}, !.seen = step[t],
                                       !.todo = job[c].todo \ {t}]
                   ELSE [job[c] EXCEPT !.todo = job[c].todo \ {t}]]
          PROVE  \E j \in Jobs : job' = [job EXCEPT ![c] = j]
      <4>1. job[c].todo \ {t} \in SUBSET Steps
        BY <2>1
      <4>2. QED
        BY <1>0, <2>2, <3>2, <4>1
    <3>3. QED
      BY <1>1, <3>1, <3>2 DEF ReleaseRead, EndJob
  <2>4. QED
    BY <1>1, <2>3 DEF ReleaseRead
<1>2. ASSUME NEW s \in Steps, Start(c, s)
      PROVE  /\ job' = job \/ \E j \in Jobs : job' = [job EXCEPT ![c] = j]
             /\ UNCHANGED <<visit, waiter, planner>>
             /\ UNCHANGED vars \/ CallOfStep(s)
  <2>1. Evidence(s) \in SUBSET Steps
    BY DEF Evidence, Published
  <2>2. QED
    BY <1>0, <1>2, <2>1 DEF Start, JobAt, EndJob, CallOfStep
<1>3. ASSUME NEW s \in Steps, Heartbeat(c, s)
      PROVE  /\ job' = job \/ \E j \in Jobs : job' = [job EXCEPT ![c] = j]
             /\ UNCHANGED <<visit, waiter, planner>>
             /\ UNCHANGED vars \/ CallOfStep(s)
  BY <1>3 DEF Heartbeat, EndJob, CallOfStep
<1>4. ASSUME NEW s \in Steps, WorkEnds(c, s)
      PROVE  /\ job' = job \/ \E j \in Jobs : job' = [job EXCEPT ![c] = j]
             /\ UNCHANGED <<visit, waiter, planner>>
             /\ UNCHANGED vars \/ CallOfStep(s)
  <2>1. {t \in Published : s \in DependsOn[t]} \in SUBSET Steps
    BY DEF Published
  <2>2. CASE Exhaust(c, s)
    BY <2>2 DEF Exhaust, EndJob, CallOfStep, Outcomes
  <2>3. ASSUME NEW outcome \in Outcomes, NEW report \in Reports(s),
               Commit(c, s, outcome, report)
        PROVE  /\ job' = job \/ \E j \in Jobs : job' = [job EXCEPT ![c] = j]
               /\ UNCHANGED <<visit, waiter, planner>>
               /\ UNCHANGED vars \/ CallOfStep(s)
    BY <2>1, <2>3 DEF Commit, EndJob, CallOfStep
  <2>4. QED
    BY <1>4, <2>2, <2>3 DEF WorkEnds
<1>4a. ASSUME NEW t \in Steps, ReleaseDepend(c, t)
       PROVE  /\ \E j \in Jobs : job' = [job EXCEPT ![c] = j]
              /\ UNCHANGED <<vars, visit, waiter, planner>>
  <2>1. job[c].todo \in SUBSET Steps
    BY <1>0 DEF Jobs
  <2>2. QED
    BY <1>0, <1>4a, <2>1 DEF ReleaseDepend, NextDependent
<1>5. ASSUME NEW t \in Steps, ReleaseRewrite(c, t)
      PROVE  /\ job' = job \/ \E j \in Jobs : job' = [job EXCEPT ![c] = j]
             /\ UNCHANGED <<visit, waiter, planner>>
             /\ UNCHANGED vars \/ CallOfStep(t)
  <2>1. [job[c].seen EXCEPT !.status = "pending", !.blockedBy = {}] \in StepRecord
    BY <1>0, BlockUpdate DEF Jobs, Statuses
  <2>2. [job[c].seen EXCEPT !.status = "pending", !.blockedBy = {}].status = "pending"
    BY <1>0 DEF Jobs, StepRecord
  <2>3. StaleWrite(t)
    BY <1>5, <2>1, <2>2 DEF ReleaseRewrite, WriteRequeued, StaleWrite
  <2>4. job[c].todo \in SUBSET Steps
    BY <1>0 DEF Jobs
  <2>5. QED
    BY <1>5, <2>3, <2>4 DEF ReleaseRewrite, NextDependent, CallOfStep, WritesBack
<1>6. QED
  BY <1>1, <1>2, <1>3, <1>4, <1>4a, <1>5 DEF ExecutorNext, Releases, ReleaseRead

LEMMA WorkersCall ==
  ASSUME WorkersTypeOK, [WorkersNext]_allVars
  PROVE  UNCHANGED vars \/ StoreCall
<1> USE DEF WorkersTypeOK
<1>1. ASSUME NEW a \in Agents, DispatcherNext(a) PROVE UNCHANGED vars \/ StoreCall
  BY <1>1, VisitCalls DEF DispatcherNext, Crash, StoreCall
<1>2. ASSUME NEW c \in Claims, ExecutorNext(c) PROVE UNCHANGED vars \/ StoreCall
  BY <1>2, ExecutorCalls DEF StoreCall
<1>3. CASE Publish
  BY <1>3 DEF Publish, StoreCall
<1>4. CASE Unregister \/ Reopen \/ Sweep
  BY <1>4 DEF Unregister, Reopen, Sweep, StoreCall, IndexCall
<1>5. CASE \/ \E s \in Steps : Ledger(Resume(s))
           \/ Ledger(Tick) \/ Ledger(Cancel) \/ Ledger(Settle)
  BY <1>5 DEF Ledger, StoreCall, CallOfStep
<1>6. CASE Watch \/ Plan \/ UNCHANGED allVars
  BY <1>6 DEF Watch, Plan, allVars
<1>7. QED
  BY <1>1, <1>2, <1>3, <1>4, <1>5, <1>6 DEF WorkersNext

LEMMA StoreIsAny == StoreCall \/ UNCHANGED vars => AnyCall
BY DEF StoreCall, CallOfStep, AnyCall, WorkflowCall, StepCall

LEMMA WorkersTypeStep == WorkersTypeOK /\ [WorkersNext]_allVars => WorkersTypeOK'
<1> SUFFICES ASSUME WorkersTypeOK, [WorkersNext]_allVars PROVE WorkersTypeOK'
  OBVIOUS
<1>1. TypeOK'
  BY WorkersCall, StoreIsAny, AnyCallType DEF WorkersTypeOK
<1> DEFINE own == /\ visit' \in [Agents -> Visits] /\ job' \in [Claims -> Jobs]
                  /\ waiter' \in {"watching", "closing"} /\ planner' \in Nat
<1>2. ASSUME NEW a \in Agents, NEW s \in Steps, Look(a, s) \/ VisitGoesOn(a, s) PROVE own
  BY <1>2, VisitCalls DEF WorkersTypeOK
<1>3. ASSUME NEW a \in Agents, Crash(a) PROVE own
  <2>1. NoVisit \in Visits /\ [NoVisit EXCEPT !.at = "gone"] \in Visits /\ NoJob \in Jobs
    BY VisitRecords, JobRecords
  <2>2. visit' \in [Agents -> Visits] /\ job' \in [Claims -> Jobs]
    BY <1>3, <2>1 DEF Crash, WorkersTypeOK
  <2>3. QED
    BY <1>3, <2>2 DEF Crash, WorkersTypeOK
<1>4. ASSUME NEW c \in Claims, ExecutorNext(c) PROVE own
  BY <1>4, ExecutorCalls DEF WorkersTypeOK
<1>5. ASSUME Watch \/ Unregister \/ Plan \/ Publish PROVE own
  BY <1>5 DEF Watch, Unregister, Plan, Publish, WorkersTypeOK, TypeOK
<1>6. ASSUME \/ Reopen \/ Sweep \/ \E s \in Steps : Ledger(Resume(s))
             \/ Ledger(Tick) \/ Ledger(Cancel) \/ Ledger(Settle) \/ UNCHANGED allVars
      PROVE  own
  <2>1. UNCHANGED workers
    BY <1>6 DEF Reopen, Sweep, Ledger, allVars
  <2>2. QED
    BY <2>1 DEF workers, WorkersTypeOK
<1> HIDE DEF own
<1>7. own
  BY <1>2, <1>3, <1>4, <1>5, <1>6 DEF WorkersNext, DispatcherNext
<1> USE DEF own
<1>8. QED
  BY <1>1, <1>7 DEF WorkersTypeOK

LEMMA WorkersInitType == WorkersInit => WorkersTypeOK
<1> SUFFICES ASSUME WorkersInit PROVE WorkersTypeOK
  OBVIOUS
<1>1. TypeOK
  BY InitType DEF WorkersInit
<1>2. NoVisit \in Visits /\ NoJob \in Jobs
  BY VisitRecords, JobRecords
<1>3. visit \in [Agents -> Visits] /\ job \in [Claims -> Jobs]
  BY <1>2 DEF WorkersInit
<1>4. QED
  BY <1>1, <1>3 DEF WorkersInit, WorkersTypeOK

(* The records of the store keep their types under writes that put back    *)
(* what was read at another time, and so do those the nodes keep.          *)
THEOREM WorkersTypeCorrect == WorkersSpec => []WorkersTypeOK
BY WorkersInitType, WorkersTypeStep, PTL DEF WorkersSpec

FencedInvariant == WorkersTypeOK /\ CancelledStaysFenced /\ EngagedArePublished

LEMMA FencedStep == FencedInvariant /\ [WorkersNext]_allVars => FencedInvariant'
<1>1. FencedInvariant /\ [WorkersNext]_allVars => TypeOK /\ AnyCall
  BY WorkersCall, StoreIsAny DEF FencedInvariant, WorkersTypeOK
<1>2. QED
  BY <1>1, WorkersTypeStep, FencedByCalls DEF FencedInvariant

(* Whatever record a node read before a cancellation and writes back after *)
(* it, and however late a resume, a recovery or a replan comes, no step of *)
(* a cancelled workflow has a lock, runs or waits again.                   *)
THEOREM CancelledWorkStaysFenced == WorkersSpec => []CancelledStaysFenced
<1>1. WorkersInit => FencedInvariant
  <2>1. WorkersInit => WorkersTypeOK
    BY WorkersInitType
  <2>2. WorkersInit => CancelledStaysFenced /\ EngagedArePublished
    BY DEF WorkersInit, Init, CancelledStaysFenced, EngagedArePublished, Status, FreshRecord
  <2>3. QED
    BY <2>1, <2>2 DEF FencedInvariant
<1>2. FencedInvariant => CancelledStaysFenced
  BY DEF FencedInvariant
<1>3. QED
  BY <1>1, <1>2, FencedStep, PTL DEF WorkersSpec

-----------------------------------------------------------------------------
(* Nodes that write back in time                                           *)

(* What a node writes back finds the step pending or blocked still, or     *)
(* changes nothing: nobody took up, ended or replaced it since the node    *)
(* read it.  Nothing in block_step and requeue_blocked_step ensures it.    *)
Timely ==
  \A s \in Steps :
    WritesBack(s) => Status(s) \in {"pending", "blocked"} \/ UNCHANGED step

WritesAreTimely == [][Timely]_allVars

LEMMA NodesInOrder ==
  ASSUME WorkersTypeOK, [WorkersNext]_allVars, [Timely]_allVars
  PROVE  OrderlyCall
<1>1. CASE UNCHANGED vars
  BY <1>1 DEF OrderlyCall, WorkflowCall
<1>2. ASSUME NEW s \in Steps, CallOfStep(s) PROVE OrderlyCall
  <2>1. CASE StaleWrite(s) /\ WritesBack(s)
    <3>1. CASE Status(s) \in {"pending", "blocked"}
      BY <2>1, <3>1 DEF TimelyWrite, OrderlyCall
    <3>2. CASE UNCHANGED step
      <4>1. UNCHANGED vars
        BY <2>1, <3>2 DEF StaleWrite, projection, vars
      <4>2. QED
        BY <1>1, <4>1
    <3>3. CASE UNCHANGED allVars
      BY <1>1, <3>3 DEF allVars
    <3>4. QED
      BY <2>1, <3>1, <3>2, <3>3 DEF Timely
  <2>2. CASE ~ (StaleWrite(s) /\ WritesBack(s))
    BY <1>2, <2>2 DEF CallOfStep, StepCall, OrderlyCall
  <2>3. QED
    BY <2>1, <2>2
<1>3. QED
  BY <1>1, <1>2, WorkersCall DEF StoreCall, OrderlyCall, WorkflowCall

NodesInvariant == WorkersTypeOK /\ WorkInvariant

LEMMA NodesInvariantStep ==
  NodesInvariant /\ [WorkersNext]_allVars /\ [Timely]_allVars => NodesInvariant'
BY WorkersTypeStep, NodesInOrder, WorkInvariantStep DEF NodesInvariant

LEMMA NodesInvariantHolds == WorkersSpec /\ WritesAreTimely => []NodesInvariant
<1>1. WorkersInit => NodesInvariant
  BY WorkersInitType, WorkInvariantInit DEF WorkersInit, NodesInvariant
<1>2. QED
  BY <1>1, NodesInvariantStep, PTL DEF WorkersSpec, WritesAreTimely

(* While Redis holds the lock of a claim, its step is in progress under    *)
(* that very claim, and no two consequential steps of a system run or wait *)
(* for a person at once, however the visits, executors, heartbeats and     *)
(* deaths of any number of nodes interleave with people and replans, as    *)
(* long as no record comes back late.                                      *)
THEOREM NodesLocksFence == WorkersSpec /\ WritesAreTimely => []HolderIsRunning
<1>1. NodesInvariant => HolderIsRunning
  BY DEF NodesInvariant, WorkInvariant
<1>2. QED
  BY <1>1, NodesInvariantHolds, PTL

THEOREM NodesWritersExclude == WorkersSpec /\ WritesAreTimely => []OneWriterPerSystem
<1>1. NodesInvariant => OneWriterPerSystem
  BY DEF NodesInvariant, WorkInvariant
<1>2. QED
  BY <1>1, NodesInvariantHolds, PTL

(* Nor does a node, then, move a completed domain step.                    *)
THEOREM NodesKeepCompletedSteps == WorkersSpec /\ WritesAreTimely => CompletedStays
<1>1. NodesInvariant /\ [WorkersNext]_allVars /\ [Timely]_allVars =>
        [\A s \in Steps : Status(s) = "completed" /\ ~ IsFinal(s)
                            => Status(s)' = "completed"]_vars
  BY NodesInOrder, CompletedStep DEF NodesInvariant
<1>2. QED
  BY <1>1, NodesInvariantHolds, PTL DEF WorkersSpec, WritesAreTimely, CompletedStays

(* The nodes together implement exclusive work: each of their steps is one *)
(* step of it or none.                                                     *)
THEOREM NodesAreExclusive == WorkersSpec /\ WritesAreTimely => WorkIsExclusive
<1>1. NodesInvariant /\ [WorkersNext]_allVars /\ [Timely]_allVars
        => [Work!Next]_(Work!vars)
  BY NodesInOrder, StepOfWork DEF NodesInvariant
<1>2. WorkersInit => Work!Init
  BY WorkInit DEF WorkersInit
<1>3. QED
  BY <1>1, <1>2, NodesInvariantHolds, PTL
     DEF WorkersSpec, WritesAreTimely, WorkIsExclusive, Work!Spec

-----------------------------------------------------------------------------
(* Plans where every write comes in time                                   *)

(* Steps no dependency ever blocks: nobody writes them back.               *)
NeverBlocked(s) == ReadsEvidence(s) \/ DependsOn[s] = {}

Requeues == {"depend", "rewrite"}
Rewrites == Requeues \cup {"block", "overwrite"}

Unblockable ==
  /\ \A s \in Steps : NeverBlocked(s) => step[s].blockedBy = {}
  /\ \A a \in Agents, s \in Steps :
       visit[a].at \in Rewrites /\ visit[a].step = {s} => ~ NeverBlocked(s)
  /\ \A c \in Claims, s \in Steps :
       job[c].at \in Requeues /\ job[c].step = {s} => ~ NeverBlocked(s)

LEMMA FreeAreNotRewritten ==
  ASSUME Unblockable, NEW s \in Steps, WritesBack(s)
  PROVE  ~ NeverBlocked(s)
BY DEF Unblockable, WritesBack, Rewrites, Requeues, VisitRewrite, VisitOverwrite,
   VisitAt, ReleaseRewrite, JobAt

LEMMA BlockersStay ==
  ASSUME TypeOK, Unblockable, StoreCall \/ UNCHANGED vars, NEW t \in Steps, NeverBlocked(t)
  PROVE  step'[t].blockedBy = {}
<1>0. step[t] \in StepRecord /\ step[t].blockedBy = {} /\ DOMAIN step = Steps
  BY DEF TypeOK, Unblockable
<1>1. ASSUME NEW s \in Steps, CallOfStep(s) PROVE step'[t].blockedBy = {}
  <2>1. ASSUME NEW c \in Claims, Claim(s, c) PROVE step'[t].blockedBy = {}
    BY <1>0, <2>1 DEF Claim, StepRecord
  <2>2. ASSUME NEW c \in Claims, Renew(s, c) \/ Continue(s, c) PROVE step'[t].blockedBy = {}
    <3>1. CASE Renew(s, c)
      BY <1>0, <3>1 DEF Renew
    <3>2. CASE Continue(s, c) /\ t = s
      <4>1. step'[t] = [step[t] EXCEPT !.status = "pending", !.resumeAgent = AgentOf[c],
                                       !.epochs = step[t].epochs + 1]
        BY <1>0, <3>2 DEF Continue
      <4>2. QED
        BY <1>0, <4>1 DEF StepRecord
    <3>3. CASE Continue(s, c) /\ t # s
      BY <1>0, <3>3, ContinueEffect
    <3>4. QED
      BY <2>2, <3>1, <3>2, <3>3
  <2>3. ASSUME NEW c \in Claims, NEW outcome \in Outcomes, NEW report \in Reports(s),
               Finish(s, c, outcome, report)
        PROVE  step'[t].blockedBy = {}
    BY <1>0, <2>3 DEF Finish, StepRecord
  <2>4. CASE Recover(s)
    BY <1>0, <2>4 DEF Recover, StepRecord
  <2>5. CASE Resume(s)
    <3>1. step'[t] \in {[step[s] EXCEPT !.status = "pending",
                                        !.resumeAgent = step[s].completedBy,
                                        !.blockedBy = {}],
                        [FreshRecord EXCEPT !.epochs = step[t].epochs,
                                            !.blockedBy = step[t].blockedBy],
                        step[t]}
      BY <2>5 DEF Resume
    <3>2. step[s] \in StepRecord
      BY DEF TypeOK
    <3>3. QED
      BY <1>0, <3>1, <3>2 DEF StepRecord, FreshRecord
  <2>6. CASE StaleWrite(s) /\ WritesBack(s)
    <3>1. s # t
      BY <2>6, FreeAreNotRewritten
    <3>2. QED
      BY <1>0, <2>6, <3>1 DEF StaleWrite
  <2>7. QED
    BY <1>1, <2>1, <2>2, <2>3, <2>4, <2>5, <2>6 DEF CallOfStep
<1>2. ASSUME NEW expected \in Nat, Amend(expected) PROVE step'[t].blockedBy = {}
  <2>1. step'[t] \in {[step[t] EXCEPT !.status = "superseded"], step[t]}
    BY <1>2 DEF Amend
  <2>2. QED
    BY <1>0, <2>1 DEF StepRecord
<1>3. CASE Cancel
  <2>1. step'[t] \in {[step[t] EXCEPT !.status = "cancelled", !.resumeAgent = NoAgent],
                      step[t]}
    BY <1>3 DEF Cancel
  <2>2. QED
    BY <1>0, <2>1 DEF StepRecord
<1>4. CASE Tick \/ Settle \/ IndexCall \/ UNCHANGED vars
  BY <1>0, <1>4 DEF Tick, Settle, DecideSettlement, SaveSettlement, IndexCall, vars
<1>5. QED
  BY <1>1, <1>2, <1>3, <1>4 DEF StoreCall

(* A visit comes to write back only what it found blocked or what it is    *)
(* about to block.                                                         *)
LEMMA VisitRewrites ==
  ASSUME WorkersTypeOK, Unblockable, NEW a \in Agents, NEW s \in Steps,
         Look(a, s) \/ VisitGoesOn(a, s)
  PROVE  \/ visit'[a].at \notin Rewrites
         \/ visit'[a].step = {s} /\ ~ NeverBlocked(s)
<1>0. visit \in [Agents -> Visits] /\ visit[a] \in Visits
  BY DEF WorkersTypeOK
<1>1. ASSUME NEW phase \in VisitPhases \ Rewrites, Goto(a, phase, s)
      PROVE  visit'[a].at \notin Rewrites
  BY <1>0, <1>1 DEF Goto, NoVisit
<1>2. ASSUME Leave(a) PROVE visit'[a].at \notin Rewrites
  BY <1>0, <1>2 DEF Leave, NoVisit, Rewrites, Requeues
<1>3. {"recover", "requeue", "reread", "check", "claim"} \subseteq VisitPhases \ Rewrites
  BY DEF VisitPhases, Rewrites, Requeues
<1>4. CASE VisitRequeue(a, s)
  <2>1. CASE Blocked(step[s])
    <3>1. ~ NeverBlocked(s)
      BY <2>1 DEF Blocked, Unblockable
    <3>2. visit' = [visit EXCEPT ![a] = [visit[a] EXCEPT !.at = "depend", !.seen = step[s]]]
          /\ visit[a].step = {s}
      BY <1>4, <2>1 DEF VisitRequeue, VisitAt
    <3>3. QED
      BY <1>0, <3>1, <3>2 DEF Visits
  <2>2. CASE ~ Blocked(step[s])
    BY <1>1, <1>3, <1>4, <2>2 DEF VisitRequeue
  <2>3. QED
    BY <2>1, <2>2
<1>4a. CASE VisitDepend(a, s)
  <2>1. ~ NeverBlocked(s)
    BY <1>4a DEF VisitDepend, VisitAt, Unblockable, Rewrites, Requeues
  <2>2. CASE Proceed(a, "rewrite")
    <3>1. visit[a].step = {s} /\ visit' = [visit EXCEPT ![a] = [visit[a] EXCEPT !.at = "rewrite"]]
      BY <1>4a, <2>2 DEF VisitDepend, VisitAt, Proceed
    <3>2. QED
      BY <1>0, <2>1, <3>1 DEF Visits
  <2>3. QED
    BY <1>1, <1>3, <1>4a, <2>2 DEF VisitDepend
<1>5. CASE VisitCheck(a, s)
  <2>1. CASE DependencyBlockers(s) # {}
    <3>1. ~ NeverBlocked(s)
      BY <2>1 DEF DependencyBlockers, NeverBlocked
    <3>2. /\ visit' = [visit EXCEPT ![a] = [visit[a] EXCEPT
                          !.at = "block", !.blockers = DependencyBlockers(s)]]
          /\ visit[a].step = {s}
      BY <1>5, <2>1 DEF VisitCheck, VisitAt
    <3>3. QED
      BY <1>0, <3>1, <3>2 DEF Visits
  <2>2. CASE DependencyBlockers(s) = {}
    BY <1>1, <1>2, <1>3, <1>5, <2>2 DEF VisitCheck
  <2>3. QED
    BY <2>1, <2>2
<1>6. CASE VisitBlock(a, s)
  <2>1. ~ NeverBlocked(s)
    BY <1>6 DEF VisitBlock, VisitAt, Unblockable, Rewrites
  <2>2. visit' = [visit EXCEPT ![a] = [visit[a] EXCEPT !.at = "overwrite", !.seen = step[s]]]
        /\ visit[a].step = {s}
    BY <1>6 DEF VisitBlock, VisitAt
  <2>3. QED
    BY <1>0, <2>1, <2>2 DEF Visits
<1>7. CASE \/ Look(a, s) \/ VisitRecover(a, s) \/ VisitRewrite(a, s) \/ VisitReread(a, s)
           \/ VisitOverwrite(a, s) \/ VisitClaim(a, s)
  BY <1>1, <1>2, <1>3, <1>7
     DEF Look, VisitRecover, VisitRewrite, VisitReread, VisitOverwrite, VisitClaim
<1>8. QED
  BY <1>4, <1>4a, <1>5, <1>6, <1>7 DEF VisitGoesOn

(* A visit gives a job to a free claim only.                               *)
LEMMA VisitStarts ==
  ASSUME WorkersTypeOK, NEW a \in Agents, NEW s \in Steps, NEW c \in Claims,
         Look(a, s) \/ VisitGoesOn(a, s)
  PROVE  job'[c] = job[c] \/ job'[c].at = "start"
<1>1. CASE VisitClaim(a, s)
  <2>1. \/ job' = job
        \/ \E d \in Claims :
             job' = [job EXCEPT ![d] = [job[d] EXCEPT !.at = "start", !.step = {s}]]
    BY <1>1 DEF VisitClaim
  <2>2. job \in [Claims -> Jobs]
    BY DEF WorkersTypeOK
  <2>3. ASSUME NEW d \in Claims,
               job' = [job EXCEPT ![d] = [job[d] EXCEPT !.at = "start", !.step = {s}]]
        PROVE  job'[c] = job[c] \/ job'[c].at = "start"
    <3>1. CASE c = d
      <4>1. job'[c] = [job[c] EXCEPT !.at = "start", !.step = {s}] /\ job[c] \in Jobs
        BY <2>2, <2>3, <3>1
      <4>2. QED
        BY <4>1 DEF Jobs
    <3>2. CASE c # d
      BY <2>2, <2>3, <3>2
    <3>3. QED
      BY <3>1, <3>2
  <2>4. QED
    BY <2>1, <2>3
<1>2. CASE ~ VisitClaim(a, s)
  BY <1>2 DEF Look, VisitGoesOn, VisitRecover, VisitRequeue, VisitDepend, VisitRewrite,
     VisitReread, VisitCheck, VisitBlock, VisitOverwrite
<1>3. QED
  BY <1>1, <1>2

LEMMA EndedJob ==
  ASSUME WorkersTypeOK, NEW c \in Claims, EndJob(c)
  PROVE  job'[c].at = "idle"
BY DEF WorkersTypeOK, EndJob, NoJob

(* An executor writes back only dependents it found blocked.               *)
LEMMA JobRewrites ==
  ASSUME WorkersTypeOK, Unblockable, NEW c \in Claims, NEW s \in Steps,
         ExecutorNext(c), job'[c].at \in Requeues, job'[c].step = {s}
  PROVE  ~ NeverBlocked(s)
<1>0. job \in [Claims -> Jobs] /\ job[c] \in Jobs
      /\ job'[c].at \in {"depend", "rewrite"}
  BY DEF WorkersTypeOK, Requeues
<1>1. CASE ReleaseRead(c)
  <2>1. job'[c].at \in {"depend", "rewrite"} /\ job'[c].step = {s}
    BY <1>0
  <2>2. PICK t \in job[c].todo :
          job' = [job EXCEPT ![c] =
            IF Blocked(step[t])
            THEN [job[c] EXCEPT !.at = "depend", !.step = {t}, !.seen = step[t],
                                !.todo = job[c].todo \ {t}]
            ELSE [job[c] EXCEPT !.todo = job[c].todo \ {t}]]
    <3>1. ASSUME EndJob(c) PROVE FALSE
      BY <1>0, <2>1, <3>1, EndedJob
    <3>2. QED
      BY <1>1, <3>1 DEF ReleaseRead
  <2>3. job[c].at = "release"
    BY <1>1 DEF ReleaseRead
  <2>4. Blocked(step[t]) /\ t = s
    <3>1. CASE ~ Blocked(step[t])
      <4>1. job'[c].at = job[c].at
        BY <1>0, <2>2, <3>1 DEF Jobs
      <4>2. QED
        BY <2>1, <2>3, <4>1
    <3>2. CASE Blocked(step[t])
      <4>1. job'[c].step = {t}
        BY <1>0, <2>2, <3>2 DEF Jobs
      <4>2. QED
        BY <2>1, <3>2, <4>1
    <3>3. QED
      BY <3>1, <3>2
  <2>5. QED
    BY <2>4 DEF Blocked, Unblockable
<1>2. ASSUME NEW t \in Steps, Start(c, t) PROVE FALSE
  <2>1. ASSUME job' = [job EXCEPT ![c] = [job[c] EXCEPT !.at = "work", !.paused = Evidence(t)]]
        PROVE  FALSE
    BY <1>0, <2>1 DEF JobAt, Jobs
  <2>2. QED
    BY <1>0, <1>2, <2>1, EndedJob DEF Start, JobAt
<1>3. ASSUME NEW t \in Steps, Heartbeat(c, t) PROVE FALSE
  BY <1>0, <1>3 DEF Heartbeat, EndJob, NoJob, JobAt
<1>4. ASSUME NEW t \in Steps, WorkEnds(c, t) PROVE FALSE
  <2>1. ASSUME job' = [job EXCEPT ![c] = [NoJob EXCEPT !.at = "release",
                                          !.todo = {u \in Published : t \in DependsOn[u]}]]
        PROVE  FALSE
    BY <1>0, <2>1 DEF JobAt, NoJob
  <2>2. ~ EndJob(c)
    BY <1>0, EndedJob
  <2>3. QED
    BY <1>4, <2>1, <2>2 DEF WorkEnds, Exhaust, Commit
<1>5. ASSUME NEW t \in Steps, ReleaseRewrite(c, t) PROVE FALSE
  BY <1>0, <1>5 DEF ReleaseRewrite, NextDependent, NoJob
<1>6. ASSUME NEW t \in Steps, ReleaseDepend(c, t) PROVE ~ NeverBlocked(s)
  <2>1. job[c].step = {t} /\ ~ NeverBlocked(t)
    BY <1>6 DEF ReleaseDepend, JobAt, Unblockable, Requeues
  <2>2. CASE job' = [job EXCEPT ![c] = [job[c] EXCEPT !.at = "rewrite"]]
    <3>1. job'[c].step = {t}
      BY <1>0, <2>1, <2>2 DEF Jobs
    <3>2. QED
      BY <2>1, <3>1
  <2>3. CASE NextDependent(c)
    BY <1>0, <2>3 DEF NextDependent, NoJob
  <2>4. QED
    BY <1>6, <2>2, <2>3 DEF ReleaseDepend
<1>7. QED
  BY <1>1, <1>2, <1>3, <1>4, <1>5, <1>6 DEF ExecutorNext, Releases

LEMMA UnblockableStep ==
  ASSUME WorkersTypeOK, Unblockable, [WorkersNext]_allVars
  PROVE  Unblockable'
<1>1. TypeOK /\ (StoreCall \/ UNCHANGED vars)
  BY WorkersCall DEF WorkersTypeOK
<1>2. ASSUME NEW t \in Steps, NeverBlocked(t) PROVE step'[t].blockedBy = {}
  BY <1>1, <1>2, BlockersStay
<1>3. ASSUME NEW b \in Agents, NEW t \in Steps,
             visit'[b].at \in Rewrites, visit'[b].step = {t}
      PROVE  ~ NeverBlocked(t)
  <2>1. visit[b].at \in Rewrites /\ visit[b].step = {t} => ~ NeverBlocked(t)
    BY DEF Unblockable
  <2>2. ASSUME NEW a \in Agents, NEW s \in Steps, Look(a, s) \/ VisitGoesOn(a, s)
        PROVE  ~ NeverBlocked(t)
    <3>1. CASE a = b
      <4>1. \/ visit'[a].at \notin Rewrites
            \/ visit'[a].step = {s} /\ ~ NeverBlocked(s)
        BY <2>2, VisitRewrites
      <4>2. visit'[b].step = {s} /\ ~ NeverBlocked(s)
        BY <1>3, <3>1, <4>1
      <4>3. s = t
        BY <1>3, <4>2
      <4>4. QED
        BY <4>2, <4>3
    <3>2. CASE a # b
      <4>1. PICK v \in Visits : visit' = [visit EXCEPT ![a] = v]
        BY <2>2, VisitCalls
      <4>2. visit'[b] = visit[b]
        BY <3>2, <4>1 DEF WorkersTypeOK
      <4>3. QED
        BY <1>3, <2>1, <4>2
    <3>3. QED
      BY <3>1, <3>2
  <2>3. ASSUME NEW a \in Agents, Crash(a) PROVE ~ NeverBlocked(t)
    <3>1. NoVisit.at \notin Rewrites /\ [NoVisit EXCEPT !.at = "gone"].at \notin Rewrites
      BY DEF NoVisit, Rewrites, Requeues
    <3>2. visit \in [Agents -> Visits]
          /\ \/ visit' = [visit EXCEPT ![a] = NoVisit]
             \/ visit' = [visit EXCEPT ![a] = [NoVisit EXCEPT !.at = "gone"]]
      BY <2>3 DEF Crash, WorkersTypeOK
    <3>3. visit'[b] = visit[b]
      BY <1>3, <3>1, <3>2
    <3>4. QED
      BY <1>3, <2>1, <3>3
  <2>4. ASSUME NEW c \in Claims, ExecutorNext(c) PROVE visit' = visit
    BY <2>4, ExecutorCalls
  <2>5. ASSUME \/ Watch \/ Unregister \/ Reopen \/ Sweep \/ Plan \/ Publish
               \/ \E s \in Steps : Ledger(Resume(s))
               \/ Ledger(Tick) \/ Ledger(Cancel) \/ Ledger(Settle) \/ UNCHANGED allVars
        PROVE  visit' = visit
    BY <2>5 DEF Watch, Unregister, Reopen, Sweep, Plan, Publish, Ledger, allVars, workers
  <2>6. QED
    BY <1>3, <2>1, <2>2, <2>3, <2>4, <2>5 DEF WorkersNext, DispatcherNext
<1>4. ASSUME NEW c \in Claims, NEW t \in Steps,
             job'[c].at \in Requeues, job'[c].step = {t}
      PROVE  ~ NeverBlocked(t)
  <2>1. job[c].at \in Requeues /\ job[c].step = {t} => ~ NeverBlocked(t)
    BY DEF Unblockable
  <2>2. job'[c].at \in {"depend", "rewrite"} /\ job \in [Claims -> Jobs]
    BY <1>4 DEF Requeues, WorkersTypeOK
  <2>3. job'[c] = job[c] => ~ NeverBlocked(t)
    BY <1>4, <2>1
  <2>4. ASSUME NEW a \in Agents, NEW s \in Steps, Look(a, s) \/ VisitGoesOn(a, s)
        PROVE  job'[c] = job[c] \/ job'[c].at = "start"
    BY <2>2, <2>4, VisitStarts
  <2>5. ASSUME NEW a \in Agents, Crash(a) PROVE job'[c] = job[c] \/ job'[c].at = "idle"
    BY <2>5 DEF Crash, NoJob
  <2>6. ASSUME NEW e \in Claims, ExecutorNext(e) PROVE e = c \/ job'[c] = job[c]
    <3>1. job' = job \/ \E j \in Jobs : job' = [job EXCEPT ![e] = j]
      BY <2>6, ExecutorCalls
    <3>2. QED
      BY <2>2, <3>1
  <2>7. ASSUME \/ Watch \/ Unregister \/ Reopen \/ Sweep \/ Plan \/ Publish
               \/ \E s \in Steps : Ledger(Resume(s))
               \/ Ledger(Tick) \/ Ledger(Cancel) \/ Ledger(Settle) \/ UNCHANGED allVars
        PROVE  job'[c] = job[c]
    BY <2>7 DEF Watch, Unregister, Reopen, Sweep, Plan, Publish, Ledger, allVars, workers
  <2>8. CASE ExecutorNext(c)
    BY <1>4, <2>8, JobRewrites
  <2>9. CASE job'[c] = job[c]
    BY <2>3, <2>9
  <2>10. QED
    BY <2>2, <2>4, <2>5, <2>6, <2>7, <2>8, <2>9 DEF WorkersNext, DispatcherNext
<1>5. QED
  BY <1>2, <1>3, <1>4 DEF Unblockable

(* Where each step but responses depends on nothing or takes what evidence *)
(* there is, no record goes back late.  In other plans a node that read a  *)
(* step before it ran can write it back as blocked while it waits.         *)
NothingIsBlocked == \A s \in Steps : NeverBlocked(s)

THEOREM FreePlansAreTimely ==
  ASSUME NothingIsBlocked PROVE WorkersSpec => WritesAreTimely
<1> DEFINE unblockable == WorkersTypeOK /\ Unblockable
<1>1. WorkersInit => unblockable
  BY WorkersInitType DEF WorkersInit, Init, FreshRecord, NoVisit, NoJob, Unblockable,
     Rewrites, Requeues
<1>2. unblockable /\ [WorkersNext]_allVars => unblockable'
  BY WorkersTypeStep, UnblockableStep
<1>3. unblockable => [Timely]_allVars
  BY FreeAreNotRewritten DEF NothingIsBlocked, Timely
<1> HIDE DEF unblockable
<1>4. QED
  BY <1>1, <1>2, <1>3, PTL DEF WorkersSpec, WritesAreTimely

-----------------------------------------------------------------------------
(* What a response read                                                    *)

Calm == {"waiting", "cancelled", "superseded"}

(* While a response holds its claim, what it found waiting still is.       *)
PausesHold ==
  \A c \in Claims, r \in Steps : JobAt(c, "work", r) =>
    \A d \in job[c].paused :
      /\ IsFinal(r) /\ r \in Downstream(d) /\ d \in Published
      /\ lock[r] = c => Status(d) \in Calm

(* Work starts with Start, and while it goes on its job does not change.   *)
LEMMA WorkBegins ==
  ASSUME WorkersTypeOK, [WorkersNext]_allVars, NEW c \in Claims, NEW r \in Steps,
         JobAt(c, "work", r)'
  PROVE  Start(c, r) \/ job'[c] = job[c]
<1>0. job'[c].at = "work" /\ job'[c].step = {r} /\ job \in [Claims -> Jobs]
  BY DEF JobAt, WorkersTypeOK
<1>1. ASSUME NEW a \in Agents, NEW s \in Steps, Look(a, s) \/ VisitGoesOn(a, s)
      PROVE  job'[c] = job[c]
  BY <1>0, <1>1, VisitStarts
<1>2. ASSUME NEW a \in Agents, Crash(a) PROVE job'[c] = job[c]
  BY <1>0, <1>2 DEF Crash, NoJob
<1>3. ASSUME NEW e \in Claims, ExecutorNext(e), e # c PROVE job'[c] = job[c]
  <2>1. job' = job \/ \E j \in Jobs : job' = [job EXCEPT ![e] = j]
    BY <1>3, ExecutorCalls
  <2>2. QED
    BY <1>0, <1>3, <2>1
<1>4. ASSUME ExecutorNext(c) PROVE Start(c, r) \/ job'[c] = job[c]
  <2>0. ~ EndJob(c) /\ job[c] \in Jobs
    BY <1>0, EndedJob
  <2>1. ~ ReleaseRead(c)
    <3>1. ASSUME NEW t \in job[c].todo, job[c].at = "release",
                 job' = [job EXCEPT ![c] =
                   IF Blocked(step[t])
                   THEN [job[c] EXCEPT !.at = "depend", !.step = {t}, !.seen = step[t],
                                       !.todo = job[c].todo \ {t}]
                   ELSE [job[c] EXCEPT !.todo = job[c].todo \ {t}]]
          PROVE  FALSE
      <4>1. job'[c].at \in {"depend", "release"}
        BY <1>0, <2>0, <3>1 DEF Jobs
      <4>2. QED
        BY <1>0, <4>1
    <3>2. QED
      BY <2>0, <3>1 DEF ReleaseRead
  <2>2. ASSUME NEW s \in Steps, Start(c, s) PROVE Start(c, r)
    <3>1. job' = [job EXCEPT ![c] = [job[c] EXCEPT !.at = "work", !.paused = Evidence(s)]]
          /\ job[c].step = {s}
      BY <2>0, <2>2 DEF Start, JobAt
    <3>2. job'[c].step = {s}
      BY <1>0, <2>0, <3>1 DEF Jobs
    <3>3. QED
      BY <1>0, <2>2, <3>2
  <2>3. ASSUME NEW s \in Steps, Heartbeat(c, s) PROVE job'[c] = job[c]
    BY <2>0, <2>3 DEF Heartbeat
  <2>4. ASSUME NEW s \in Steps, WorkEnds(c, s) PROVE FALSE
    <3>1. ASSUME job' = [job EXCEPT ![c] = [NoJob EXCEPT !.at = "release",
                                            !.todo = {u \in Published : s \in DependsOn[u]}]]
          PROVE  FALSE
      BY <1>0, <3>1 DEF NoJob
    <3>2. QED
      BY <2>0, <2>4, <3>1 DEF WorkEnds, Exhaust, Commit
  <2>5. ASSUME NEW s \in Steps, ReleaseDepend(c, s) \/ ReleaseRewrite(c, s) PROVE FALSE
    <3>1. ASSUME NextDependent(c) PROVE FALSE
      <4>1. job' = [job EXCEPT ![c] = [NoJob EXCEPT !.at = "release", !.todo = job[c].todo]]
        BY <3>1 DEF NextDependent
      <4>2. job'[c].at = "release"
        BY <1>0, <4>1 DEF NoJob
      <4>3. QED
        BY <1>0, <4>2
    <3>2. job' # [job EXCEPT ![c] = [job[c] EXCEPT !.at = "rewrite"]]
      BY <1>0, <2>0 DEF Jobs
    <3>3. QED
      BY <2>5, <3>1, <3>2 DEF ReleaseDepend, ReleaseRewrite
  <2>6. QED
    BY <1>4, <2>1, <2>2, <2>3, <2>4, <2>5 DEF ExecutorNext, Releases
<1>5. ASSUME \/ Watch \/ Unregister \/ Reopen \/ Sweep \/ Plan \/ Publish
             \/ \E s \in Steps : Ledger(Resume(s))
             \/ Ledger(Tick) \/ Ledger(Cancel) \/ Ledger(Settle) \/ UNCHANGED allVars
      PROVE  job'[c] = job[c]
  BY <1>5 DEF Watch, Unregister, Reopen, Sweep, Plan, Publish, Ledger, allVars, workers
<1>6. QED
  BY <1>1, <1>2, <1>3, <1>4, <1>5 DEF WorkersNext, DispatcherNext

(* A claim at work is not taken for another step or a second time.         *)
LEMMA WorkKeepsItsLock ==
  ASSUME TypeOK, StoreCall \/ UNCHANGED vars, NEW c \in Claims, NEW r \in Steps,
         job[c].at = "work", lock'[r] = c
  PROVE  lock[r] = c
<1>0. c # NoClaim /\ lock \in [Steps -> Claims \cup {NoClaim}]
  BY DEF TypeOK
<1>1. ASSUME NEW s \in Steps, CallOfStep(s) PROVE lock[r] = c
  <2>1. ASSUME NEW e \in Claims, Claim(s, e), job[e].at \in {"idle", "start"}
        PROVE  lock[r] = c
    BY <1>0, <2>1 DEF Claim
  <2>2. ASSUME NEW e \in Claims, Renew(s, e) \/ Continue(s, e) PROVE lock[r] = c
    BY <1>0, <2>2 DEF Renew, Continue, Unlock
  <2>3. ASSUME NEW e \in Claims, NEW outcome \in Outcomes, NEW report \in Reports(s),
               Finish(s, e, outcome, report)
        PROVE  lock[r] = c
    BY <1>0, <2>3 DEF Finish, Unlock
  <2>4. CASE Recover(s) \/ Resume(s) \/ StaleWrite(s)
    BY <1>0, <2>4 DEF Recover, Resume, StaleWrite
  <2>5. QED
    BY <1>1, <2>1, <2>2, <2>3, <2>4 DEF CallOfStep
<1>2. CASE (\E expected \in Nat : Amend(expected)) \/ Settle \/ IndexCall \/ UNCHANGED vars
  BY <1>2 DEF Amend, Settle, DecideSettlement, SaveSettlement, IndexCall, vars
<1>3. CASE Tick \/ Cancel
  BY <1>0, <1>3 DEF Tick, Cancel
<1>4. QED
  BY <1>1, <1>2, <1>3 DEF StoreCall

(* A response starts with what waits then.                                 *)
LEMMA PausesFound ==
  ASSUME WorkersTypeOK, NEW c \in Claims, NEW r \in Steps, Start(c, r),
         JobAt(c, "work", r)', NEW d \in job'[c].paused
  PROVE  /\ IsFinal(r) /\ r \in Downstream(d)' /\ d \in Published' /\ d \in Steps
         /\ Status(d)' = "waiting"
<1>1. job[c] \in Jobs /\ job \in [Claims -> Jobs]
  BY DEF WorkersTypeOK
<1>2. /\ job' = [job EXCEPT ![c] = [job[c] EXCEPT !.at = "work", !.paused = Evidence(r)]]
      /\ (Status(r) = "pending" /\ Claim(r, c)) \/ UNCHANGED vars
  <2>1. ~ EndJob(c)
    BY EndedJob DEF JobAt
  <2>2. QED
    BY <2>1 DEF Start
<1>3. d \in Evidence(r)
  BY <1>1, <1>2 DEF Jobs
<1>4. d \in Published /\ IsFinal(r) /\ r \in Downstream(d) /\ Status(d) = "waiting"
  BY <1>3 DEF Evidence
<1>5. d \in Steps
  BY <1>4 DEF Published
<1>6. revision' = revision
  BY <1>2 DEF Claim, vars
<1>7. Status(d)' = Status(d)
  <2>1. CASE UNCHANGED vars
    BY <2>1 DEF vars, Status
  <2>2. CASE Status(r) = "pending" /\ Claim(r, c)
    <3>1. d # r
      BY <1>4, <2>2
    <3>2. QED
      BY <1>5, <2>2, <3>1, ClaimEffect DEF Status, WorkersTypeOK
  <2>3. QED
    BY <1>2, <2>1, <2>2
<1>8. QED
  BY <1>4, <1>5, <1>6, <1>7 DEF Published, Downstream

ResponseInvariant == NodesInvariant /\ PausesHold

LEMMA PausesStep ==
  ASSUME ResponseInvariant, [WorkersNext]_allVars, [Timely]_allVars
  PROVE  PausesHold'
<1> USE DEF ResponseInvariant, NodesInvariant
<1>1. TypeOK /\ (StoreCall \/ UNCHANGED vars) /\ OrderlyCall
  BY WorkersCall, NodesInOrder DEF WorkersTypeOK
<1>2. SUFFICES ASSUME NEW c \in Claims, NEW r \in Steps, JobAt(c, "work", r)',
                      NEW d \in job'[c].paused
               PROVE  /\ IsFinal(r) /\ r \in Downstream(d)' /\ d \in Published'
                      /\ lock'[r] = c => Status(d)' \in Calm
  BY DEF PausesHold
<1>3. CASE Start(c, r)
  <2>1. /\ IsFinal(r) /\ r \in Downstream(d)' /\ d \in Published'
        /\ Status(d)' = "waiting"
    BY <1>2, <1>3, PausesFound
  <2>2. QED
    BY <2>1 DEF Calm
<1>4. CASE job'[c] = job[c]
  <2>1. JobAt(c, "work", r) /\ d \in job[c].paused
    BY <1>2, <1>4 DEF JobAt
  <2>2. /\ IsFinal(r) /\ r \in Downstream(d) /\ d \in Published
        /\ lock[r] = c => Status(d) \in Calm
    BY <2>1 DEF PausesHold
  <2>3. Published \subseteq Published' /\ d \in Steps
    BY <1>1, <2>2, OrderlyIsAny, MovesOpen DEF Published
  <2>4. r \in Downstream(d)'
    BY <2>2, <2>3 DEF Downstream
  <2>5. ASSUME lock'[r] = c PROVE Status(d)' \in Calm
    <3>1. lock[r] = c /\ c # NoClaim
      BY <1>1, <2>1, <2>5, WorkKeepsItsLock DEF JobAt
    <3>2. Status(d) \in Calm /\ Status(r) = "in_progress"
      BY <2>2, <3>1 DEF WorkInvariant, HolderIsRunning
    <3>3. StatusStep(d)
      BY <1>1, <2>3, LifecycleStep
    <3>4. Status(d)' \in Calm \/ Resume(d)
      BY <3>2, <3>3 DEF StatusStep, Calm, Claimable
    <3>5. r \in ComposedBefore(d)
      BY <2>2, <3>2 DEF ComposedBefore
    <3>6. Resume(d) => lock'[r] = NoClaim
      BY <3>5 DEF Resume
    <3>7. QED
      BY <2>5, <3>1, <3>4, <3>6
  <2>6. QED
    BY <2>2, <2>3, <2>4, <2>5
<1>5. QED
  BY <1>2, <1>3, <1>4, WorkBegins

LEMMA ResponseInvariantHolds == WorkersSpec /\ WritesAreTimely => []ResponseInvariant
<1>1. WorkersInit => PausesHold
  BY DEF WorkersInit, NoJob, JobAt, PausesHold
<1>2. WorkersInit => ResponseInvariant
  BY <1>1, WorkersInitType, WorkInvariantInit
     DEF WorkersInit, NodesInvariant, ResponseInvariant
<1>3. ResponseInvariant /\ [WorkersNext]_allVars /\ [Timely]_allVars => ResponseInvariant'
  BY PausesStep, NodesInvariantStep DEF ResponseInvariant
<1>4. QED
  BY <1>2, <1>3, PTL DEF WorkersSpec, WritesAreTimely

(* A response that commits does not hide the answer to a pause it read.    *)
(* Where a record comes back late it can: a node that read the step before *)
(* it ran writes it back as blocked while it waits, and the resume that    *)
(* would take the response's claim does not find it waiting.               *)
THEOREM ResponsesAreCurrent == WorkersSpec /\ WritesAreTimely => ResponseIsCurrent
<1> DEFINE Current ==
      \A c \in Claims, r \in Steps :
        JobAt(c, "work", r) /\ output'[r] = c /\ lock[r] = c /\ lock'[r] = NoClaim
          => \A d \in job[c].paused : Status(d) \in {"waiting", "cancelled", "superseded"}
<1>1. ResponseInvariant => \A c \in Claims, r \in Steps :
        JobAt(c, "work", r) /\ lock[r] = c
          => \A d \in job[c].paused : Status(d) \in {"waiting", "cancelled", "superseded"}
  BY DEF ResponseInvariant, PausesHold, Calm
<1>2. ResponseInvariant => [Current]_allVars
  BY <1>1
<1>3. QED
  BY <1>2, ResponseInvariantHolds, PTL DEF ResponseIsCurrent

(* So in a plan nothing can block, and with nothing assumed of the nodes,  *)
(* all of this holds.                                                      *)
COROLLARY FreePlansAreSafe ==
  ASSUME NothingIsBlocked
  PROVE  WorkersSpec => /\ []HolderIsRunning /\ []OneWriterPerSystem
                        /\ CompletedStays /\ WorkIsExclusive /\ ResponseIsCurrent
BY FreePlansAreTimely, NodesLocksFence, NodesWritersExclude, NodesKeepCompletedSteps,
   NodesAreExclusive, ResponsesAreCurrent, PTL

=============================================================================
