------------------------- MODULE WorkflowEngineProofs -------------------------
(* Proofs about WorkflowEngine for every workflow, whatever part of it     *)
(* other nodes may run, and wherever its process dies: what the engine     *)
(* counts as done has a result, and what ended is not started again.       *)
EXTENDS WorkflowEngine, StepLedgerProofs, FiniteSetTheorems

USE PlanAssumption, ClaimAssumption, BoundAssumption, EngineAssumption

-----------------------------------------------------------------------------
(* What others do to the ledger                                            *)

(* The moves of dispatchers, their executors and people on one step.       *)
Moves(s) ==
  \/ Recover(s) \/ Block(s) \/ Requeue(s) \/ Resume(s)
  \/ \E c \in Claims \ {Engine} :
       \/ active /\ Claim(s, c)
       \/ Continue(s, c)
       \/ \E outcome \in Outcomes, report \in Reports(s) : Finish(s, c, outcome, report)

LEMMA OthersType == TypeOK /\ OthersStep => TypeOK'
<1> SUFFICES ASSUME TypeOK, OthersStep PROVE TypeOK'
  OBVIOUS
<1>1. ASSUME NEW s \in Offered, Moves(s) PROVE TypeOK'
  BY <1>1, ClaimType, ContinueType, FinishType, RecoverType, ResumeType, BlockType, RequeueType
     DEF Moves
<1>2. CASE Tick
  BY <1>2, TickType
<1>3. QED
  BY <1>1, <1>2 DEF OthersStep, Moves

(* Outputs are only replaced by other outputs, where no final response is  *)
(* reopened.                                                               *)
NoResponses == \A s \in Steps : ~IsFinal(s)

LEMMA OutputsStay ==
  ASSUME NoResponses, TypeOK, OthersStep, NEW t \in Steps, output[t] # NoClaim
  PROVE  output'[t] # NoClaim
<1>0. DOMAIN output = Steps
  BY DEF TypeOK
<1>1. ASSUME NEW s \in Offered, Moves(s) PROVE output'[t] # NoClaim
  <2>1. CASE Resume(s)
    <3>1. t \notin ComposedBefore(s)
      BY DEF ComposedBefore, NoResponses
    <3>2. QED
      BY <2>1, <3>1 DEF Resume
  <2>2. CASE Recover(s) \/ Block(s) \/ Requeue(s)
    BY <2>2 DEF Recover, Block, Requeue
  <2>3. CASE \E c \in Claims : Claim(s, c) \/ Continue(s, c)
    BY <2>3 DEF Claim, Continue
  <2>4. ASSUME NEW c \in Claims, NEW outcome, NEW report, Finish(s, c, outcome, report)
        PROVE  output'[t] # NoClaim
    BY <1>0, <2>4 DEF Finish
  <2>5. QED
    BY <1>1, <2>1, <2>2, <2>3, <2>4 DEF Moves
<1>2. CASE Tick
  BY <1>2 DEF Tick
<1>3. QED
  BY <1>1, <1>2 DEF OthersStep, Moves

-----------------------------------------------------------------------------
(* Types                                                                   *)

(* Where the loop is says what is going on.                                *)
LoopPlaces ==
  /\ recorded # {} => phase = "harvest"
  /\ launchable # {} => phase = "launch"
  /\ phase \in {"idle", "new", "final"} => Running = {}
  /\ launchable \cap Ended(state) = {}

LEMMA PublishAgainType == TypeOK /\ PublishAgain => TypeOK'
<1> SUFFICES ASSUME TypeOK, PublishAgain PROVE TypeOK'
  OBVIOUS
<1>1. step' \in [Steps -> StepRecord]
  BY FreshRecordType DEF PublishAgain
<1>2. attempt' \in [Obligations -> [Steps -> AttemptStates \cup {"none"}]]
  BY DEF PublishAgain, AttemptStates
<1>3. interpreted' \in [Obligations -> SUBSET Steps] /\ revision' \in Nat \ {0} /\ active' \in BOOLEAN
  BY DEF PublishAgain
<1>4. QED
  BY <1>1, <1>2, <1>3 DEF PublishAgain, TypeOK

LEMMA WriteStatusType ==
  ASSUME TypeOK, NEW s \in Steps, NEW status \in Statuses, WriteStatus(s, status)
  PROVE  TypeOK'
<1>1. step' \in [Steps -> StepRecord]
  BY StatusUpdate DEF TypeOK, WriteStatus
<1>2. QED
  BY <1>1 DEF TypeOK, WriteStatus, projection

LEMMA EndingsGrow ==
  ASSUME state \in Endings, NEW S \in SUBSET Steps
  PROVE  /\ [state EXCEPT !.processed = @ \cup S] \in Endings
         /\ [state EXCEPT !.failed = @ \cup S] \in Endings
         /\ [state EXCEPT !.waiting = @ \cup S] \in Endings
         /\ Ended([state EXCEPT !.processed = @ \cup S]) = Ended(state) \cup S
         /\ Ended([state EXCEPT !.failed = @ \cup S]) = Ended(state) \cup S
         /\ Ended([state EXCEPT !.waiting = @ \cup S]) = Ended(state) \cup S
         /\ [state EXCEPT !.processed = @ \cup S].processed = state.processed \cup S
         /\ [state EXCEPT !.failed = @ \cup S].processed = state.processed
         /\ [state EXCEPT !.waiting = @ \cup S].processed = state.processed
BY DEF Endings, Ended

LEMMA NothingEndedType == NothingEnded \in Endings /\ Ended(NothingEnded) = {}
BY DEF NothingEnded, Endings, Ended

EngineInvariant == EngineTypeOK /\ LoopPlaces

LEMMA EngineInitHolds == EngineInit => EngineInvariant
<1> SUFFICES ASSUME EngineInit PROVE EngineInvariant
  OBVIOUS
<1>1. TypeOK
  BY InitType DEF EngineInit
<1>2. Running = {}
  BY DEF EngineInit, Running
<1>3. Cardinality({}) = 0
  BY FS_EmptySet
<1>4. saved \in Checkpoints
  BY NothingEndedType DEF EngineInit, NoCheckpoint, Checkpoints
<1>5. QED
  BY <1>1, <1>2, <1>3, <1>4, NothingEndedType
     DEF EngineInit, EngineInvariant, EngineTypeOK, LoopPlaces, Phases

Stages == {"none", "local", "remote", "polling"} \cup Results

(* What the engine's own variables need; the rest is the ledger's.         *)
OwnTypeOK ==
  /\ phase \in Phases
  /\ state \in Endings
  /\ task \in [Steps -> Stages]
  /\ Running \cap Ended(state) = {} /\ launchable \cap Running = {}
  /\ memory \subseteq Steps /\ launchable \subseteq Steps
  /\ recorded \subseteq state.processed /\ Cardinality(recorded) <= 1
  /\ saved \in Checkpoints
  /\ starts \in 1 .. MaxStarts

LEMMA OwnAndLedger ==
  /\ EngineTypeOK <=> (TypeOK /\ OwnTypeOK)
  /\ EngineTypeOK' <=> (TypeOK' /\ OwnTypeOK')
BY DEF EngineTypeOK, OwnTypeOK, Stages

LEMMA CheckpointType == OwnTypeOK /\ Checkpoint => saved' \in Checkpoints
BY DEF OwnTypeOK, Checkpoint, Checkpoints, Running

LEMMA NoneRecorded == Cardinality({}) <= 1
BY FS_EmptySet

(* A task that ends, or goes to another stage, runs or does not.           *)
LEMMA TaskMoves ==
  ASSUME task \in [Steps -> Stages], NEW s \in Steps, NEW stage \in Stages,
         task' = [task EXCEPT ![s] = stage]
  PROVE  /\ task' \in [Steps -> Stages]
         /\ Running' = IF stage = "none" THEN Running \ {s} ELSE Running \cup {s}
BY DEF Running

LEMMA StartsHold ==
  ASSUME EngineInvariant, Execute
  PROVE  EngineInvariant'
<1> USE DEF EngineInvariant
<1>1. OwnTypeOK /\ TypeOK
  BY OwnAndLedger
<1>2. /\ phase = "idle" /\ Running = {} /\ recorded = {} /\ launchable = {}
      /\ UNCHANGED <<task, launchable, recorded, saved>>
      /\ starts' \in 1 .. MaxStarts
  BY <1>1 DEF Execute, LoopPlaces, OwnTypeOK
<1>3. Running' = {}
  BY <1>2 DEF Running
<1>4. TypeOK' /\ state' \in Endings /\ memory' \subseteq Steps /\ phase' \in {"harvest", "new"}
  <2>1. CASE /\ state' = Resumed /\ memory' = memory \cup Reloaded(Resumed.processed)
             /\ phase' = "harvest" /\ UNCHANGED vars
    <3>1. saved.ends \in Endings
      BY <1>1 DEF OwnTypeOK, Checkpoints
    <3>2. TypeOK'
      BY <1>1, <2>1 DEF vars, TypeOK
    <3>3. QED
      BY <1>1, <2>1, <3>1, <3>2 DEF Resumed, Reloaded, Endings, OwnTypeOK
  <2>2. CASE PublishAgain /\ state' = NothingEnded /\ phase' = "new" /\ memory' = memory
    BY <1>1, <2>2, PublishAgainType, NothingEndedType DEF OwnTypeOK
  <2>3. QED
    BY <2>1, <2>2 DEF Execute
<1>5. OwnTypeOK'
  BY <1>1, <1>2, <1>3, <1>4, NoneRecorded DEF OwnTypeOK, Phases
<1>6. LoopPlaces'
  BY <1>2, <1>3 DEF LoopPlaces
<1>7. QED
  BY <1>4, <1>5, <1>6, OwnAndLedger

(* Saving, turning and finishing change nothing but the checkpoint and     *)
(* where the loop is.                                                      *)
LEMMA TurnsHold ==
  ASSUME EngineInvariant, FirstSave \/ Persist \/ Turn \/ Finalise
  PROVE  EngineInvariant'
<1> USE DEF EngineInvariant
<1>1. OwnTypeOK /\ TypeOK
  BY OwnAndLedger
<1>2. /\ UNCHANGED <<state, task, memory, launchable, recorded, starts>> /\ UNCHANGED vars
      /\ phase' \in Phases
  BY DEF FirstSave, Persist, Turn, Finalise, Phases
<1>3. saved' \in Checkpoints
  <2>1. CASE Turn
    BY <1>1, <2>1 DEF Turn, OwnTypeOK
  <2>2. CASE FirstSave \/ Persist \/ Finalise
    BY <1>1, <2>2, CheckpointType DEF FirstSave, Persist, Finalise
  <2>3. QED
    BY <2>1, <2>2
<1>4. TypeOK'
  BY <1>1, <1>2 DEF vars, TypeOK
<1>5. Running' = Running /\ Ended(state)' = Ended(state)
  BY <1>2 DEF Running, Ended
<1>6. OwnTypeOK'
  BY <1>1, <1>2, <1>3, <1>5 DEF OwnTypeOK
<1>7. LoopPlaces'
  BY <1>2, <1>5 DEF LoopPlaces, FirstSave, Persist, Turn, Finalise
<1>8. QED
  BY <1>4, <1>6, <1>7, OwnAndLedger

LEMMA RecordHolds ==
  ASSUME EngineInvariant, NEW s \in Steps, Record(s)
  PROVE  /\ EngineInvariant'
         /\ \/ /\ state' = [state EXCEPT !.processed = @ \cup {s}]
               /\ memory' = memory \cup {s} /\ recorded' = {s}
            \/ /\ \/ state' = [state EXCEPT !.failed = @ \cup {s}]
                  \/ state' = [state EXCEPT !.waiting = @ \cup {s}]
               /\ memory' = memory /\ recorded' = {}
<1> USE DEF EngineInvariant
<1>1. OwnTypeOK /\ TypeOK
  BY OwnAndLedger
<1>2. /\ phase = "harvest" /\ recorded = {} /\ task[s] \in Results
      /\ task' = [task EXCEPT ![s] = "none"]
      /\ UNCHANGED <<phase, launchable, saved, starts>>
  BY DEF Record, Done
<1>3. \/ /\ state' = [state EXCEPT !.processed = @ \cup {s}]
         /\ memory' = memory \cup {s} /\ recorded' = {s} /\ WriteStatus(s, "completed")
      \/ /\ \/ state' = [state EXCEPT !.failed = @ \cup {s}] /\ WriteStatus(s, "failed")
            \/ state' = [state EXCEPT !.waiting = @ \cup {s}] /\ WriteStatus(s, "waiting")
         /\ memory' = memory /\ recorded' = {}
  BY <1>2 DEF Record, Results
<1>4. TypeOK'
  <2>1. {"completed", "failed", "waiting"} \subseteq Statuses
    BY DEF Statuses
  <2>2. QED
    BY <1>1, <1>3, <2>1, WriteStatusType
<1>5. task' \in [Steps -> Stages] /\ Running' = Running \ {s}
  BY <1>1, <1>2, TaskMoves DEF OwnTypeOK, Stages
<1>6. state' \in Endings /\ Ended(state)' = Ended(state) \cup {s}
  <2>1. {s} \in SUBSET Steps /\ state \in Endings
    BY <1>1 DEF OwnTypeOK
  <2>2. Ended(state') = Ended(state) \cup {s} /\ state' \in Endings
    <3>1. CASE state' = [state EXCEPT !.processed = @ \cup {s}]
      BY <2>1, <3>1, EndingsGrow
    <3>2. CASE state' = [state EXCEPT !.failed = @ \cup {s}]
      BY <2>1, <3>2, EndingsGrow
    <3>3. CASE state' = [state EXCEPT !.waiting = @ \cup {s}]
      BY <2>1, <3>3, EndingsGrow
    <3>4. QED
      BY <1>3, <3>1, <3>2, <3>3
  <2>3. QED
    BY <2>2 DEF Ended
<1>7. recorded' \subseteq state'.processed /\ Cardinality(recorded') <= 1
  <2>1. Cardinality({s}) = 1
    BY FS_Singleton
  <2>2. (recorded' = {s} /\ state'.processed = state.processed \cup {s}) \/ recorded' = {}
    <3>1. {s} \in SUBSET Steps /\ state \in Endings
      BY <1>1 DEF OwnTypeOK
    <3>2. QED
      BY <1>3, <3>1, EndingsGrow
  <2>3. CASE recorded' = {s} /\ state'.processed = state.processed \cup {s}
    <3>1. recorded' \subseteq state'.processed
      BY <2>3
    <3>2. Cardinality(recorded') <= 1
      BY <2>1, <2>3
    <3>3. QED
      BY <3>1, <3>2
  <2>4. CASE recorded' = {}
    BY <2>4, NoneRecorded
  <2>5. QED
    BY <2>2, <2>3, <2>4
<1>8. memory' \subseteq Steps
  BY <1>1, <1>3 DEF OwnTypeOK
<1>9. OwnTypeOK'
  BY <1>1, <1>2, <1>5, <1>6, <1>7, <1>8 DEF OwnTypeOK
<1>10. LoopPlaces'
  BY <1>2, <1>3, <1>5, <1>6 DEF LoopPlaces
<1>11. QED
  BY <1>3, <1>4, <1>9, <1>10, OwnAndLedger

LEMMA LoopHolds ==
  ASSUME EngineInvariant, Decide \/ Detect \/ \E s \in Steps : SaveOutput(s) \/ Launch(s)
  PROVE  EngineInvariant'
<1> USE DEF EngineInvariant
<1>1. OwnTypeOK /\ TypeOK
  BY OwnAndLedger
<1>2. ASSUME NEW s \in Steps, SaveOutput(s) PROVE EngineInvariant'
  <2>1. output' \in [Steps -> Claims \cup {NoClaim}]
    BY <1>1, <1>2 DEF SaveOutput, TypeOK
  <2>2. TypeOK'
    BY <1>1, <1>2, <2>1 DEF SaveOutput, TypeOK, projection
  <2>3. /\ UNCHANGED <<phase, state, task, memory, launchable, saved, starts>>
        /\ recorded' = {} /\ Running' = Running /\ Ended(state)' = Ended(state)
    BY <1>2 DEF SaveOutput, Running, Ended
  <2>4. OwnTypeOK'
    BY <1>1, <2>3, NoneRecorded DEF OwnTypeOK
  <2>5. LoopPlaces'
    BY <2>3 DEF LoopPlaces
  <2>6. QED
    BY <2>2, <2>4, <2>5, OwnAndLedger
<1>3. CASE Decide
  <2>1. /\ UNCHANGED vars /\ UNCHANGED <<state, task, memory, recorded, saved, starts>>
        /\ recorded = {} /\ phase' = "launch" /\ Running' = Running /\ Ended(state)' = Ended(state)
        /\ launchable' \subseteq Steps \ (Ended(state) \cup Running)
    BY <1>3 DEF Decide, Running, Ended, Pending
  <2>2. TypeOK'
    BY <1>1, <2>1 DEF vars, TypeOK
  <2>3. OwnTypeOK'
    BY <1>1, <2>1 DEF OwnTypeOK, Phases
  <2>4. LoopPlaces'
    BY <2>1 DEF LoopPlaces
  <2>5. QED
    BY <2>2, <2>3, <2>4, OwnAndLedger
<1>4. ASSUME NEW s \in Steps, Launch(s) PROVE EngineInvariant'
  <2>1. /\ UNCHANGED <<phase, state, memory, recorded, saved, starts>>
        /\ phase = "launch" /\ s \in launchable /\ launchable' = launchable \ {s}
        /\ Ended(state)' = Ended(state)
    BY <1>4 DEF Launch, Ended
  <2>2. TypeOK'
    BY <1>1, <1>4, WriteStatusType DEF Launch, Statuses
  <2>3. PICK stage \in {"local", "remote"} : task' = [task EXCEPT ![s] = stage]
    BY <1>4 DEF Launch
  <2>4. task' \in [Steps -> Stages] /\ Running' = Running \cup {s}
    BY <1>1, <2>3, TaskMoves DEF OwnTypeOK, Stages
  <2>5. OwnTypeOK'
    BY <1>1, <2>1, <2>4 DEF OwnTypeOK, LoopPlaces
  <2>6. LoopPlaces'
    BY <2>1 DEF LoopPlaces
  <2>7. QED
    BY <2>2, <2>5, <2>6, OwnAndLedger
<1>5. CASE Detect
  <2>1. /\ UNCHANGED vars /\ UNCHANGED <<task, memory, launchable, recorded, saved, starts>>
        /\ phase = "detect" /\ Running' = Running
    BY <1>5 DEF Detect, Running
  <2>2. TypeOK'
    BY <1>1, <2>1 DEF vars, TypeOK
  <2>3. CASE Stuck
    <3>1. Running = {} /\ state' = [state EXCEPT !.failed = @ \cup Pending] /\ phase' = "final"
      BY <1>5, <2>3 DEF Detect, Stuck
    <3>2. Pending \in SUBSET Steps
      BY DEF Pending
    <3>3. state' \in Endings /\ state'.processed = state.processed
      BY <1>1, <3>1, <3>2, EndingsGrow DEF OwnTypeOK
    <3>4. OwnTypeOK'
      BY <1>1, <2>1, <3>1, <3>3 DEF OwnTypeOK, Phases
    <3>5. LoopPlaces'
      BY <2>1, <3>1 DEF LoopPlaces
    <3>6. QED
      BY <2>2, <3>4, <3>5, OwnAndLedger
  <2>4. CASE ~Stuck
    <3>1. /\ state' = state /\ Ended(state)' = Ended(state)
          /\ phase' \in {"final", "pace"} /\ (phase' = "final" => Pending = {})
      BY <1>5, <2>4 DEF Detect, Ended
    <3>2. Pending = {} => Running = {}
      BY <1>1 DEF OwnTypeOK, Pending, Running
    <3>3. OwnTypeOK'
      BY <1>1, <2>1, <3>1 DEF OwnTypeOK, Phases
    <3>4. LoopPlaces'
      BY <2>1, <3>1, <3>2 DEF LoopPlaces
    <3>5. QED
      BY <2>2, <3>3, <3>4, OwnAndLedger
  <2>5. QED
    BY <2>3, <2>4
<1>6. QED
  BY <1>2, <1>3, <1>4, <1>5

(* A task that runs goes on or ends, and keeps its step running until the  *)
(* loop harvests it.                                                       *)
LEMMA TaskHolds ==
  ASSUME EngineInvariant, NEW s \in Steps, TaskStep(s)
  PROVE  /\ EngineInvariant'
         /\ UNCHANGED <<phase, state, memory, launchable, recorded, saved, starts, output>>
         /\ Running' = Running
<1> USE DEF EngineInvariant
<1>1. OwnTypeOK /\ TypeOK
  BY OwnAndLedger
<1>2. /\ phase = "pace" /\ s \in Running
      /\ \E stage \in Stages \ {"none"} : TaskBecomes(s, stage)
      /\ UNCHANGED vars \/ WriteStatus(s, "pending")
  BY DEF TaskStep, AgentEnds, Handover, Poll, TimeOut, Stages, Results, Running
<1>3. TypeOK'
  <2>1. CASE UNCHANGED vars
    BY <1>1, <2>1 DEF vars, TypeOK
  <2>2. CASE WriteStatus(s, "pending")
    BY <1>1, <2>2, WriteStatusType DEF Statuses
  <2>3. QED
    BY <1>2, <2>1, <2>2
<1>4. PICK stage \in Stages \ {"none"} : TaskBecomes(s, stage)
  BY <1>2
<1>5. UNCHANGED <<phase, state, memory, launchable, recorded, saved, starts>>
      /\ task' = [task EXCEPT ![s] = stage]
  BY <1>4 DEF TaskBecomes
<1>6. task' \in [Steps -> Stages] /\ Running' = Running
  <2>1. stage \in Stages /\ stage # "none" /\ task \in [Steps -> Stages]
    BY <1>1, <1>4 DEF OwnTypeOK
  <2>2. task' \in [Steps -> Stages] /\ Running' = Running \cup {s}
    BY <1>5, <2>1, TaskMoves
  <2>3. QED
    BY <1>2, <2>2
<1>7. Ended(state)' = Ended(state)
  BY <1>5 DEF Ended
<1>8. OwnTypeOK' /\ LoopPlaces'
  BY <1>1, <1>5, <1>6, <1>7 DEF OwnTypeOK, LoopPlaces
<1>9. output' = output
  BY <1>2 DEF vars, WriteStatus
<1>10. QED
  BY <1>3, <1>5, <1>6, <1>8, <1>9, OwnAndLedger

LEMMA StopsHold ==
  ASSUME EngineInvariant, CancelRun \/ ProcessDies
  PROVE  EngineInvariant'
<1> USE DEF EngineInvariant
<1>1. OwnTypeOK /\ TypeOK
  BY OwnAndLedger
<1>2. TypeOK'
  BY <1>1 DEF CancelRun, ProcessDies, vars, TypeOK
<1>3. task' \in [Steps -> Stages] /\ Running' = {} /\ phase' = "idle" /\ starts' = starts
  BY DEF CancelRun, ProcessDies, Running, Stages
<1>4. CASE ProcessDies
  <2>1. state' = NothingEnded /\ memory' = {} /\ launchable' = {} /\ recorded' = {} /\ saved' = saved
    BY <1>4 DEF ProcessDies
  <2>2. OwnTypeOK' /\ LoopPlaces'
    BY <1>1, <1>3, <2>1, NoneRecorded, NothingEndedType DEF OwnTypeOK, LoopPlaces, Phases
  <2>3. QED
    BY <1>2, <2>2, OwnAndLedger
<1>5. CASE CancelRun
  <2>1. /\ phase = "pace" /\ state' = [state EXCEPT !.failed = @ \cup Running]
        /\ saved' = [ends |-> [state EXCEPT !.failed = @ \cup Running], running |-> {},
                     total |-> Cardinality(Steps)]
        /\ UNCHANGED <<memory, launchable, recorded>>
    BY <1>5 DEF CancelRun
  <2>2. Running \in SUBSET Steps
    BY DEF Running
  <2>3. state' \in Endings /\ state'.processed = state.processed
    BY <1>1, <2>1, <2>2, EndingsGrow DEF OwnTypeOK
  <2>4. saved' \in Checkpoints
    BY <2>1, <2>3 DEF Checkpoints
  <2>5. recorded = {} /\ launchable = {}
    BY <2>1 DEF LoopPlaces
  <2>6. OwnTypeOK' /\ LoopPlaces'
    BY <1>1, <1>3, <2>1, <2>3, <2>4, <2>5, NoneRecorded DEF OwnTypeOK, LoopPlaces, Phases
  <2>7. QED
    BY <1>2, <2>6, OwnAndLedger
<1>6. QED
  BY <1>4, <1>5

LEMMA OthersHold ==
  ASSUME EngineInvariant, OthersStep \/ UNCHANGED systemVars
  PROVE  EngineInvariant' /\ UNCHANGED engineVars
<1> USE DEF EngineInvariant
<1>1. OwnTypeOK /\ TypeOK
  BY OwnAndLedger
<1>2. TypeOK'
  <2>1. CASE OthersStep
    BY <1>1, <2>1, OthersType
  <2>2. CASE UNCHANGED systemVars
    BY <1>1, <2>2 DEF systemVars, vars, TypeOK
  <2>3. QED
    BY <2>1, <2>2
<1>3. UNCHANGED engineVars
  BY DEF OthersStep, systemVars
<1>4. OwnTypeOK' /\ LoopPlaces'
  BY <1>1, <1>3 DEF OwnTypeOK, LoopPlaces, engineVars, Running, Ended
<1>5. QED
  BY <1>2, <1>3, <1>4, OwnAndLedger

LEMMA EngineHolds == EngineInvariant /\ [EngineNext]_systemVars => EngineInvariant'
<1> SUFFICES ASSUME EngineInvariant, [EngineNext]_systemVars PROVE EngineInvariant'
  OBVIOUS
<1>1. CASE LoopStep
  BY <1>1, TurnsHold, LoopHolds, RecordHolds DEF LoopStep
<1>2. CASE Execute \/ CancelRun \/ ProcessDies \/ \E s \in Steps : TaskStep(s)
  BY <1>2, StartsHold, StopsHold, TaskHolds
<1>3. CASE OthersStep \/ UNCHANGED systemVars
  BY <1>3, OthersHold
<1>4. QED
  BY <1>1, <1>2, <1>3 DEF EngineNext

LEMMA EngineInvariantHolds == EngineSpec => []EngineInvariant
BY EngineInitHolds, EngineHolds, PTL DEF EngineSpec

(* The ledger under the engine's unfenced writes and the engine's own      *)
(* records keep their types: no step both runs and has ended, and none is  *)
(* decided to start that runs.                                             *)
THEOREM EngineTypeCorrect == EngineSpec => []EngineTypeOK
BY EngineInvariantHolds, PTL DEF EngineInvariant

-----------------------------------------------------------------------------
(* What ended stays ended                                                  *)

(* A run knows of every end its checkpoint has.                            *)
SavedKnown == phase \notin {"idle", "new"} => Ended(saved.ends) \subseteq Ended(state)

(* The ends a run knows only grow until it is over.                        *)
LEMMA EndsGrow ==
  ASSUME EngineInvariant,
         \/ Detect \/ Decide
         \/ \E s \in Steps : Record(s) \/ SaveOutput(s) \/ Launch(s)
  PROVE  Ended(state) \subseteq Ended(state)' /\ saved' = saved /\ phase \notin {"idle", "new"}
<1>1. OwnTypeOK
  BY OwnAndLedger DEF EngineInvariant
<1>2. ASSUME NEW s \in Steps, Record(s)
      PROVE  Ended(state) \subseteq Ended(state)' /\ saved' = saved /\ phase \notin {"idle", "new"}
  <2>1. {s} \in SUBSET Steps /\ state \in Endings
    BY <1>1 DEF OwnTypeOK
  <2>2. \/ state' = [state EXCEPT !.processed = @ \cup {s}]
        \/ state' = [state EXCEPT !.failed = @ \cup {s}]
        \/ state' = [state EXCEPT !.waiting = @ \cup {s}]
    BY <1>2, RecordHolds
  <2>3. Ended(state') = Ended(state) \cup {s}
    <3>1. CASE state' = [state EXCEPT !.processed = @ \cup {s}]
      BY <2>1, <3>1, EndingsGrow
    <3>2. CASE state' = [state EXCEPT !.failed = @ \cup {s}]
      BY <2>1, <3>2, EndingsGrow
    <3>3. CASE state' = [state EXCEPT !.waiting = @ \cup {s}]
      BY <2>1, <3>3, EndingsGrow
    <3>4. QED
      BY <2>2, <3>1, <3>2, <3>3
  <2>4. saved' = saved /\ phase = "harvest"
    BY <1>2 DEF Record
  <2>5. QED
    BY <2>3, <2>4 DEF Ended
<1>3. CASE Detect
  <2>1. Pending \in SUBSET Steps /\ state \in Endings
    BY <1>1 DEF OwnTypeOK, Pending
  <2>2. /\ state' = [state EXCEPT !.failed = @ \cup Pending] \/ state' = state
        /\ saved' = saved /\ phase = "detect"
    BY <1>3 DEF Detect
  <2>3. Ended(state) \subseteq Ended(state')
    BY <2>1, <2>2, EndingsGrow
  <2>4. QED
    BY <2>2, <2>3 DEF Ended
<1>4. CASE Decide
  BY <1>4 DEF Decide, Ended
<1>5. ASSUME NEW s \in Steps, SaveOutput(s)
      PROVE  Ended(state) \subseteq Ended(state)' /\ saved' = saved /\ phase \notin {"idle", "new"}
  <2>1. phase = "harvest"
    BY <1>5 DEF SaveOutput, EngineInvariant, LoopPlaces
  <2>2. QED
    BY <1>5, <2>1 DEF SaveOutput, Ended
<1>6. ASSUME NEW s \in Steps, Launch(s)
      PROVE  Ended(state) \subseteq Ended(state)' /\ saved' = saved /\ phase \notin {"idle", "new"}
  BY <1>6 DEF Launch, Ended
<1>7. QED
  BY <1>2, <1>3, <1>4, <1>5, <1>6

LEMMA SavedKnownStep ==
  ASSUME EngineInvariant, SavedKnown, [EngineNext]_systemVars
  PROVE  SavedKnown'
<1> USE DEF SavedKnown
<1>1. CASE \/ Detect \/ Decide
           \/ \E s \in Steps : Record(s) \/ SaveOutput(s) \/ Launch(s)
  <2>1. Ended(saved.ends)' = Ended(saved.ends)
    BY <1>1, EndsGrow DEF Ended
  <2>2. QED
    BY <1>1, <2>1, EndsGrow
<1>2. CASE FirstSave \/ Persist \/ Finalise
  <2>1. saved'.ends = state /\ state' = state
    BY <1>2 DEF FirstSave, Persist, Finalise, Checkpoint
  <2>2. QED
    BY <2>1 DEF Ended
<1>3. CASE Turn
  BY <1>3 DEF Turn, Ended
<1>4. CASE Execute
  <2>1. CASE phase' = "new"
    BY <2>1
  <2>2. CASE state' = Resumed /\ saved' = saved
    BY <2>2 DEF Resumed, Ended
  <2>3. QED
    BY <1>4, <2>1, <2>2 DEF Execute
<1>5. CASE CancelRun \/ ProcessDies
  BY <1>5 DEF CancelRun, ProcessDies
<1>6. ASSUME NEW s \in Steps, TaskStep(s) PROVE SavedKnown'
  BY <1>6, TaskHolds DEF Ended
<1>7. CASE OthersStep \/ UNCHANGED systemVars
  BY <1>7, OthersHold DEF engineVars, Ended
<1>8. QED
  BY <1>1, <1>2, <1>3, <1>4, <1>5, <1>6, <1>7 DEF EngineNext, LoopStep

LEMMA SavedKnownHolds == EngineSpec => []SavedKnown
<1>1. EngineInit => SavedKnown
  BY DEF EngineInit, SavedKnown
<1>2. QED
  BY <1>1, SavedKnownStep, EngineInvariantHolds, PTL DEF EngineSpec

(* Only a launch gives a step a task, and it launches nothing the run      *)
(* knows the end of.                                                       *)
LEMMA OnlyLaunchesStart ==
  ASSUME EngineInvariant, [EngineNext]_systemVars,
         NEW s \in Steps, task[s] = "none", task'[s] # "none"
  PROVE  phase = "launch" /\ s \notin Ended(state)
<1>1. OwnTypeOK
  BY OwnAndLedger DEF EngineInvariant
<1>2. ASSUME NEW t \in Steps, Launch(t) PROVE phase = "launch" /\ s \notin Ended(state)
  BY <1>1, <1>2 DEF Launch, OwnTypeOK, EngineInvariant, LoopPlaces
<1>3. ASSUME NEW t \in Steps, Record(t) PROVE FALSE
  BY <1>1, <1>3 DEF Record, OwnTypeOK
<1>4. ASSUME NEW t \in Steps, TaskStep(t) PROVE FALSE
  <2>1. Running' = Running
    BY <1>4, TaskHolds
  <2>2. QED
    BY <2>1 DEF Running
<1>5. CASE CancelRun \/ ProcessDies
  BY <1>5 DEF CancelRun, ProcessDies
<1>6. CASE \/ Execute \/ FirstSave \/ Decide \/ Persist \/ Detect \/ Turn \/ Finalise
           \/ \E t \in Steps : SaveOutput(t)
  BY <1>6 DEF Execute, FirstSave, Decide, Persist, Detect, Turn, Finalise, SaveOutput
<1>7. CASE OthersStep \/ UNCHANGED systemVars
  BY <1>7, OthersHold DEF engineVars
<1>8. QED
  BY <1>2, <1>3, <1>4, <1>5, <1>6, <1>7 DEF EngineNext, LoopStep

(* Wherever the process died and whoever wrote the step's status since, a  *)
(* run does not start what ended before the checkpoint it resumes from.    *)
THEOREM NothingEndedIsStarted == EngineSpec => EndedStaysEnded
<1> DEFINE Starts ==
      \A s \in Steps : task[s] = "none" /\ task'[s] # "none" => s \notin Ended(saved.ends)
<1>1. EngineInvariant /\ SavedKnown /\ [EngineNext]_systemVars => [Starts]_systemVars
  BY OnlyLaunchesStart DEF SavedKnown
<1>2. QED
  BY <1>1, EngineInvariantHolds, SavedKnownHolds, PTL DEF EngineSpec, EndedStaysEnded

-----------------------------------------------------------------------------
(* What counts as done has a result                                        *)

(* Between the status of a step and its output, and across a crash there,  *)
(* the checkpoint lags behind: it counts the step once the output is saved.*)
ResultsInvariant ==
  /\ ResultsAreKept
  /\ phase # "idle" => \A s \in state.processed \ recorded : output[s] # NoClaim

LEMMA ResultsInit == EngineInit => ResultsInvariant
BY DEF EngineInit, NoCheckpoint, NothingEnded, ResultsInvariant, ResultsAreKept

(* Saving a checkpoint: nothing is left to be saved of what is counted.    *)
LEMMA ResultsSaved ==
  ASSUME EngineInvariant, ResultsInvariant, FirstSave \/ Persist \/ Finalise
  PROVE  ResultsInvariant'
<1>1. recorded = {} /\ phase # "idle"
  BY DEF EngineInvariant, LoopPlaces, FirstSave, Persist, Finalise
<1>2. /\ saved'.ends = state /\ output' = output
      /\ UNCHANGED <<state, memory, recorded>>
  BY DEF FirstSave, Persist, Finalise, Checkpoint, vars
<1>3. QED
  BY <1>1, <1>2 DEF ResultsInvariant, ResultsAreKept

(* A resumed run reads from the store the outputs its checkpoint promised. *)
LEMMA ResultsResumed ==
  ASSUME EngineInvariant, ResultsInvariant, Execute
  PROVE  ResultsInvariant'
<1>1. saved' = saved /\ recorded' = recorded /\ output' = output
  BY DEF Execute, PublishAgain, vars
<1>2. saved.ends \in Endings
  BY OwnAndLedger DEF EngineInvariant, OwnTypeOK, Checkpoints
<1>3. CASE state' = Resumed /\ memory' = memory \cup Reloaded(Resumed.processed)
  BY <1>1, <1>2, <1>3 DEF Resumed, Reloaded, ResultsInvariant, ResultsAreKept, Endings
<1>4. CASE state' = NothingEnded
  BY <1>1, <1>4 DEF NothingEnded, ResultsInvariant, ResultsAreKept
<1>5. QED
  BY <1>3, <1>4 DEF Execute

LEMMA ResultsRecorded ==
  ASSUME EngineInvariant, ResultsInvariant, NEW s \in Steps, Record(s) \/ SaveOutput(s)
  PROVE  ResultsInvariant'
<1>1. OwnTypeOK /\ TypeOK
  BY OwnAndLedger DEF EngineInvariant
<1>2. CASE Record(s)
  <2>1. {s} \in SUBSET Steps /\ state \in Endings
    BY <1>1 DEF OwnTypeOK
  <2>2. saved' = saved /\ output' = output /\ phase = "harvest" /\ recorded = {}
    BY <1>2 DEF Record, WriteStatus, Done, Results
  <2>3. \/ /\ state'.processed = state.processed \cup {s}
           /\ memory' = memory \cup {s} /\ recorded' = {s}
        \/ state'.processed = state.processed /\ memory' = memory /\ recorded' = {}
    <3>1. CASE /\ state' = [state EXCEPT !.processed = @ \cup {s}]
               /\ memory' = memory \cup {s} /\ recorded' = {s}
      BY <2>1, <3>1, EndingsGrow
    <3>2. CASE /\ \/ state' = [state EXCEPT !.failed = @ \cup {s}]
                  \/ state' = [state EXCEPT !.waiting = @ \cup {s}]
               /\ memory' = memory /\ recorded' = {}
      <4>1. /\ [state EXCEPT !.failed = @ \cup {s}].processed = state.processed
            /\ [state EXCEPT !.waiting = @ \cup {s}].processed = state.processed
        BY <2>1, EndingsGrow
      <4>2. QED
        BY <3>2, <4>1
    <3>3. QED
      BY <1>2, <3>1, <3>2, RecordHolds
  <2>4. QED
    BY <2>2, <2>3 DEF ResultsInvariant, ResultsAreKept
<1>3. CASE SaveOutput(s)
  <2>1. /\ UNCHANGED <<phase, state, memory, saved>>
        /\ recorded = {s} /\ recorded' = {} /\ output' = [output EXCEPT ![s] = Engine]
    BY <1>3 DEF SaveOutput
  <2>2. output'[s] # NoClaim /\ \A t \in Steps \ {s} : output'[t] = output[t]
    BY <1>1, <2>1 DEF TypeOK
  <2>3. state.processed \subseteq Steps /\ saved.ends.processed \subseteq Steps
    BY <1>1 DEF OwnTypeOK, Endings, Checkpoints
  <2>4. \A t \in Steps : output[t] # NoClaim => output'[t] # NoClaim
    BY <2>2
  <2>5. ResultsAreKept'
    BY <2>1, <2>3, <2>4 DEF ResultsInvariant, ResultsAreKept
  <2>6. phase' # "idle" => \A t \in state'.processed \ recorded' : output'[t] # NoClaim
    BY <2>1, <2>2, <2>3, <2>4 DEF ResultsInvariant
  <2>7. QED
    BY <2>5, <2>6 DEF ResultsInvariant
<1>4. QED
  BY <1>2, <1>3

LEMMA ResultsStopped ==
  ASSUME EngineInvariant, ResultsInvariant, CancelRun \/ ProcessDies
  PROVE  ResultsInvariant'
<1>1. phase' = "idle" /\ output' = output
  BY DEF CancelRun, ProcessDies, vars
<1>2. CASE ProcessDies
  BY <1>1, <1>2 DEF ProcessDies, ResultsInvariant, ResultsAreKept
<1>3. CASE CancelRun
  <2>1. phase = "pace" /\ recorded = {} /\ saved'.ends = [state EXCEPT !.failed = @ \cup Running]
    BY <1>3 DEF CancelRun, EngineInvariant, LoopPlaces
  <2>2. Running \in SUBSET Steps /\ state \in Endings
    BY OwnAndLedger DEF EngineInvariant, OwnTypeOK, Running
  <2>3. saved'.ends.processed = state.processed
    BY <2>1, <2>2, EndingsGrow
  <2>4. QED
    BY <1>1, <2>1, <2>3 DEF ResultsInvariant, ResultsAreKept
<1>4. QED
  BY <1>2, <1>3

LEMMA ResultsStep ==
  ASSUME NoResponses, EngineInvariant, ResultsInvariant, [EngineNext]_systemVars
  PROVE  ResultsInvariant'
<1>1. CASE Execute
  BY <1>1, ResultsResumed
<1>2. CASE FirstSave \/ Persist \/ Finalise
  BY <1>2, ResultsSaved
<1>3. CASE \E s \in Steps : Record(s) \/ SaveOutput(s)
  BY <1>3, ResultsRecorded
<1>4. CASE CancelRun \/ ProcessDies
  BY <1>4, ResultsStopped
<1>5. CASE Decide \/ Detect \/ Turn \/ \E s \in Steps : Launch(s)
  <2>1. /\ output' = output /\ UNCHANGED <<memory, recorded, saved>>
        /\ phase # "idle"
    BY <1>5 DEF Decide, Detect, Turn, Launch, vars, WriteStatus
  <2>2. state'.processed = state.processed
    <3>1. CASE Detect
      <4>1. Pending \in SUBSET Steps /\ state \in Endings
        BY OwnAndLedger DEF EngineInvariant, OwnTypeOK, Pending
      <4>2. QED
        BY <3>1, <4>1, EndingsGrow DEF Detect
    <3>2. CASE Decide \/ Turn \/ \E s \in Steps : Launch(s)
      BY <3>2 DEF Decide, Turn, Launch
    <3>3. QED
      BY <1>5, <3>1, <3>2
  <2>3. QED
    BY <2>1, <2>2 DEF ResultsInvariant, ResultsAreKept
<1>6. CASE \E s \in Steps : TaskStep(s)
  BY <1>6, TaskHolds DEF ResultsInvariant, ResultsAreKept
<1>7. CASE OthersStep \/ UNCHANGED systemVars
  <2>1. UNCHANGED engineVars
    BY <1>7, OthersHold
  <2>2. TypeOK
    BY OwnAndLedger DEF EngineInvariant
  <2>3. \A t \in Steps : output[t] # NoClaim => output'[t] # NoClaim
    BY <1>7, <2>2, OutputsStay DEF systemVars, vars
  <2>4. state.processed \subseteq Steps /\ saved.ends.processed \subseteq Steps
    BY OwnAndLedger DEF EngineInvariant, OwnTypeOK, Endings, Checkpoints
  <2>5. QED
    BY <2>1, <2>3, <2>4 DEF engineVars, ResultsInvariant, ResultsAreKept
<1>8. QED
  BY <1>1, <1>2, <1>3, <1>4, <1>5, <1>6, <1>7 DEF EngineNext, LoopStep

(* Every step the checkpoint counts as processed has its output in the     *)
(* store, whenever the process dies, and a run knows every result it       *)
(* counts on, in workflows without a final response: when a step it        *)
(* follows is put back, the output of a final response is taken away, and  *)
(* only plans of goals, which the engine does not run, end in one.         *)
THEOREM DoneStepsHaveResults ==
  ASSUME NoResponses PROVE EngineSpec => []ResultsAreKept
<1>1. EngineInvariant /\ ResultsInvariant /\ [EngineNext]_systemVars => ResultsInvariant'
  BY ResultsStep
<1>2. ResultsInvariant => ResultsAreKept
  BY DEF ResultsInvariant
<1>3. QED
  BY <1>1, <1>2, ResultsInit, EngineInvariantHolds, PTL DEF EngineSpec

=============================================================================
