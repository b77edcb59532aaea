---------------------------- MODULE WorkflowEngine ----------------------------
(***************************************************************************)
(* The workflow engine (orchestration/engine.py): one process runs the     *)
(* steps of a workflow it published.  Its loop harvests the tasks that     *)
(* ended, launches what may start, saves a checkpoint and waits a moment;  *)
(* its tasks run while it waits.  A step no local agent can run is left to *)
(* the dispatchers of other nodes and polled for.  A process that dies is  *)
(* started again with the same workflow and resumes from its checkpoint.   *)
(*                                                                         *)
(* Dispatchers scan every active workflow, so they work on the engine's    *)
(* steps too: claims, results, expiry and people are those of StepLedger.  *)
(* The engine itself holds no lock: it writes statuses as they come        *)
(* (update_step_status).                                                   *)
(***************************************************************************)
EXTENDS StepLedger

CONSTANTS
  Local,     \* steps an agent of the engine's own process can run
  Offered,   \* steps the dispatchers of other nodes can run
  Engine,    \* stands for the engine as the author of an output
  MaxStarts  \* bound on the calls of execute

ASSUME EngineAssumption ==
  /\ Local \subseteq Steps /\ Offered \subseteq Steps
  /\ Engine \in Claims
  /\ MaxStarts \in Nat \ {0}
  /\ \A s \in Steps : RevisionOf[s] = 1

VARIABLES
  phase,       \* where the loop is
  state,       \* WorkflowState: how steps ended
  task,        \* the task of each step
  memory,      \* the steps whose result the process has in memory
  launchable,  \* decided to start, not started yet
  recorded,    \* the step marked completed whose output is saved next
  saved,       \* workflow_state: the checkpoint
  starts

engineVars == <<phase, state, task, memory, launchable, recorded, saved, starts>>
systemVars == <<vars, engineVars>>

-----------------------------------------------------------------------------
(* Workflow states                                                         *)

Endings == [processed : SUBSET Steps, failed : SUBSET Steps, waiting : SUBSET Steps]
NothingEnded == [processed |-> {}, failed |-> {}, waiting |-> {}]
Ended(endings) == endings.processed \cup endings.failed \cup endings.waiting

(* A checkpoint also names the steps that were running; none was saved yet *)
(* when it covers no steps at all.                                         *)
Checkpoints == [ends : Endings, running : SUBSET Steps, total : {0, Cardinality(Steps)}]
NoCheckpoint == [ends |-> NothingEnded, running |-> {}, total |-> 0]

IsComplete(checkpoint) ==
  LET ends == checkpoint.ends IN
  /\ Cardinality(ends.processed) + Cardinality(ends.failed) + Cardinality(ends.waiting)
       >= checkpoint.total
  /\ checkpoint.running = {}

Results == {"success", "failure", "waiting"}
Running == {s \in Steps : task[s] # "none"}
Done == {s \in Steps : task[s] \in Results}

(* Steps the run still has to end.                                         *)
MutantPending == Steps \ (state.processed \cup state.failed)
Pending == Steps \ Ended(state)

Phases == {"idle", "new", "harvest", "launch", "detect", "pace", "final"}

EngineTypeOK ==
  /\ TypeOK
  /\ phase \in Phases
  /\ state \in Endings
  /\ task \in [Steps -> {"none", "local", "remote", "polling"} \cup Results]
  /\ Running \cap Ended(state) = {} /\ launchable \cap Running = {}
  /\ memory \subseteq Steps /\ launchable \subseteq Steps
  /\ recorded \subseteq state.processed /\ Cardinality(recorded) <= 1
  /\ saved \in Checkpoints
  /\ starts \in 1 .. MaxStarts

(* The first run has just published its graph.                             *)
EngineInit ==
  /\ Init
  /\ phase = "new"
  /\ state = NothingEnded
  /\ task = [s \in Steps |-> "none"]
  /\ memory = {} /\ launchable = {} /\ recorded = {}
  /\ saved = NoCheckpoint
  /\ starts = 1

-----------------------------------------------------------------------------
(* Starting and resuming                                                   *)

(* init_workflow_graph replaces the graph and the projection; locks, saved *)
(* outputs and a cancellation stay.                                        *)
PublishAgain ==
  /\ step' = [s \in Steps |-> FreshRecord]
  /\ attempt' = [o \in Obligations |-> [s \in Steps |->
       IF o \in Covers[s] /\ ~ IsFinal(s) THEN "pending" ELSE "none"]]
  /\ interpreted' = [o \in Obligations |-> {}]
  /\ revision' = 1
  /\ active' = TRUE
  /\ UNCHANGED <<lock, ttl, output, settlement, cancelled>>

(* What a resumed run takes over: the steps that ended, not those that     *)
(* ran, and the outputs of the done ones.                                  *)
MutantResumed == [saved.ends EXCEPT !.failed = {}]
Resumed == saved.ends
MutantReloaded(done) == {}
Reloaded(done) == {s \in done : output[s] # NoClaim}

(* execute: an unfinished checkpoint is resumed; otherwise everything is   *)
(* published anew.                                                         *)
Execute ==
  /\ phase = "idle"
  /\ starts < MaxStarts
  /\ starts' = starts + 1
  /\ \/ /\ ~ IsComplete(saved)
        /\ state' = Resumed
        /\ memory' = memory \cup Reloaded(Resumed.processed)
        /\ phase' = "harvest"
        /\ UNCHANGED vars
     \/ /\ IsComplete(saved)
        /\ PublishAgain
        /\ state' = NothingEnded
        /\ phase' = "new"
        /\ UNCHANGED memory
  /\ UNCHANGED <<task, launchable, recorded, saved>>

Checkpoint == saved' = [ends |-> state, running |-> Running, total |-> Cardinality(Steps)]

FirstSave ==
  /\ phase = "new"
  /\ Checkpoint
  /\ phase' = "harvest"
  /\ UNCHANGED <<vars, state, task, memory, launchable, recorded, starts>>

-----------------------------------------------------------------------------
(* One turn of the loop                                                    *)

(* update_step_status: whatever the step's status and whoever holds it.    *)
WriteStatus(s, status) ==
  /\ step' = [step EXCEPT ![s] = [@ EXCEPT !.status = status]]
  /\ UNCHANGED <<lock, ttl, output, projection, revision, settlement,
                 cancelled, active>>

(* _record_result: the state in memory and the status in the store, then   *)
(* the output of a success.                                                *)
Record(s) ==
  /\ phase = "harvest" /\ recorded = {}
  /\ s \in Done
  /\ task' = [task EXCEPT ![s] = "none"]
  /\ CASE task[s] = "success" ->
            /\ state' = [state EXCEPT !.processed = @ \cup {s}]
            /\ memory' = memory \cup {s}
            /\ WriteStatus(s, "completed")
            /\ recorded' = {s}
       [] task[s] = "waiting" ->
            /\ state' = [state EXCEPT !.waiting = @ \cup {s}]
            /\ WriteStatus(s, "waiting")
            /\ UNCHANGED <<memory, recorded>>
       [] task[s] = "failure" ->
            /\ state' = [state EXCEPT !.failed = @ \cup {s}]
            /\ WriteStatus(s, "failed")
            /\ UNCHANGED <<memory, recorded>>
  /\ UNCHANGED <<phase, launchable, saved, starts>>

(* save_step_output of the step just recorded.  An output too large to     *)
(* store is replaced by a note that says so, and counts as an output here. *)
SaveOutput(s) ==
  /\ recorded = {s}
  /\ output' = [output EXCEPT ![s] = Engine]
  /\ recorded' = {}
  /\ UNCHANGED <<step, lock, ttl, projection, revision, settlement, cancelled,
                 active, phase, state, task, memory, launchable, saved, starts>>

(* _deps_met reads the store, also what other nodes completed since the    *)
(* last harvest.  The reads of one decision are one step here: a status    *)
(* that changes among them counts for this turn or the next.               *)
DepsMet(s) == \A d \in DependsOn[s] : Status(d) = "completed"

Decide ==
  /\ phase = "harvest" /\ recorded = {} /\ Done = {}
  /\ launchable' = {s \in Pending \ Running : DepsMet(s)}
  /\ phase' = "launch"
  /\ UNCHANGED <<vars, state, task, memory, recorded, saved, starts>>

(* The results handed to the step are those in memory, none for the rest.  *)
Launch(s) ==
  /\ phase = "launch"
  /\ s \in launchable
  /\ launchable' = launchable \ {s}
  /\ WriteStatus(s, "in_progress")
  /\ task' = [task EXCEPT ![s] = IF s \in Local THEN "local" ELSE "remote"]
  /\ UNCHANGED <<phase, state, memory, recorded, saved, starts>>

Persist ==
  /\ phase = "launch"
  /\ launchable = {}
  /\ Checkpoint
  /\ phase' = "detect"
  /\ UNCHANGED <<vars, state, task, memory, launchable, recorded, starts>>

(* Nothing runs and no pending step's dependencies are completed.          *)
MutantStuck ==
  /\ Running = {} /\ Pending # {}
  /\ \A s \in Pending : \E d \in DependsOn[s] : Status(d) = "failed"
Stuck == Running = {} /\ Pending # {} /\ ~ \E s \in Pending : DepsMet(s)

(* Steps that can never start fail, in memory only.                        *)
Detect ==
  /\ phase = "detect"
  /\ state' = IF Stuck THEN [state EXCEPT !.failed = @ \cup Pending] ELSE state
  /\ phase' = IF Stuck \/ Pending = {} THEN "final" ELSE "pace"
  /\ UNCHANGED <<vars, task, memory, launchable, recorded, saved, starts>>

(* The loop waits up to a second, however many tasks end meanwhile.        *)
Turn ==
  /\ phase = "pace"
  /\ phase' = "harvest"
  /\ UNCHANGED <<vars, state, task, memory, launchable, recorded, saved, starts>>

Finalise ==
  /\ phase = "final"
  /\ Checkpoint
  /\ phase' = "idle"
  /\ UNCHANGED <<vars, state, task, memory, launchable, recorded, starts>>

-----------------------------------------------------------------------------
(* Tasks, which run while the loop waits                                   *)

TaskBecomes(s, stage) ==
  /\ task' = [task EXCEPT ![s] = stage]
  /\ UNCHANGED <<phase, state, memory, launchable, recorded, saved, starts>>

(* An agent of the process returns what became of the step.                *)
AgentEnds(s) ==
  /\ phase = "pace" /\ task[s] = "local"
  /\ \E result \in Results : TaskBecomes(s, result)
  /\ UNCHANGED vars

(* No local agent: the step is put back for the dispatchers.               *)
Handover(s) ==
  /\ phase = "pace" /\ task[s] = "remote"
  /\ WriteStatus(s, "pending")
  /\ TaskBecomes(s, "polling")

(* _wait_remote_step sees the end of the step and its output.  A completed *)
(* step counts as failed if its output does not say "success": it may say  *)
(* "completed", or have been too large to store.                           *)
Poll(s) ==
  /\ phase = "pace" /\ task[s] = "polling"
  /\ \/ Status(s) = "completed" /\ output[s] # NoClaim
        /\ TaskBecomes(s, "success")
     \/ Status(s) = "completed" /\ TaskBecomes(s, "failure")
     \/ Status(s) = "failed" /\ TaskBecomes(s, "failure")
  /\ UNCHANGED vars

(* The step's time is over, whatever its status: waiting, blocked, at work.*)
TimeOut(s) ==
  /\ phase = "pace" /\ task[s] = "polling"
  /\ TaskBecomes(s, "failure")
  /\ UNCHANGED vars

-----------------------------------------------------------------------------
(* Cancellation and crashes                                                *)

(* The caller of execute is cancelled while the loop waits: the tasks stop *)
(* and count as failed; the rest stays pending in the checkpoint.          *)
CancelRun ==
  LET failed == [state EXCEPT !.failed = @ \cup Running] IN
  /\ phase = "pace"
  /\ state' = failed
  /\ saved' = [ends |-> failed, running |-> {}, total |-> Cardinality(Steps)]
  /\ task' = [s \in Steps |-> "none"]
  /\ phase' = "idle"
  /\ UNCHANGED <<vars, memory, launchable, recorded, starts>>

(* The process dies with all it had in memory.                             *)
ProcessDies ==
  /\ phase # "idle" \/ memory # {}
  /\ phase' = "idle"
  /\ state' = NothingEnded
  /\ task' = [s \in Steps |-> "none"]
  /\ memory' = {} /\ launchable' = {} /\ recorded' = {}
  /\ UNCHANGED <<vars, saved, starts>>

-----------------------------------------------------------------------------

LoopStep ==
  \/ FirstSave \/ Decide \/ Persist \/ Detect \/ Turn \/ Finalise
  \/ \E s \in Steps : Record(s) \/ SaveOutput(s) \/ Launch(s)

TaskStep(s) == AgentEnds(s) \/ Handover(s) \/ Poll(s) \/ TimeOut(s)

(* Dispatchers, their executors and people, as the ledger lets them; they  *)
(* scan active workflows only.  A renewal is left out: it is a Tick less.  *)
(* Nobody amends a workflow of an engine, and cancelling one is left out.  *)
OthersStep ==
  /\ \/ \E s \in Offered :
          \/ Recover(s) \/ Block(s) \/ Requeue(s) \/ Resume(s)
          \/ \E c \in Claims \ {Engine} :
               \/ active /\ Claim(s, c)
               \/ Continue(s, c)
               \/ \E outcome \in Outcomes, report \in Reports(s) :
                    Finish(s, c, outcome, report)
     \/ Tick
  /\ UNCHANGED engineVars

EngineNext ==
  \/ Execute \/ LoopStep \/ CancelRun \/ ProcessDies
  \/ \E s \in Steps : TaskStep(s)
  \/ OthersStep

EngineSpec == EngineInit /\ [][EngineNext]_systemVars

(* The loop never stops by itself; an agent ends its work and a remote     *)
(* step's time runs out, each while the loop waits.  Nothing is asked of   *)
(* the other nodes.                                                        *)
FairEngineSpec ==
  /\ EngineSpec
  /\ WF_systemVars(LoopStep)
  /\ \A s \in Steps : SF_systemVars(TaskStep(s))

-----------------------------------------------------------------------------
(* Properties                                                              *)

(* Whenever the process dies, the checkpoint counts a step as processed    *)
(* only if its output is in the store, and a run, resumed or not, knows    *)
(* the result of every step it counts as processed: no dependent of it is  *)
(* started without.                                                        *)
ResultsAreKept ==
  /\ \A s \in saved.ends.processed : output[s] # NoClaim
  /\ phase # "idle" => state.processed \subseteq memory

(* A step that ended before the last checkpoint is not started again by    *)
(* the run that resumes from it, whoever wrote its status since.           *)
EndedStaysEnded ==
  [][\A s \in Steps :
       task[s] = "none" /\ task'[s] # "none" => s \notin Ended(saved.ends)]_systemVars

(* A run ends, or its process dies: it waits neither for a step nobody     *)
(* will run nor for one whose dependencies failed, paused or were taken    *)
(* over by others.                                                         *)
EveryRunEnds == phase # "idle" ~> phase = "idle"
=============================================================================
