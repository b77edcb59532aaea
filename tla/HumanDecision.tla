---------------------------- MODULE HumanDecision ----------------------------
(* A consequential action of one workflow step waits for a person.  The    *)
(* kernel's gate reads the record of the action and asks, waits, refuses,  *)
(* reopens or claims it; a person decides it; what became of it is settled *)
(* on the record.  A run of the step may die anywhere, and another may     *)
(* start while it still goes on, because its lease ran out.  Each action   *)
(* below makes at most one call to the store.                              *)
EXTENDS Naturals, FiniteSets

CONSTANTS
  Kernels,   \* the kernels that may run the step: "browser", "coder"
  Forms,     \* the exact forms of the action an approval can bind
  People,    \* who may decide
  Runs,      \* the runs of the step that may be alive at once
  MaxLeaves, \* bound: leaves to act that are unused when a person reconciles
  NoForm, Nobody

ASSUME KernelsAssumption == Kernels \subseteq {"browser", "coder"}
ASSUME NoneAssumption == NoForm \notin Forms /\ Nobody \notin People
ASSUME LeavesAssumption == MaxLeaves \in Nat

VARIABLES
  kernel,     \* the kernel that runs the step
  file,       \* the hash of the action's request, field by field
  listed,     \* the workflow's index names the action
  saved,      \* the coder's stored result of the action
  accepted,   \* the people whose approval the policy in force accepts
  run,        \* what each run is about to do
  word,       \* the decision a person is about to record
  reconciler, \* what reconcile is about to write
  leaves,     \* history: how often each form may still be performed
  approved,   \* history: the forms somebody approved
  overlapped  \* history: a run or a reconciliation began during another

people == <<accepted, word, reconciler>>
history == <<leaves, approved, overlapped>>
vars == <<kernel, file, listed, saved, run, people, history>>

-----------------------------------------------------------------------------
(* The record                                                              *)

NoFile == [form |-> NoForm, status |-> "none", decision |-> "none",
           by |-> Nobody, outcome |-> "none", executing |-> FALSE]

NoWord == [decision |-> "none", form |-> NoForm]

Idle == [at |-> "idle", form |-> NoForm, outcome |-> "none", early |-> FALSE]

Approved == file.status = "resolved" /\ file.decision = "approved"
Declined == file.status = "resolved" /\ file.decision = "rejected"

(* Whether the policy in force lets p approve; the browser requires        *)
(* nothing of an approver.                                                 *)
Accepts(p) == kernel = "browser" \/ p \in accepted

(* Mutant: an action proposed with other arguments than were approved is   *)
(* not put to a person again.                                              *)
MutantAsksAgain(f) == file = NoFile \/ file.outcome = "not_performed"

(* Whether the gate puts form f to a person, given the record on file.     *)
AsksAgain(f) ==
  \/ file = NoFile
  \/ file.outcome = "not_performed"
  \/ file.outcome = "none" /\ file.form # f

-----------------------------------------------------------------------------
(* A run of the step                                                       *)

At(r, place) == run[r].at = place

Goes(r, place) == run' = [run EXCEPT ![r].at = place]

(* The agent's next turn.                                                  *)
Returns(r) == run' = [run EXCEPT ![r] = [Idle EXCEPT !.at = "turn"]]

Stops(r) == run' = [run EXCEPT ![r] = Idle]

(* A person is needed: a turn pauses the step.  The pass before the first  *)
(* turn, which acts on earlier decisions, takes no notice and goes on.     *)
Pauses(r) == IF run[r].early THEN Returns(r) ELSE Stops(r)

Settles(r, outcome) ==
  run' = [run EXCEPT ![r].at = "settle", ![r].outcome = outcome]

(* A run of the step or a reconciliation is under way.                     *)
Busy == reconciler # "idle" \/ \E r \in Runs : ~ At(r, "idle")

(* A decision the run finds listed and not settled.                        *)
Unsettled ==
  /\ listed /\ file.form # NoForm /\ file.outcome = "none"
  /\ Approved \/ Declined

(* Before its first turn a run lists the decisions that are not settled    *)
(* and acts on them: it settles one that was declined.                     *)
Start(r) ==
  /\ At(r, "idle")
  /\ overlapped' = (overlapped \/ Busy)
  /\ \/ ~ Unsettled /\ Returns(r)
     \/ Unsettled /\ Approved
          /\ run' = [run EXCEPT ![r].at = "apply", ![r].form = file.form,
                                 ![r].early = TRUE]
     \/ Unsettled /\ Declined /\ Settles(r, "declined")
  /\ UNCHANGED <<kernel, file, listed, saved, people, leaves, approved>>

(* The browser looks for the approved element on the page; if it is no     *)
(* longer there, the action is settled as not performed.                   *)
Apply(r) ==
  /\ At(r, "apply")
  /\ \/ Goes(r, "gate")
     \/ kernel = "browser" /\ Settles(r, "not_performed")
  /\ UNCHANGED <<kernel, file, listed, saved, people, history>>

(* The agent proposes the action in form f, or ends its run.               *)
Propose(r, f) ==
  /\ At(r, "turn")
  /\ run' = [run EXCEPT ![r].at = "gate", ![r].form = f]
  /\ UNCHANGED <<kernel, file, listed, saved, people, history>>

Finish(r) ==
  /\ At(r, "turn")
  /\ Stops(r)
  /\ UNCHANGED <<kernel, file, listed, saved, people, history>>

(* What the gate makes of the record it read.  It asks, reports that the   *)
(* action was declined, already ran or has an unknown outcome, pauses the  *)
(* step, puts an approval back that policy no longer accepts, or goes on   *)
(* to claim.                                                               *)
Gate(r) ==
  /\ At(r, "gate")
  /\ IF AsksAgain(run[r].form) THEN Goes(r, "ask")
     ELSE \/ Declined /\ Returns(r)
          \/ ~ Declined /\ ~ Approved /\ Pauses(r)
          \/ Approved /\ (file.outcome # "none" \/ file.executing) /\ Returns(r)
          \/ /\ Approved /\ file.outcome = "none" /\ ~ file.executing
             /\ Goes(r, IF Accepts(file.by) THEN "claim" ELSE "reopen")
  /\ UNCHANGED <<kernel, file, listed, saved, people, history>>

(* A new request replaces the record in two calls and is then indexed; the *)
(* step waits.                                                             *)
AskDelete(r) ==
  /\ At(r, "ask")
  /\ file' = NoFile
  /\ leaves' = [f \in Forms |-> 0]
  /\ Goes(r, "write")
  /\ UNCHANGED <<kernel, listed, saved, people, approved, overlapped>>

AskWrite(r) ==
  /\ At(r, "write")
  /\ file' = [file EXCEPT !.form = run[r].form, !.status = "pending"]
  /\ Goes(r, "list")
  /\ UNCHANGED <<kernel, listed, saved, people, history>>

AskList(r) ==
  /\ At(r, "list")
  /\ listed' = TRUE
  /\ Pauses(r)
  /\ UNCHANGED <<kernel, file, saved, people, history>>

(* A decision whose approver policy no longer accepts is put back, in two  *)
(* calls.                                                                  *)
ReopenStatus(r) ==
  /\ At(r, "reopen")
  /\ file' = [file EXCEPT !.status = "pending"]
  /\ leaves' = [f \in Forms |-> 0]
  /\ Goes(r, "reclear")
  /\ UNCHANGED <<kernel, listed, saved, people, approved, overlapped>>

ReopenClear(r) ==
  /\ At(r, "reclear")
  /\ file' = [file EXCEPT !.decision = "none", !.by = Nobody]
  /\ Pauses(r)
  /\ UNCHANGED <<kernel, listed, saved, people, history>>

(* The atomic claim of an approved action that is neither settled nor      *)
(* being carried out.                                                      *)
Claimable == Approved /\ file.outcome = "none" /\ ~ file.executing

Claim(r) ==
  /\ At(r, "claim")
  /\ \/ /\ Claimable
        /\ file' = [file EXCEPT !.executing = TRUE]
        /\ Goes(r, IF kernel = "coder" THEN "prior" ELSE "act")
     \/ ~ Claimable /\ Returns(r) /\ UNCHANGED file
  /\ UNCHANGED <<kernel, listed, saved, people, history>>

(* The coder takes the stored result of the same operation, if there is    *)
(* one.                                                                    *)
Prior(r) ==
  /\ At(r, "prior")
  /\ IF saved THEN Settles(r, "success") ELSE Goes(r, "act")
  /\ UNCHANGED <<kernel, file, listed, saved, people, history>>

(* The tool performs the action, fails, or refuses before it acts.         *)
Perform(r) ==
  /\ At(r, "act")
  /\ leaves' = [f \in Forms |->
       IF f = run[r].form /\ leaves[f] > 0 THEN leaves[f] - 1 ELSE leaves[f]]
  /\ IF kernel = "coder" THEN Goes(r, "save") ELSE Settles(r, "success")
  /\ UNCHANGED <<kernel, file, listed, saved, people, approved, overlapped>>

Fail(r) ==
  /\ At(r, "act")
  /\ Settles(r, "failed") \/ Goes(r, "release")
  /\ UNCHANGED <<kernel, file, listed, saved, people, history>>

Save(r) ==
  /\ At(r, "save")
  /\ saved' = TRUE
  /\ Settles(r, "success")
  /\ UNCHANGED <<kernel, file, listed, people, history>>

(* The tool of the coder, which claims and settles by itself, is stopped   *)
(* when the step's time runs out: the claim stays.                         *)
BreakOff(r) ==
  /\ kernel = "coder"
  /\ run[r].at \in {"act", "save"}
  /\ Returns(r)
  /\ UNCHANGED <<kernel, file, listed, saved, people, history>>

(* The outcome is written before the claim is taken off.                   *)
Settle(r) ==
  /\ At(r, "settle")
  /\ file' = [file EXCEPT !.outcome = run[r].outcome]
  /\ Goes(r, "release")
  /\ UNCHANGED <<kernel, listed, saved, people, history>>

(* Taking the claim off ends a settlement, and is all that a refusal does. *)
Release(r) ==
  /\ At(r, "release")
  /\ file' = [file EXCEPT !.executing = FALSE]
  /\ Returns(r)
  /\ UNCHANGED <<kernel, listed, saved, people, history>>

Crash(r) ==
  /\ ~ At(r, "idle")
  /\ Stops(r)
  /\ UNCHANGED <<kernel, file, listed, saved, people, history>>

-----------------------------------------------------------------------------
(* People                                                                  *)

(* record_decision reads the record and checks the approver against the    *)
(* policy in force; anyone may decline.                                    *)
Hear(p, decision) ==
  /\ word[p] = NoWord
  /\ listed /\ file.form # NoForm
  /\ decision = "approved" => Accepts(p)
  /\ word' = [word EXCEPT ![p] = [decision |-> decision, form |-> file.form]]
  /\ UNCHANGED <<kernel, file, listed, saved, run, accepted, reconciler,
                 history>>

(* Then it closes the record, if that is still pending: the first decision *)
(* stands.                                                                 *)
Decide(p) ==
  /\ word[p] # NoWord
  /\ word' = [word EXCEPT ![p] = NoWord]
  /\ IF file.status = "pending"
     THEN /\ file' = [file EXCEPT !.status = "resolved", !.by = p,
                                  !.decision = word[p].decision]
          /\ IF word[p].decision = "approved" /\ file.form # NoForm
             THEN /\ leaves' = [leaves EXCEPT ![file.form] = 1]
                  /\ approved' = approved \cup {file.form}
             ELSE UNCHANGED <<leaves, approved>>
     ELSE UNCHANGED <<file, leaves, approved>>
  /\ UNCHANGED <<kernel, listed, saved, run, accepted, reconciler, overlapped>>

(* The institution's policy changes.                                       *)
Amend(A) ==
  /\ kernel = "coder" /\ A # accepted
  /\ accepted' = A
  /\ UNCHANGED <<kernel, file, listed, saved, run, word, reconciler, history>>

(* A person who found out settles an action whose outcome is unknown, or   *)
(* lets it run again.                                                      *)
Reconcile ==
  /\ reconciler = "idle"
  /\ listed /\ file.executing /\ file.outcome = "none"
  /\ \A f \in Forms : leaves[f] < MaxLeaves
  /\ reconciler' \in {"settle", "free"}
  /\ overlapped' = (overlapped \/ Busy)
  /\ UNCHANGED <<kernel, file, listed, saved, run, accepted, word, leaves,
                 approved>>

(* Mutant: an action somebody found performed is only set free.            *)
MutantReconcileSettle ==
  /\ reconciler = "settle"
  /\ reconciler' = "release"
  /\ UNCHANGED <<kernel, file, listed, saved, run, accepted, word, history>>

ReconcileSettle ==
  /\ reconciler = "settle"
  /\ file' = [file EXCEPT !.outcome = "success"]
  /\ reconciler' = "release"
  /\ UNCHANGED <<kernel, listed, saved, run, accepted, word, history>>

ReconcileRelease ==
  /\ reconciler \in {"free", "release"}
  /\ file' = [file EXCEPT !.executing = FALSE]
  /\ leaves' = [f \in Forms |->
       IF reconciler = "free" /\ f = file.form THEN leaves[f] + 1
       ELSE leaves[f]]
  /\ reconciler' = "idle"
  /\ UNCHANGED <<kernel, listed, saved, run, accepted, word, approved,
                 overlapped>>

-----------------------------------------------------------------------------
Init ==
  /\ kernel \in Kernels
  /\ file = NoFile /\ listed = FALSE /\ saved = FALSE
  /\ accepted = People
  /\ run = [r \in Runs |-> Idle]
  /\ word = [p \in People |-> NoWord]
  /\ reconciler = "idle"
  /\ leaves = [f \in Forms |-> 0] /\ approved = {} /\ overlapped = FALSE

AskNext(r) == AskDelete(r) \/ AskWrite(r) \/ AskList(r)

ReopenNext(r) == ReopenStatus(r) \/ ReopenClear(r)

ActNext(r) ==
  \/ Claim(r) \/ Prior(r) \/ Perform(r) \/ Fail(r) \/ BreakOff(r)
  \/ Save(r) \/ Settle(r) \/ Release(r)

RunNext(r) ==
  \/ Start(r) \/ Apply(r) \/ Gate(r) \/ Finish(r) \/ Crash(r)
  \/ \E f \in Forms : Propose(r, f)
  \/ AskNext(r) \/ ReopenNext(r) \/ ActNext(r)

PersonNext(p) ==
  Decide(p) \/ \E decision \in {"approved", "rejected"} : Hear(p, decision)

Next ==
  \/ \E r \in Runs : RunNext(r)
  \/ \E p \in People : PersonNext(p)
  \/ \E A \in SUBSET People : Amend(A)
  \/ Reconcile \/ ReconcileSettle \/ ReconcileRelease

Spec == Init /\ [][Next]_vars

-----------------------------------------------------------------------------
(* Properties                                                              *)

Outcomes == {"none", "success", "failed", "declined", "not_performed"}

Places == {"idle", "apply", "turn", "gate", "ask", "write", "list", "reopen",
           "reclear", "claim", "prior", "act", "save", "settle", "release"}

Records ==
  [form : Forms \cup {NoForm}, status : {"none", "pending", "resolved"},
   decision : {"none", "approved", "rejected"}, by : People \cup {Nobody},
   outcome : Outcomes, executing : BOOLEAN]

(* The fields of the record and the places of a run take the values the    *)
(* code gives them.                                                        *)
TypeOK ==
  /\ kernel \in Kernels
  /\ file \in Records
  /\ listed \in BOOLEAN /\ saved \in BOOLEAN /\ overlapped \in BOOLEAN
  /\ accepted \subseteq People /\ approved \subseteq Forms
  /\ run \in [Runs -> [at : Places, form : Forms \cup {NoForm},
                       outcome : Outcomes, early : BOOLEAN]]
  /\ word \in [People -> [decision : {"none", "approved", "rejected"},
                          form : Forms \cup {NoForm}]]
  /\ reconciler \in {"idle", "settle", "free", "release"}
  /\ leaves \in [Forms -> Nat]

Performs(r) == At(r, "act") /\ run'[r].at \in {"save", "settle"}
                 /\ run'[r].outcome # "failed"

(* Nothing is performed in a form that nobody ever approved, whatever the  *)
(* runs, the people and the policy do meanwhile.                           *)
NothingUnapproved ==
  [][\A r \in Runs : Performs(r) => run[r].form \in approved]_vars

(* As long as runs of the step and reconciliations follow one another,     *)
(* each approval of a form, and each time a person frees it again, lets it *)
(* be performed once, also by runs that die anywhere.                      *)
OncePerLeave ==
  [][\A r \in Runs :
       Performs(r) /\ ~ overlapped => leaves[run[r].form] > 0]_vars

Holds(r) == run[r].at \in {"prior", "act", "save", "settle", "release"}

(* An action that was started by a run that ended before it recorded the   *)
(* outcome stays as it is until a person reconciles it.                    *)
UnknownIsReconciled ==
  [][file.executing /\ file.outcome = "none" /\ (\A r \in Runs : ~ Holds(r))
       => file' = file \/ reconciler' # reconciler]_vars
=============================================================================
