------------------------- MODULE HumanDecisionProofs -------------------------
(* Types, and that nothing is performed in a form that nobody approved.    *)
EXTENDS HumanDecision, TLAPS

RunStates ==
  [at : Places, form : Forms \cup {NoForm}, outcome : Outcomes,
   early : BOOLEAN]

(* Moving a run on keeps the types of the runs.                            *)
LEMMA RunTypes ==
  ASSUME run \in [Runs -> RunStates], NEW r \in Runs
  PROVE  /\ run[r] \in RunStates
         /\ \A place \in Places :
              Goes(r, place) => run' \in [Runs -> RunStates]
         /\ \A outcome \in Outcomes :
              Settles(r, outcome) => run' \in [Runs -> RunStates]
         /\ \A f \in Forms \cup {NoForm}, place \in Places :
              run' = [run EXCEPT ![r].at = place, ![r].form = f]
                => run' \in [Runs -> RunStates]
         /\ \A f \in Forms \cup {NoForm} :
              run' = [run EXCEPT ![r].at = "apply", ![r].form = f,
                                 ![r].early = TRUE]
                => run' \in [Runs -> RunStates]
         /\ Returns(r) \/ Stops(r) => run' \in [Runs -> RunStates]
<1>1. run[r] \in RunStates
  OBVIOUS
<1>2. \A place \in Places : [run[r] EXCEPT !.at = place] \in RunStates
  BY <1>1 DEF RunStates
<1>3. ASSUME NEW outcome \in Outcomes
      PROVE [run[r] EXCEPT !.at = "settle", !.outcome = outcome] \in RunStates
  BY <1>1, <1>3 DEF RunStates, Places
<1>4. \A f \in Forms \cup {NoForm}, place \in Places :
        [run[r] EXCEPT !.at = place, !.form = f] \in RunStates
  BY <1>1 DEF RunStates
<1>5. Idle \in RunStates /\ [Idle EXCEPT !.at = "turn"] \in RunStates
  BY DEF Idle, RunStates, Places, Outcomes
<1>6. \A f \in Forms \cup {NoForm} :
        [run[r] EXCEPT !.at = "apply", !.form = f, !.early = TRUE] \in RunStates
  BY <1>1 DEF RunStates, Places
<1> QED
  BY <1>1, <1>2, <1>3, <1>4, <1>5, <1>6 DEF Goes, Settles, Returns, Stops

(* Writing fields of the record keeps its type.                            *)
LEMMA FileTypes ==
  ASSUME file \in Records
  PROVE  /\ NoFile \in Records
         /\ \A f \in Forms \cup {NoForm} :
              [file EXCEPT !.form = f, !.status = "pending"] \in Records
         /\ [file EXCEPT !.status = "pending"] \in Records
         /\ [file EXCEPT !.decision = "none", !.by = Nobody] \in Records
         /\ \A b \in BOOLEAN : [file EXCEPT !.executing = b] \in Records
         /\ \A o \in Outcomes : [file EXCEPT !.outcome = o] \in Records
         /\ \A p \in People, d \in {"none", "approved", "rejected"} :
              [file EXCEPT !.status = "resolved", !.by = p, !.decision = d]
                \in Records
  BY DEF Records, NoFile, Outcomes

TypeOK1 ==
  /\ kernel \in Kernels
  /\ listed \in BOOLEAN /\ saved \in BOOLEAN /\ overlapped \in BOOLEAN
  /\ accepted \subseteq People /\ approved \subseteq Forms
  /\ word \in [People -> [decision : {"none", "approved", "rejected"},
                          form : Forms \cup {NoForm}]]
  /\ reconciler \in {"idle", "settle", "free", "release"}
  /\ leaves \in [Forms -> Nat]

(* Every step keeps the types: the fields of the record, the places of the *)
(* runs, the words of the people.                                          *)
LEMMA TypeStep == TypeOK /\ [Next]_vars => TypeOK'
<1> SUFFICES ASSUME TypeOK, [Next]_vars PROVE TypeOK'
  OBVIOUS
<1> USE DEF people, history
<1>t. /\ run \in [Runs -> RunStates] /\ file \in Records /\ TypeOK1
      /\ run' \in [Runs -> RunStates] /\ file' \in Records /\ TypeOK1'
           => TypeOK'
  BY DEF TypeOK, TypeOK1, RunStates
<1>0. ASSUME NEW r \in Runs
      PROVE  /\ run[r] \in RunStates
             /\ \A place \in Places :
                  Goes(r, place) => run' \in [Runs -> RunStates]
             /\ \A outcome \in Outcomes :
                  Settles(r, outcome) => run' \in [Runs -> RunStates]
             /\ \A f \in Forms \cup {NoForm}, place \in Places :
                  run' = [run EXCEPT ![r].at = place, ![r].form = f]
                    => run' \in [Runs -> RunStates]
             /\ \A f \in Forms \cup {NoForm} :
                  run' = [run EXCEPT ![r].at = "apply", ![r].form = f,
                                     ![r].early = TRUE]
                    => run' \in [Runs -> RunStates]
             /\ Returns(r) \/ Stops(r) => run' \in [Runs -> RunStates]
  BY <1>t, RunTypes
<1>1. ASSUME NEW r \in Runs, Start(r) PROVE TypeOK'
  <2>1. run' \in [Runs -> RunStates]
    <3>1. CASE Returns(r) \/ Settles(r, "declined")
      BY <1>0, <3>1 DEF Outcomes
    <3>2. CASE run' = [run EXCEPT ![r].at = "apply", ![r].form = file.form,
                                   ![r].early = TRUE]
      <4>1. file.form \in Forms \cup {NoForm}
        BY <1>t DEF Records
      <4> QED BY <1>0, <3>2, <4>1
    <3> QED BY <1>1, <3>1, <3>2 DEF Start
  <2>2. overlapped' \in BOOLEAN
    BY <1>t, <1>1 DEF Start, TypeOK1
  <2> QED BY <1>t, <1>1, <2>1, <2>2 DEF Start, TypeOK1
<1>2. ASSUME NEW r \in Runs, Apply(r) \/ Gate(r) \/ Finish(r) \/ Crash(r)
      PROVE TypeOK'
  BY <1>t, <1>0, <1>2 DEF Apply, Gate, Pauses, Finish, Crash, TypeOK1, Places, Outcomes
<1>4. ASSUME NEW r \in Runs, NEW f \in Forms, Propose(r, f) PROVE TypeOK'
  BY <1>t, <1>0, <1>4 DEF Propose, TypeOK1, Places
<1>5. ASSUME NEW r \in Runs, AskNext(r) PROVE TypeOK'
  <2>1. CASE AskDelete(r)
    BY <1>t, <1>0, <2>1, FileTypes DEF AskDelete, TypeOK1, Places
  <2>2. CASE AskWrite(r)
    <3>1. file' \in Records
      BY <1>t, <1>0, <2>2, FileTypes DEF AskWrite, RunStates
    <3> QED BY <1>t, <1>0, <2>2, <3>1 DEF AskWrite, TypeOK1, Places
  <2>3. CASE AskList(r)
    BY <1>t, <1>0, <2>3 DEF AskList, Pauses, TypeOK1
  <2> QED BY <1>5, <2>1, <2>2, <2>3 DEF AskNext
<1>6. ASSUME NEW r \in Runs, ReopenNext(r) PROVE TypeOK'
  <2>1. CASE ReopenStatus(r)
    BY <1>t, <1>0, <2>1, FileTypes DEF ReopenStatus, TypeOK1, Places
  <2>2. CASE ReopenClear(r)
    BY <1>t, <1>0, <2>2, FileTypes DEF ReopenClear, Pauses, TypeOK1
  <2> QED BY <1>6, <2>1, <2>2 DEF ReopenNext
<1>7. ASSUME NEW r \in Runs, ActNext(r) PROVE TypeOK'
  <2>1. CASE Claim(r) \/ Prior(r)
    BY <1>t, <1>0, <2>1, FileTypes DEF Claim, Prior, TypeOK1, Places, Outcomes
  <2>2. CASE Perform(r)
    <3>1. leaves' \in [Forms -> Nat]
      BY <1>t, <2>2 DEF Perform, TypeOK1
    <3>2. run' \in [Runs -> RunStates]
      BY <1>0, <2>2 DEF Perform, Places, Outcomes
    <3> QED BY <1>t, <2>2, <3>1, <3>2 DEF Perform, TypeOK1
  <2>3. CASE Fail(r) \/ BreakOff(r) \/ Save(r)
    BY <1>t, <1>0, <2>3 DEF Fail, BreakOff, Save, TypeOK1, Places, Outcomes
  <2>4. CASE Settle(r)
    <3>1. run[r].outcome \in Outcomes
      BY <1>0 DEF RunStates
    <3> QED
      BY <1>t, <1>0, <2>4, <3>1, FileTypes DEF Settle, TypeOK1, Places
  <2>5. CASE Release(r)
    BY <1>t, <1>0, <2>5, FileTypes DEF Release, TypeOK1
  <2> QED BY <1>7, <2>1, <2>2, <2>3, <2>4, <2>5 DEF ActNext
<1>8. ASSUME NEW p \in People, NEW d \in {"approved", "rejected"}, Hear(p, d)
      PROVE TypeOK'
  BY <1>t, <1>8 DEF Hear, TypeOK1, Records
<1>9. ASSUME NEW p \in People, Decide(p) PROVE TypeOK'
  <2>1. /\ word[p].decision \in {"none", "approved", "rejected"}
        /\ NoWord \in [decision : {"none", "approved", "rejected"},
                       form : Forms \cup {NoForm}]
    BY <1>t DEF TypeOK1, NoWord
  <2>2. word' \in [People -> [decision : {"none", "approved", "rejected"},
                              form : Forms \cup {NoForm}]]
    BY <1>t, <1>9, <2>1 DEF Decide, TypeOK1
  <2>3. file' \in Records
    BY <1>t, <1>9, <2>1, FileTypes DEF Decide
  <2>4. leaves' \in [Forms -> Nat] /\ approved' \subseteq Forms
    BY <1>t, <1>9 DEF Decide, TypeOK1, Records
  <2> QED BY <1>t, <1>9, <2>2, <2>3, <2>4 DEF Decide, TypeOK1
<1>10. ASSUME NEW A \in SUBSET People, Amend(A) PROVE TypeOK'
  BY <1>t, <1>10 DEF Amend, TypeOK1
<1>11. CASE Reconcile \/ ReconcileSettle
  BY <1>t, <1>11, FileTypes DEF Reconcile, ReconcileSettle, TypeOK1, Outcomes
<1>12. CASE ReconcileRelease
  <2>1. leaves' \in [Forms -> Nat]
    BY <1>t, <1>12 DEF ReconcileRelease, TypeOK1
  <2>2. file' \in Records
    BY <1>t, <1>12, FileTypes DEF ReconcileRelease
  <2> QED BY <1>t, <1>12, <2>1, <2>2 DEF ReconcileRelease, TypeOK1
<1>13. CASE UNCHANGED vars
  BY <1>t, <1>13 DEF vars, TypeOK1
<1> QED
  BY <1>1, <1>2, <1>4, <1>5, <1>6, <1>7, <1>8, <1>9, <1>10, <1>11, <1>12,
     <1>13 DEF Next, RunNext, PersonNext

(* The initial state has its types.                                        *)
LEMMA TypeInit == Init => TypeOK
<1> SUFFICES ASSUME Init PROVE TypeOK
  OBVIOUS
<1>1. file \in Records
  BY DEF Init, Records, NoFile, Outcomes
<1>2. run \in [Runs -> RunStates]
  BY DEF Init, RunStates, Idle, Places, Outcomes
<1>3. word \in [People -> [decision : {"none", "approved", "rejected"},
                          form : Forms \cup {NoForm}]]
  BY DEF Init, NoWord
<1> QED
  BY <1>1, <1>2, <1>3 DEF Init, TypeOK, RunStates

(* The type invariant holds of every reachable state.                      *)
THEOREM DecisionTypeCorrect == Spec => []TypeOK
  BY TypeInit, TypeStep, PTL DEF Spec

-----------------------------------------------------------------------------
(* A record that says approved names a form somebody approved, and a run   *)
(* that got past the gate is in an approved form, however the record       *)
(* changed since.                                                          *)
ApprovedForms ==
  /\ Approved => file.form \in approved \cup {NoForm}
  /\ \A r \in Runs :
       /\ run[r].at \in {"apply", "gate"} => run[r].form # NoForm
       /\ run[r].at \in {"claim", "prior", "act"} => run[r].form \in approved

Inv == TypeOK /\ ApprovedForms

(* What a step of a run does to the forms: the gate lets only the approved *)
(* form pass.                                                              *)
LEMMA GatePasses ==
  ASSUME Inv, NEW r \in Runs, Gate(r)
  PROVE  run'[r].at = "claim" => run'[r].form \in approved
<1>1. /\ run[r].form \in Forms \cup {NoForm} /\ run[r].form # NoForm
      /\ run[r] \in RunStates /\ run \in [Runs -> RunStates]
  BY DEF Inv, ApprovedForms, TypeOK, Gate, At, RunStates
<1>2. ASSUME NEW place, Goes(r, place)
      PROVE  run'[r].at = place /\ run'[r].form = run[r].form
  BY <1>1, <1>2 DEF Goes, RunStates
<1>3. CASE Goes(r, "ask") \/ Goes(r, "reopen")
  BY <1>2, <1>3
<1>4. CASE Returns(r) \/ Stops(r)
  BY <1>1, <1>4 DEF Returns, Stops, Idle
<1>5. CASE /\ ~ AsksAgain(run[r].form)
           /\ Approved /\ file.outcome = "none" /\ Goes(r, "claim")
  BY <1>1, <1>2, <1>5 DEF AsksAgain, Inv, ApprovedForms
<1> QED
  BY <1>3, <1>4, <1>5 DEF Gate, Pauses

(* Every step keeps the invariant.                                         *)
LEMMA InvStep == Inv /\ [Next]_vars => Inv'
<1> SUFFICES ASSUME Inv, [Next]_vars PROVE Inv'
  OBVIOUS
<1> USE DEF people, history
<1>t. TypeOK' /\ run \in [Runs -> RunStates]
  BY TypeStep DEF Inv, TypeOK, RunStates
<1>0. SUFFICES ApprovedForms'
  BY <1>t DEF Inv
(* A run that moves to a place neither past the gate nor before it, or     *)
(* keeps its form on the way, is in order.                                 *)
<1>m. ASSUME NEW r \in Runs,
             \/ Returns(r) \/ Stops(r)
             \/ \E outcome : Settles(r, outcome)
             \/ \E place : /\ Goes(r, place)
                           /\ place \in {"apply", "gate"}
                                => run[r].at \in {"apply", "gate"}
                           /\ place \in {"claim", "prior", "act"}
                                => run[r].at \in {"claim", "prior", "act"},
             approved \subseteq approved'
      PROVE  \A s \in Runs :
               /\ run'[s].at \in {"apply", "gate"} => run'[s].form # NoForm
               /\ run'[s].at \in {"claim", "prior", "act"}
                    => run'[s].form \in approved'
  <2>1. CASE Returns(r) \/ Stops(r)
    BY <1>t, <1>m, <2>1 DEF Inv, ApprovedForms, Returns, Stops, Idle, RunStates
  <2>2. CASE \E outcome : Settles(r, outcome)
    BY <1>t, <1>m, <2>2 DEF Inv, ApprovedForms, Settles, RunStates
  <2>3. ASSUME NEW place, Goes(r, place),
               place \in {"apply", "gate"} => run[r].at \in {"apply", "gate"},
               place \in {"claim", "prior", "act"}
                 => run[r].at \in {"claim", "prior", "act"}
        PROVE  \A s \in Runs :
                 /\ run'[s].at \in {"apply", "gate"} => run'[s].form # NoForm
                 /\ run'[s].at \in {"claim", "prior", "act"}
                      => run'[s].form \in approved'
    BY <1>t, <1>m, <2>3 DEF Inv, ApprovedForms, Goes, RunStates
  <2> QED BY <1>m, <2>1, <2>2, <2>3
(* A record whose status, decision and form stay, or that is not resolved, *)
(* is in order.                                                            *)
<1>f. ASSUME approved \subseteq approved',
             \/ file' = file
             \/ file'.status # "resolved" \/ file'.decision # "approved"
             \/ /\ file'.status = file.status /\ file'.form = file.form
                /\ file'.decision = file.decision
      PROVE  Approved' => file'.form \in approved' \cup {NoForm}
  BY <1>f DEF Inv, ApprovedForms, Approved
<1>1. ASSUME NEW r \in Runs, Start(r) PROVE ApprovedForms'
  <2>1. CASE Returns(r) \/ Settles(r, "declined")
    BY <1>1, <1>m, <1>f, <2>1 DEF Start, ApprovedForms
  <2>2. CASE /\ run' = [run EXCEPT ![r].at = "apply", ![r].form = file.form,
                                   ![r].early = TRUE]
             /\ file.form # NoForm
    BY <1>1, <1>t, <1>f, <2>2 DEF Start, Inv, ApprovedForms, RunStates
  <2> QED BY <1>1, <2>1, <2>2 DEF Start, Unsettled
<1>2. ASSUME NEW r \in Runs, Apply(r) \/ Finish(r) \/ Crash(r)
      PROVE ApprovedForms'
  BY <1>2, <1>m, <1>f DEF Apply, Finish, Crash, At, ApprovedForms
<1>3. ASSUME NEW r \in Runs, Gate(r) PROVE ApprovedForms'
  <2>1. \A s \in Runs : s # r => run'[s] = run[s]
    BY <1>3, <1>t DEF Gate, Goes, Pauses, Returns, Stops
  <2>2. run'[r].at \notin {"apply", "gate", "prior", "act"}
    BY <1>3, <1>t DEF Gate, Goes, Pauses, Returns, Stops, Idle, RunStates
  <2> QED BY <1>3, <1>f, <2>1, <2>2, GatePasses DEF Gate, Inv, ApprovedForms
<1>4. ASSUME NEW r \in Runs, NEW f \in Forms, Propose(r, f)
      PROVE ApprovedForms'
  BY <1>4, <1>t, <1>f, NoneAssumption
     DEF Propose, Inv, ApprovedForms, RunStates
<1>5. ASSUME NEW r \in Runs, AskNext(r) PROVE ApprovedForms'
  <2>1. CASE AskDelete(r)
    BY <2>1, <1>m, <1>f DEF AskDelete, NoFile, ApprovedForms
  <2>2. CASE AskWrite(r)
    BY <2>2, <1>m, <1>f DEF AskWrite, ApprovedForms, Inv, TypeOK, Records
  <2>3. CASE AskList(r)
    BY <2>3, <1>m, <1>f DEF AskList, Pauses, ApprovedForms
  <2> QED BY <1>5, <2>1, <2>2, <2>3 DEF AskNext
<1>6. ASSUME NEW r \in Runs, ReopenNext(r) PROVE ApprovedForms'
  <2>1. CASE ReopenStatus(r)
    BY <2>1, <1>m, <1>f DEF ReopenStatus, ApprovedForms, Inv, TypeOK, Records
  <2>2. CASE ReopenClear(r)
    BY <2>2, <1>m, <1>f DEF ReopenClear, Pauses, ApprovedForms, Inv, TypeOK, Records
  <2> QED BY <1>6, <2>1, <2>2 DEF ReopenNext
<1>7. ASSUME NEW r \in Runs, ActNext(r) PROVE ApprovedForms'
  <2>1. CASE Claim(r)
    <3>1. Approved' => file'.form \in approved' \cup {NoForm}
      BY <2>1, <1>f DEF Claim, Inv, TypeOK, Records
    <3> QED BY <2>1, <1>m, <3>1 DEF Claim, At, ApprovedForms
  <2>2. CASE Prior(r) \/ Perform(r) \/ Fail(r) \/ BreakOff(r) \/ Save(r)
    BY <2>2, <1>m, <1>f DEF Prior, Perform, Fail, BreakOff, Save, At, ApprovedForms
  <2>3. CASE Settle(r) \/ Release(r)
    <3>1. Approved' => file'.form \in approved' \cup {NoForm}
      BY <2>3, <1>f DEF Settle, Release, Inv, TypeOK, Records
    <3> QED BY <2>3, <1>m, <3>1 DEF Settle, Release, ApprovedForms
  <2> QED BY <1>7, <2>1, <2>2, <2>3 DEF ActNext
<1>8. ASSUME NEW p \in People, NEW d \in {"approved", "rejected"}, Hear(p, d)
      PROVE ApprovedForms'
  BY <1>8, <1>f DEF Hear, Inv, ApprovedForms
<1>9. ASSUME NEW p \in People, Decide(p) PROVE ApprovedForms'
  <2>1. file \in Records
    BY DEF Inv, TypeOK
  <2>2. Approved' => file'.form \in approved' \cup {NoForm}
    BY <1>9, <2>1, <1>f DEF Decide, Approved, Records
  <2>3. approved \subseteq approved'
    BY <1>9 DEF Decide
  <2> QED BY <1>9, <2>2, <2>3 DEF Decide, Inv, ApprovedForms
<1>10. ASSUME NEW A \in SUBSET People, Amend(A) PROVE ApprovedForms'
  BY <1>10, <1>f DEF Amend, Inv, ApprovedForms
<1>11. CASE Reconcile \/ ReconcileSettle \/ ReconcileRelease
  <2>1. Approved' => file'.form \in approved' \cup {NoForm}
    BY <1>11, <1>f DEF Reconcile, ReconcileSettle, ReconcileRelease, Inv,
                       TypeOK, Records
  <2> QED BY <1>11, <2>1 DEF Reconcile, ReconcileSettle, ReconcileRelease,
                             Inv, ApprovedForms
<1>12. CASE UNCHANGED vars
  BY <1>12, <1>f DEF vars, Inv, ApprovedForms
<1> QED
  BY <1>1, <1>2, <1>3, <1>4, <1>5, <1>6, <1>7, <1>8, <1>9, <1>10, <1>11,
     <1>12 DEF Next, RunNext, PersonNext

(* Nothing is performed in a form that nobody ever approved.               *)
THEOREM NothingPerformedUnapproved == Spec => NothingUnapproved
<1>1. Init => TypeOK
  BY TypeInit
<1>2. Init => ApprovedForms
  BY DEF Init, ApprovedForms, Approved, NoFile, Idle
<1>3. Inv /\ [Next]_vars
        => [\A r \in Runs : Performs(r) => run[r].form \in approved]_vars
  BY DEF Inv, ApprovedForms, Performs, At
<1> QED
  BY <1>1, <1>2, <1>3, InvStep, PTL DEF Spec, Inv, NothingUnapproved

-----------------------------------------------------------------------------
(* While runs and reconciliations follow one another, an approved record   *)
(* that nobody carries out has a leave left, and so has the run that       *)
(* carries one out.                                                        *)
OneAtWork ==
  \A r \in Runs : ~ At(r, "idle") =>
    reconciler = "idle" /\ \A s \in Runs \ {r} : At(s, "idle")

FreeLeave == Claimable /\ file.form # NoForm => leaves[file.form] > 0

RunLeave(r) ==
  /\ run[r].at \in {"claim", "prior", "act"} => file.form = run[r].form
  /\ run[r].at \in {"prior", "act"}
       => file.executing /\ leaves[run[r].form] > 0
  /\ At(r, "release") /\ file.outcome = "none" /\ file.form # NoForm
       => leaves[file.form] > 0
  /\ At(r, "settle") => run[r].outcome # "none"

Settled == reconciler = "release" => file.outcome # "none"

Alone ==
  ~ overlapped =>
    OneAtWork /\ FreeLeave /\ Settled /\ \A r \in Runs : RunLeave(r)

(* Where a run is after it moved, and that the others stay.                *)
LEMMA Moves ==
  ASSUME run \in [Runs -> RunStates], NEW r \in Runs
  PROVE  /\ \A place : Goes(r, place) =>
              run'[r].at = place /\ run'[r].form = run[r].form
         /\ \A o : Settles(r, o) =>
              run'[r].at = "settle" /\ run'[r].outcome = o
         /\ Returns(r) => run'[r].at = "turn"
         /\ Stops(r) => run'[r].at = "idle"
         /\ Returns(r) \/ Stops(r) \/ (\E place : Goes(r, place))
              \/ (\E o : Settles(r, o))
              => \A s \in Runs \ {r} : run'[s] = run[s]
<1>1. run[r] \in RunStates
  OBVIOUS
<1>2. ASSUME NEW place, Goes(r, place)
      PROVE  /\ run'[r].at = place /\ run'[r].form = run[r].form
             /\ \A s \in Runs \ {r} : run'[s] = run[s]
  BY <1>1, <1>2 DEF Goes, RunStates
<1>3. ASSUME NEW o, Settles(r, o)
      PROVE  /\ run'[r].at = "settle" /\ run'[r].outcome = o
             /\ \A s \in Runs \ {r} : run'[s] = run[s]
  BY <1>1, <1>3 DEF Settles, RunStates
<1>4. Returns(r) => /\ run'[r].at = "turn"
                    /\ \A s \in Runs \ {r} : run'[s] = run[s]
  BY DEF Returns, Idle
<1>5. Stops(r) => /\ run'[r].at = "idle"
                  /\ \A s \in Runs \ {r} : run'[s] = run[s]
  BY DEF Stops, Idle
<1> QED
  BY <1>2, <1>3, <1>4, <1>5

(* Every step keeps the leaves.                                            *)
LEMMA AloneStep == Inv /\ Alone /\ [Next]_vars => Alone'
<1> SUFFICES ASSUME Inv, Alone, [Next]_vars, ~ overlapped'
             PROVE  (OneAtWork /\ FreeLeave /\ Settled
                       /\ \A r \in Runs : RunLeave(r))'
  BY DEF Alone
<1> USE DEF people, history
<1>t. /\ run \in [Runs -> RunStates] /\ file \in Records
      /\ leaves \in [Forms -> Nat] /\ approved \subseteq Forms
  BY DEF Inv, TypeOK, RunStates
(* A run that is at work is the only one, so that it need only be in order *)
(* itself after its step.                                                  *)
<1>w. ASSUME NEW r \in Runs, ~ At(r, "idle"), ~ overlapped,
             \A s \in Runs \ {r} : run'[s] = run[s],
             reconciler' = reconciler, FreeLeave', RunLeave(r)'
      PROVE  (OneAtWork /\ FreeLeave /\ Settled
                /\ \A s \in Runs : RunLeave(s))'
  <2>1. reconciler' = "idle" /\ \A s \in Runs \ {r} : run'[s].at = "idle"
    BY <1>w DEF Alone, OneAtWork, At
  <2>2. \A s \in Runs \ {r} : RunLeave(s)'
    BY <2>1 DEF RunLeave, At
  <2> QED BY <1>w, <2>1, <2>2 DEF OneAtWork, Settled, At
(* A step that leaves the record and the leaves alone.                     *)
<1>k. ASSUME file' = file, leaves' = leaves, ~ overlapped PROVE FreeLeave'
  BY <1>k DEF Alone, FreeLeave, Claimable, Approved
(* Where nobody is at work there is nothing to show of the runs.           *)
<1>i. ASSUME \A r \in Runs : At(r, "idle"), run' = run, FreeLeave', Settled'
      PROVE  (OneAtWork /\ FreeLeave /\ Settled
                /\ \A s \in Runs : RunLeave(s))'
  BY <1>i DEF OneAtWork, RunLeave, At
<1>1. ASSUME NEW r \in Runs, Start(r)
      PROVE (OneAtWork /\ FreeLeave /\ Settled /\ \A s \in Runs : RunLeave(s))'
  <2>1. ~ overlapped /\ reconciler = "idle" /\ \A s \in Runs : At(s, "idle")
    BY <1>1 DEF Start, Busy
  <2>2. \A s \in Runs \ {r} : run'[s] = run[s]
    BY <1>1, <1>t, Moves DEF Start
  <2>3. \/ run'[r].at \in {"turn", "apply"}
        \/ run'[r].at = "settle" /\ run'[r].outcome # "none"
    BY <1>1, <1>t, Moves DEF Start, RunStates
  <2>4. \A s \in Runs : RunLeave(s)'
    BY <2>1, <2>2, <2>3 DEF RunLeave, At
  <2>5. OneAtWork'
    BY <1>1, <2>1, <2>2 DEF OneAtWork, At, Start
  <2> QED BY <1>1, <1>k, <2>1, <2>4, <2>5 DEF Start, Settled
<1>2. ASSUME NEW r \in Runs, Apply(r) \/ Finish(r) \/ Crash(r)
      PROVE (OneAtWork /\ FreeLeave /\ Settled /\ \A s \in Runs : RunLeave(s))'
  <2>1. RunLeave(r)'
    BY <1>2, <1>t, Moves DEF Apply, Finish, Crash, RunLeave, At
  <2>2. \A s \in Runs \ {r} : run'[s] = run[s]
    BY <1>2, <1>t, Moves DEF Apply, Finish, Crash
  <2> QED BY <1>2, <1>w, <1>k, <2>1, <2>2 DEF Apply, Finish, Crash, At
<1>3. ASSUME NEW r \in Runs, Gate(r)
      PROVE (OneAtWork /\ FreeLeave /\ Settled /\ \A s \in Runs : RunLeave(s))'
  <2>1. RunLeave(r)'
    <3>1. CASE Goes(r, "ask") \/ Goes(r, "reopen") \/ Returns(r) \/ Stops(r)
      BY <3>1, <1>t, Moves DEF RunLeave, At
    <3>2. CASE ~ AsksAgain(run[r].form) /\ file.outcome = "none"
                 /\ Goes(r, "claim")
      BY <3>2, <1>3, <1>t, Moves DEF RunLeave, At, AsksAgain, Gate
    <3> QED BY <1>3, <3>1, <3>2 DEF Gate, Pauses
  <2>2. \A s \in Runs \ {r} : run'[s] = run[s]
    BY <1>3, <1>t, Moves DEF Gate, Pauses
  <2> QED BY <1>3, <1>w, <1>k, <2>1, <2>2 DEF Gate, At
<1>4. ASSUME NEW r \in Runs, NEW f \in Forms, Propose(r, f)
      PROVE (OneAtWork /\ FreeLeave /\ Settled /\ \A s \in Runs : RunLeave(s))'
  <2>1. run'[r].at = "gate" /\ \A s \in Runs \ {r} : run'[s] = run[s]
    BY <1>4, <1>t DEF Propose, RunStates
  <2>2. RunLeave(r)'
    BY <2>1 DEF RunLeave, At
  <2> QED BY <1>4, <1>w, <1>k, <2>1, <2>2 DEF Propose, At
<1>5. ASSUME NEW r \in Runs, AskNext(r) \/ ReopenNext(r)
      PROVE (OneAtWork /\ FreeLeave /\ Settled /\ \A s \in Runs : RunLeave(s))'
  <2>1. RunLeave(r)' /\ \A s \in Runs \ {r} : run'[s] = run[s]
    BY <1>5, <1>t, Moves
       DEF AskNext, AskDelete, AskWrite, AskList, ReopenNext, ReopenStatus,
           ReopenClear, Pauses, RunLeave, At
  <2>2. ~ overlapped /\ ~ At(r, "idle") /\ reconciler' = reconciler
    BY <1>5 DEF AskNext, AskDelete, AskWrite, AskList, ReopenNext,
                ReopenStatus, ReopenClear, At
  <2>3. CASE AskDelete(r)
    <3>1. FreeLeave'
      BY <2>3 DEF AskDelete, FreeLeave, Claimable, Approved, NoFile
    <3> QED BY <1>w, <2>1, <2>2, <3>1
  <2>4. CASE AskWrite(r) \/ ReopenStatus(r) \/ ReopenClear(r)
    <3>1. FreeLeave'
      BY <2>4, <1>t DEF AskWrite, ReopenStatus, ReopenClear, FreeLeave,
                        Claimable, Approved, Records
    <3> QED BY <1>w, <2>1, <2>2, <3>1
  <2>5. CASE AskList(r)
    BY <2>5, <1>w, <1>k, <2>1, <2>2 DEF AskList
  <2> QED BY <1>5, <2>3, <2>4, <2>5 DEF AskNext, ReopenNext
<1>6. ASSUME NEW r \in Runs, ActNext(r)
      PROVE (OneAtWork /\ FreeLeave /\ Settled /\ \A s \in Runs : RunLeave(s))'
  <2>1. \A s \in Runs \ {r} : run'[s] = run[s]
    BY <1>6, <1>t, Moves
       DEF ActNext, Claim, Prior, Perform, Fail, BreakOff, Save, Settle, Release
  <2>2. ~ overlapped /\ ~ At(r, "idle") /\ reconciler' = reconciler
    BY <1>6 DEF ActNext, Claim, Prior, Perform, Fail, BreakOff, Save, Settle, Release,
                At
  <2>3. FreeLeave /\ RunLeave(r)
    BY <2>2 DEF Alone
  <2>4. CASE Claim(r)
    <3>1. CASE Claimable /\ file' = [file EXCEPT !.executing = TRUE]
      <4>1. /\ file'.form = file.form /\ file'.executing
            /\ file'.outcome = file.outcome
        BY <1>t, <3>1 DEF Records
      <4>2. run[r].form \in Forms /\ file.form = run[r].form
        BY <2>3, <2>4, <1>t
           DEF Claim, RunLeave, At, Inv, ApprovedForms
      <4>3. leaves[file.form] > 0
        BY <2>3, <3>1, <4>2, NoneAssumption DEF FreeLeave
      <4>4. /\ run'[r].at \in {"prior", "act"} \/ run'[r].at = "turn"
            /\ run'[r].at # "turn" => run'[r].form = run[r].form
        BY <2>4, <1>t, Moves DEF Claim
      <4>5. RunLeave(r)'
        BY <2>4, <4>1, <4>2, <4>3, <4>4 DEF RunLeave, At, Claim
      <4>6. FreeLeave'
        BY <4>1 DEF FreeLeave, Claimable
      <4> QED BY <1>w, <2>1, <2>2, <4>5, <4>6
    <3>2. CASE Returns(r) /\ UNCHANGED file
      <4>1. RunLeave(r)'
        BY <3>2, <1>t, Moves DEF RunLeave, At
      <4> QED BY <1>w, <1>k, <2>1, <2>2, <2>4, <3>2, <4>1 DEF Claim
    <3> QED BY <2>4, <3>1, <3>2 DEF Claim
  <2>5. CASE Prior(r)
    <3>1. RunLeave(r)'
      BY <2>5, <2>3, <1>t, Moves DEF Prior, RunLeave, At
    <3> QED BY <1>w, <1>k, <2>1, <2>2, <2>5, <3>1 DEF Prior
  <2>6. CASE Perform(r)
    <3>1. \/ run'[r].at = "save"
          \/ run'[r].at = "settle" /\ run'[r].outcome # "none"
      BY <2>6, <1>t, Moves DEF Perform
    <3>2. RunLeave(r)'
      BY <3>1 DEF RunLeave, At
    <3>3. FreeLeave'
      BY <2>3, <2>6 DEF Perform, At, RunLeave, FreeLeave, Claimable
    <3> QED BY <1>w, <2>1, <2>2, <3>2, <3>3
  <2>7. CASE Fail(r) \/ BreakOff(r) \/ Save(r)
    <3>1. RunLeave(r)'
      BY <2>7, <2>3, <1>t, Moves DEF Fail, BreakOff, Save, RunLeave, At
    <3> QED BY <1>w, <1>k, <2>1, <2>2, <2>7, <3>1 DEF Fail, BreakOff, Save
  <2>8. CASE Settle(r)
    <3>1. file'.outcome # "none"
      BY <2>3, <2>8, <1>t DEF Settle, RunLeave, At, Records
    <3>2. RunLeave(r)'
      BY <2>8, <3>1, <1>t, Moves DEF Settle, RunLeave, At
    <3>3. FreeLeave'
      BY <3>1 DEF FreeLeave, Claimable
    <3> QED BY <1>w, <2>1, <2>2, <3>2, <3>3
  <2>9. CASE Release(r)
    <3>1. /\ file'.form = file.form /\ file'.outcome = file.outcome
          /\ leaves' = leaves
      BY <2>9, <1>t DEF Release, Records
    <3>2. RunLeave(r)'
      BY <2>9, <1>t, Moves DEF Release, RunLeave, At
    <3>3. FreeLeave'
      BY <2>3, <2>9, <3>1 DEF Release, RunLeave, At, FreeLeave, Claimable
    <3> QED BY <1>w, <2>1, <2>2, <3>2, <3>3
  <2> QED BY <1>6, <2>4, <2>5, <2>6, <2>7, <2>8, <2>9 DEF ActNext
<1>7. ASSUME UNCHANGED <<file, run, reconciler, leaves, overlapped>>
      PROVE (OneAtWork /\ FreeLeave /\ Settled /\ \A s \in Runs : RunLeave(s))'
  BY <1>7 DEF Alone, OneAtWork, FreeLeave, Settled, RunLeave, At, Claimable,
              Approved
<1>8. ASSUME NEW p \in People, Decide(p)
      PROVE (OneAtWork /\ FreeLeave /\ Settled /\ \A s \in Runs : RunLeave(s))'
  <2>1. CASE UNCHANGED <<file, leaves>>
    BY <1>7, <1>8, <2>1 DEF Decide
  <2>2. CASE /\ file.status = "pending"
             /\ file' = [file EXCEPT !.status = "resolved", !.by = p,
                                     !.decision = word[p].decision]
    <3>1. /\ file'.form = file.form /\ file'.executing = file.executing
          /\ file'.outcome = file.outcome
          /\ file'.decision = word[p].decision
      BY <1>t, <2>2 DEF Records
    <3>2. \/ leaves' = leaves
          \/ leaves' = [leaves EXCEPT ![file.form] = 1]
      BY <1>8 DEF Decide
    <3>3. FreeLeave'
      BY <1>8, <1>t, <2>2, <3>1 DEF Decide, FreeLeave, Claimable, Approved, Records
    <3>4. ASSUME NEW f \in Forms, leaves[f] > 0 PROVE leaves'[f] > 0
      BY <1>t, <3>2, <3>4
    <3>5. OneAtWork /\ Settled /\ \A s \in Runs : RunLeave(s)
      BY <1>8 DEF Decide, Alone
    <3>6. ASSUME NEW s \in Runs PROVE RunLeave(s)'
      <4>1. run'[s] = run[s] /\ RunLeave(s)
        BY <1>8, <3>5 DEF Decide
      <4>2. run[s].at \in {"prior", "act"} => run[s].form \in Forms
        BY <1>t DEF Inv, ApprovedForms
      <4>3. file.form \in Forms \cup {NoForm}
        BY <1>t DEF Records
      <4> QED BY <3>1, <3>4, <4>1, <4>2, <4>3 DEF RunLeave, At
    <3> QED BY <1>8, <3>1, <3>3, <3>5, <3>6 DEF Decide, OneAtWork, Settled, At
  <2> QED BY <1>8, <2>1, <2>2 DEF Decide
<1>9. CASE Reconcile
  <2>1. ~ overlapped /\ \A s \in Runs : At(s, "idle")
    BY <1>9 DEF Reconcile, Busy
  <2>2. Settled'
    BY <1>9 DEF Reconcile, Settled
  <2> QED BY <1>9, <1>i, <1>k, <2>1, <2>2 DEF Reconcile
<1>10. CASE ReconcileSettle \/ ReconcileRelease
  <2>1. ~ overlapped /\ \A s \in Runs : At(s, "idle")
    BY <1>10 DEF ReconcileSettle, ReconcileRelease, Alone, OneAtWork
  <2>2. CASE ReconcileSettle
    <3>1. file'.outcome = "success"
      BY <1>t, <2>2 DEF ReconcileSettle, Records
    <3> QED BY <1>i, <2>1, <2>2, <3>1
               DEF ReconcileSettle, FreeLeave, Claimable, Settled
  <2>3. CASE ReconcileRelease
    <3>1. file'.form = file.form /\ file'.outcome = file.outcome
      BY <1>t, <2>3 DEF ReconcileRelease, Records
    <3>2. reconciler = "release" => file.outcome # "none"
      BY <2>1 DEF Alone, Settled
    <3>3. reconciler = "free" /\ file.form # NoForm => leaves'[file.form] > 0
      BY <1>t, <2>3 DEF ReconcileRelease, Records
    <3>4. FreeLeave'
      BY <2>3, <3>1, <3>2, <3>3 DEF ReconcileRelease, FreeLeave, Claimable
    <3> QED BY <1>i, <2>1, <2>3, <3>4 DEF ReconcileRelease, Settled
  <2> QED BY <1>10, <2>2, <2>3
<1>11. ASSUME NEW p \in People, NEW d \in {"approved", "rejected"}, Hear(p, d)
       PROVE (OneAtWork /\ FreeLeave /\ Settled /\ \A s \in Runs : RunLeave(s))'
  BY <1>7, <1>11 DEF Hear
<1>12. ASSUME NEW A \in SUBSET People, Amend(A)
       PROVE (OneAtWork /\ FreeLeave /\ Settled /\ \A s \in Runs : RunLeave(s))'
  BY <1>7, <1>12 DEF Amend
<1>13. CASE UNCHANGED vars
  BY <1>7, <1>13 DEF vars
<1> QED
  BY <1>1, <1>2, <1>3, <1>4, <1>5, <1>6, <1>8, <1>9, <1>10, <1>11, <1>12,
     <1>13 DEF Next, RunNext, PersonNext

(* As long as runs and reconciliations follow one another, every           *)
(* performance uses up a leave somebody gave for that form.                *)
THEOREM PerformedOncePerLeave == Spec => OncePerLeave
<1>1. Init => Inv
  BY TypeInit DEF Inv, Init, ApprovedForms, Approved, NoFile, Idle
<1>2. Init => Alone
  BY DEF Init, Alone, OneAtWork, FreeLeave, Settled, RunLeave, At, Claimable,
         Approved, NoFile, Idle
<1>3. Inv /\ Alone /\ [Next]_vars
        => [\A r \in Runs : Performs(r) /\ ~ overlapped
              => leaves[run[r].form] > 0]_vars
  BY DEF Alone, RunLeave, Performs, At
<1> QED
  BY <1>1, <1>2, <1>3, InvStep, AloneStep, PTL DEF Spec, OncePerLeave
=============================================================================
