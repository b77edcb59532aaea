------------------------------ MODULE RoomProofs ------------------------------
(* Proofs about Room for any works, drafts, calls of accept and processes, *)
(* any files and any changes of them: no accepted change is lost, one      *)
(* version of a line of work lands, and decisions and ends are final.      *)
EXTENDS Room, SequenceTheorems, FiniteSetTheorems, TLAPS

USE RoomAssumption

-----------------------------------------------------------------------------
(* Types                                                                   *)

LEMMA NoChanges == <<>> \in ChangeRecord /\ DOMAIN <<>> = {}
<1>1. DOMAIN <<>> = {}
  OBVIOUS
<1>2. <<>> \in [{} -> {"edit", "delete"}]
  OBVIOUS
<1>3. QED
  BY <1>1, <1>2 DEF ChangeRecord

(* What a proposal may change, and nothing.                                *)
LEMMA EffectiveType ==
  ASSUME NEW p \in Proposals, NEW c \in Changes[p] \cup {<<>>}, NEW base
  PROVE  Effective(c, base) \in ChangeRecord
<1> DEFINE kept == {path \in DOMAIN c : c[path] = "edit" \/ versions[base][path] # {}}
<1>1. DOMAIN c \subseteq Paths /\ \A path \in DOMAIN c : c[path] \in {"edit", "delete"}
  BY NoChanges
<1>2. kept \in SUBSET Paths /\ [path \in kept |-> c[path]] \in [kept -> {"edit", "delete"}]
  BY <1>1
<1>3. QED
  BY <1>2 DEF Effective, ChangeRecord

LEMMA LineOfType ==
  ASSUME TypeOK, NEW p \in Proposals, NEW r \in Proposals \cup {None}
  PROVE  /\ LineOf(p, r) \in Seq(Proposals)
         /\ r = None => LineOf(p, r) = <<p>>
         /\ r # None => LineOf(p, r) = <<p>> \o proposals[r].line
                        /\ proposals[r].line \in Seq(Proposals)
<1>1. <<p>> \in Seq(Proposals) /\ <<>> \in Seq(Proposals)
  OBVIOUS
<1>2. r # None => proposals[r].line \in Seq(Proposals)
  BY DEF TypeOK, ProposalRecord
<1>3. <<p>> \o <<>> = <<p>>
  BY <1>1, ConcatEmptySeq
<1>4. r # None => <<p>> \o proposals[r].line \in Seq(Proposals)
  BY <1>1, <1>2, ConcatProperties
<1>5. QED
  BY <1>1, <1>2, <1>3, <1>4 DEF LineOf

LEMMA OpenType ==
  ASSUME TypeOK, NEW p \in Proposals, NEW c \in ChangeRecord, NEW base \in Nat,
         NEW r \in Proposals \cup {None}, NEW held \in BOOLEAN
  PROVE  OpenProposal(p, c, base, r, held) \in ProposalRecord
BY LineOfType DEF OpenProposal, ProposalRecord, Statuses

LEMMA CurrentType == TypeOK => Current \in Nat
BY LenProperties DEF TypeOK, Current

LEMMA LeaseNames ==
  /\ \A p \in Proposals : <<"lineage", p>> \in Leases
  /\ \A w \in Works : <<"finishing", w>> \in Leases
  /\ IsFiniteSet(Leases)
<1>1. IsFiniteSet(Works)
  BY FS_Subset DEF Proposals
<1>2. IsFiniteSet({"lineage"} \X Proposals) /\ IsFiniteSet({"finishing"} \X Works)
  BY <1>1, FS_Singleton, FS_Product
<1>3. IsFiniteSet(Leases)
  BY <1>2, FS_Union DEF Leases
<1>4. QED
  BY <1>3 DEF Leases

LEMMA MergedType ==
  ASSUME TypeOK, NEW p \in Proposals, NEW head \in 1..Current, proposals[p].base \in 1..Current
  PROVE  Merged(p, head) \in [Paths -> SUBSET (Proposals \cup {Original})]
<1>1. versions[head] \in [Paths -> SUBSET (Proposals \cup {Original})]
      /\ versions[proposals[p].base] \in [Paths -> SUBSET (Proposals \cup {Original})]
  BY ElementOfSeq DEF TypeOK, Current
<1>2. QED
  BY <1>1 DEF Merged, Ours, Base

(* Versions that records name exist, and so does what they refer to.       *)
Based ==
  /\ Current \in Nat \ {0}
  /\ \A p \in Proposals : Exists(p) => proposals[p].base \in 1..Current
  /\ \A p \in Accepted : proposals[p].landed \in 2..Current
  /\ \A w \in Works : Asked(w) =>
       /\ works[w].base \in 1..Current
       /\ works[w].revises = None \/ Exists(works[w].revises)
  /\ \A d \in Deciders : deciders[d].stage # "idle" =>
       deciders[d].target \in Proposals /\ Exists(deciders[d].target)
  /\ \A f \in Finishers : finishers[f].stage # "idle" =>
       finishers[f].work \in Works /\ Asked(finishers[f].work)

LEMMA LeasesType ==
  ASSUME TypeOK, NEW a \in Actors
  PROVE  /\ \A k : Release(k, a) => leases' \in [Leases -> Actors \cup {Free, Gone}]
         /\ \A k : Take(k, a) => leases' \in [Leases -> Actors \cup {Free, Gone}]
         /\ Abandoned(a) \in [Leases -> Actors \cup {Free, Gone}]
BY DEF TypeOK, Release, Take, Abandoned

LEMMA RestingType ==
  /\ Resting \in [stage : DeciderStages, target : Proposals \cup {None}, head : Nat,
                  tries : 0..AcceptAttempts, close : Seq(Proposals), rest : SUBSET Proposals]
  /\ Unoccupied \in [stage : FinisherStages, work : Works \cup {None}, held : BOOLEAN]
BY DEF Resting, Unoccupied, DeciderStages, FinisherStages

LEMMA TypeInit == Init => TypeOK /\ Based
<1> SUFFICES ASSUME Init PROVE TypeOK /\ Based
  OBVIOUS
<1> DEFINE first == [p \in Paths |-> {Original}]
           S == [Paths -> SUBSET (Proposals \cup {Original})]
<1>1. first \in S
  OBVIOUS
<1> HIDE DEF first, S
<1>2. <<first>> \in Seq(S) /\ Len(<<first>>) = 1
  BY <1>1
<1>3. Cardinality({}) = 0
  BY FS_EmptySet
<1>4. <<>> \in Seq(Proposals)
  OBVIOUS
<1>5. proposals \in [Proposals -> ProposalRecord]
  <2>1. [status |-> "missing", base |-> 0, changes |-> <<>>, line |-> <<>>, held |-> FALSE,
         landed |-> 0] \in ProposalRecord
    BY <1>4, NoChanges DEF ProposalRecord, Statuses
  <2>2. QED
    BY <2>1 DEF Init
<1>5a. works \in [Works -> [mesh : {"none", "running", "done", "cancelled"}, base : Nat,
                          revises : Proposals \cup {None}, changes : ChangeRecord,
                          finished : Nat, failed : BOOLEAN]]
  BY NoChanges DEF Init
<1>6. TypeOK
  BY <1>2, <1>3, <1>5, <1>5a, RestingType DEF Init, TypeOK, first, S
<1>7. Current = 1
  BY <1>2 DEF Init, Current, first
<1>8. Based
  BY <1>7 DEF Init, Based, Exists, Accepted, Asked, Resting, Unoccupied
<1>9. QED
  BY <1>6, <1>8

(* One record changes in one step, in a few of its fields.                 *)
DeciderRecord ==
  [stage : DeciderStages, target : Proposals \cup {None}, head : Nat,
   tries : 0..AcceptAttempts, close : Seq(Proposals), rest : SUBSET Proposals]
WorkRecord ==
  [mesh : {"none", "running", "done", "cancelled"}, base : Nat, revises : Proposals \cup {None},
   changes : ChangeRecord, finished : Nat, failed : BOOLEAN]

LEMMA OneProposal ==
  ASSUME TypeOK, NEW p \in Proposals
  PROVE  /\ \A s \in Statuses : [proposals EXCEPT ![p].status = s] \in [Proposals -> ProposalRecord]
         /\ [proposals EXCEPT ![p].held = FALSE] \in [Proposals -> ProposalRecord]
         /\ \A n \in Nat : [proposals EXCEPT ![p].status = "accepted", ![p].landed = n]
                             \in [Proposals -> ProposalRecord]
         /\ Closed(p) \in [Proposals -> ProposalRecord]
<1>1. proposals[p] \in ProposalRecord
  BY DEF TypeOK
<1>2. \A s \in Statuses : [proposals[p] EXCEPT !.status = s] \in ProposalRecord
  BY <1>1 DEF ProposalRecord
<1>3. [proposals[p] EXCEPT !.held = FALSE] \in ProposalRecord
  BY <1>1 DEF ProposalRecord
<1>4. \A n \in Nat : [proposals[p] EXCEPT !.status = "accepted", !.landed = n] \in ProposalRecord
  BY <1>1 DEF ProposalRecord, Statuses
<1>5. \A r \in ProposalRecord : [proposals EXCEPT ![p] = r] \in [Proposals -> ProposalRecord]
  BY DEF TypeOK
<1>6. \A s \in Statuses : [proposals EXCEPT ![p].status = s] \in [Proposals -> ProposalRecord]
  BY <1>2, <1>5
<1>7. [proposals EXCEPT ![p].held = FALSE] \in [Proposals -> ProposalRecord]
  BY <1>3, <1>5
<1>8. \A n \in Nat : [proposals EXCEPT ![p].status = "accepted", ![p].landed = n]
                       \in [Proposals -> ProposalRecord]
  BY <1>4, <1>5
<1>9. Closed(p) \in [Proposals -> ProposalRecord]
  BY <1>6 DEF Closed, Statuses, TypeOK
<1>10. QED
  BY <1>6, <1>7, <1>8, <1>9

LEMMA OneDecider ==
  ASSUME TypeOK, NEW d \in Deciders, NEW r \in DeciderRecord
  PROVE  [deciders EXCEPT ![d] = r] \in [Deciders -> DeciderRecord]
BY DEF TypeOK, DeciderRecord

LEMMA DeciderMoves ==
  ASSUME TypeOK, NEW d \in Deciders
  PROVE  /\ deciders[d] \in DeciderRecord
         /\ \A n \in Nat : [deciders[d] EXCEPT !.stage = "merging", !.head = n] \in DeciderRecord
         /\ deciders[d].tries > 1 =>
              [deciders[d] EXCEPT !.stage = "reading", !.tries = @ - 1] \in DeciderRecord
         /\ \A q \in Seq(Proposals) : [deciders[d] EXCEPT !.close = q] \in DeciderRecord
         /\ \A R \in SUBSET Proposals :
              /\ [deciders[d] EXCEPT !.rest = R] \in DeciderRecord
              /\ [deciders[d] EXCEPT !.stage = "sweeping", !.rest = R] \in DeciderRecord
              /\ [deciders[d] EXCEPT !.stage = "stopping", !.rest = R] \in DeciderRecord
<1>1. deciders[d] \in DeciderRecord
  BY DEF TypeOK, DeciderRecord
<1>2. \A n \in Nat : [deciders[d] EXCEPT !.stage = "merging", !.head = n] \in DeciderRecord
  BY <1>1 DEF DeciderRecord, DeciderStages
<1>3. deciders[d].tries > 1 =>
        [deciders[d] EXCEPT !.stage = "reading", !.tries = @ - 1] \in DeciderRecord
  <2>1. deciders[d].tries > 1 => deciders[d].tries - 1 \in 0..AcceptAttempts
    BY <1>1 DEF DeciderRecord
  <2>2. QED
    BY <1>1, <2>1 DEF DeciderRecord, DeciderStages
<1>4. \A q \in Seq(Proposals) : [deciders[d] EXCEPT !.close = q] \in DeciderRecord
  BY <1>1 DEF DeciderRecord
<1>5. \A R \in SUBSET Proposals :
        /\ [deciders[d] EXCEPT !.rest = R] \in DeciderRecord
        /\ [deciders[d] EXCEPT !.stage = "sweeping", !.rest = R] \in DeciderRecord
        /\ [deciders[d] EXCEPT !.stage = "stopping", !.rest = R] \in DeciderRecord
  BY <1>1 DEF DeciderRecord, DeciderStages
<1>6. QED
  BY <1>1, <1>2, <1>3, <1>4, <1>5

LEMMA OneWork ==
  ASSUME TypeOK, NEW w \in Works
  PROVE  /\ works[w] \in WorkRecord
         /\ \A r \in WorkRecord : [works EXCEPT ![w] = r] \in [Works -> WorkRecord]
         /\ Cancelled(w) \in [Works -> WorkRecord]
<1>1. works \in [Works -> WorkRecord]
  BY DEF TypeOK, WorkRecord
<1>2. [works[w] EXCEPT !.mesh = "cancelled"] \in WorkRecord
  BY <1>1 DEF WorkRecord
<1>3. QED
  BY <1>1, <1>2 DEF Cancelled

(* Proposals that are filed, decided and released.                         *)
LEMMA ProposalsType ==
  ASSUME TypeOK, Based,
         \/ \E p \in Drafts : Propose(p)
         \/ \E p \in Proposals : Reject(p) \/ ReleaseHeld(p)
  PROVE  TypeOK'
<1>1. ASSUME NEW p \in Drafts, Propose(p) PROVE TypeOK'
  <2>1. PICK c \in Changes[p], base \in 1..Current, r \in Proposals \cup {None} :
           proposals' = [proposals EXCEPT ![p] = OpenProposal(p, Effective(c, base), base, r, FALSE)]
    BY <1>1 DEF Propose
  <2>2. p \in Proposals /\ base \in Nat
    BY CurrentType DEF Proposals
  <2>3. Effective(c, base) \in ChangeRecord
    BY <2>2, EffectiveType
  <2>4. OpenProposal(p, Effective(c, base), base, r, FALSE) \in ProposalRecord
    BY <2>2, <2>3, OpenType
  <2>5. proposals' \in [Proposals -> ProposalRecord]
    BY <2>1, <2>4 DEF TypeOK
  <2>6. QED
    BY <1>1, <2>5 DEF Propose, TypeOK, faults
<1>2. ASSUME NEW p \in Proposals, Reject(p) \/ ReleaseHeld(p) PROVE TypeOK'
  <2>1. proposals' \in [Proposals -> ProposalRecord]
    <3>1. CASE Reject(p)
      BY <3>1, OneProposal DEF Reject, Statuses
    <3>2. CASE ReleaseHeld(p)
      BY <3>2, OneProposal DEF ReleaseHeld
    <3>3. QED
      BY <1>2, <3>1, <3>2
  <2>2. QED
    BY <1>2, <2>1 DEF Reject, ReleaseHeld, TypeOK, faults
<1>3. QED
  BY <1>1, <1>2

LEMMA AcceptType ==
  ASSUME TypeOK, Based, NEW d \in Deciders, NEW p \in Proposals, Accept(d, p)
  PROVE  TypeOK'
<1>1. leases' \in [Leases -> Actors \cup {Free, Gone}]
  BY LeasesType DEF Accept, Actors
<1>2. [Resting EXCEPT !.stage = "reading", !.target = p, !.tries = AcceptAttempts] \in DeciderRecord
  <2>1. <<>> \in Seq(Proposals) /\ AcceptAttempts \in 0..AcceptAttempts
    OBVIOUS
  <2>2. QED
    BY <2>1 DEF Resting, DeciderRecord, DeciderStages
<1>3. deciders' \in [Deciders -> DeciderRecord]
  BY <1>2, OneDecider DEF Accept
<1>4. QED
  BY <1>1, <1>3 DEF Accept, TypeOK, DeciderRecord, faults

LEMMA ReturnType ==
  ASSUME TypeOK, NEW d \in Deciders, Return(d)
  PROVE  /\ deciders' \in [Deciders -> DeciderRecord]
         /\ leases' \in [Leases -> Actors \cup {Free, Gone}]
BY RestingType, LeasesType DEF Return, TypeOK, Actors, DeciderRecord

LEMMA DecideType ==
  ASSUME TypeOK, Based, NEW d \in Deciders, Decide(d)
  PROVE  TypeOK'
<1> USE DEF faults
<1>0. \A r \in DeciderRecord : [deciders EXCEPT ![d] = r] \in [Deciders -> DeciderRecord]
  BY OneDecider
<1>1. CASE ReadHead(d)
  <2>1. deciders' \in [Deciders -> DeciderRecord]
    BY <1>0, <1>1, DeciderMoves, CurrentType DEF ReadHead
  <2>2. QED
    BY <1>1, <2>1 DEF ReadHead, TypeOK, DeciderRecord
<1>2. CASE TransitionFails(d)
  <2>1. deciders' \in [Deciders -> DeciderRecord] /\ leases' \in [Leases -> Actors \cup {Free, Gone}]
    <3>1. CASE ~ Unmoved(d) /\ deciders[d].tries > 1
      <4>1. deciders' = [deciders EXCEPT ![d] =
                           [deciders[d] EXCEPT !.stage = "reading", !.tries = @ - 1]]
        BY <1>2, <3>1 DEF TransitionFails, TypeOK
      <4>2. leases' = leases
        BY <1>2, <3>1 DEF TransitionFails
      <4>3. QED
        BY <1>0, <3>1, <4>1, <4>2, DeciderMoves DEF TypeOK
    <3>2. CASE ~ (~ Unmoved(d) /\ deciders[d].tries > 1)
      BY <1>2, <3>2, ReturnType DEF TransitionFails
    <3>3. QED
      BY <3>1, <3>2
  <2>2. QED
    BY <1>2, <2>1 DEF TransitionFails, TypeOK, DeciderRecord
<1>3. CASE Conflict(d)
  <2>1. deciders' \in [Deciders -> DeciderRecord] /\ leases' \in [Leases -> Actors \cup {Free, Gone}]
    BY <1>3, ReturnType DEF Conflict
  <2>2. deciders[d].target \in Proposals
    BY <1>3 DEF Conflict, Based
  <2>3. proposals' \in [Proposals -> ProposalRecord]
    BY <1>3, <2>2, OneProposal DEF Conflict, Statuses
  <2>4. QED
    BY <1>3, <2>1, <2>3 DEF Conflict, TypeOK, DeciderRecord
<1>4. CASE Land(d)
  <2> DEFINE p == deciders[d].target
  <2>1. /\ p \in Proposals /\ proposals[p].base \in 1..Current
        /\ deciders[d].head \in 1..Current /\ deciders[d].head + 1 \in Nat
    BY <1>4, CurrentType DEF Land, Based, Unmoved
  <2>2. versions' \in Seq([Paths -> SUBSET (Proposals \cup {Original})])
    BY <1>4, <2>1, MergedType, AppendProperties DEF Land, TypeOK
  <2>3. proposals' \in [Proposals -> ProposalRecord]
    BY <1>4, <2>1, OneProposal DEF Land
  <2>4. Revises(p) => Tail(proposals[p].line) \in Seq(Proposals)
    <3> SUFFICES ASSUME Revises(p) PROVE Tail(proposals[p].line) \in Seq(Proposals)
      OBVIOUS
    <3>1. proposals[p].line \in Seq(Proposals)
      BY <2>1 DEF TypeOK, ProposalRecord
    <3>2. proposals[p].line # <<>>
      BY EmptySeq DEF Revises
    <3>3. QED
      BY <3>1, <3>2, HeadTailProperties
  <2>5. deciders' \in [Deciders -> DeciderRecord] /\ leases' \in [Leases -> Actors \cup {Free, Gone}]
    <3>1. CASE Revises(p)
      <4>1. deciders' = [deciders EXCEPT ![d] = [Resting EXCEPT !.stage = "closing", !.target = p,
                                                   !.close = Tail(proposals[p].line)]]
            /\ leases' = leases
        BY <1>4, <3>1 DEF Land
      <4>2. [Resting EXCEPT !.stage = "closing", !.target = p, !.close = Tail(proposals[p].line)]
              \in DeciderRecord
        <5>1. Tail(proposals[p].line) \in Seq(Proposals) /\ 0 \in 0..AcceptAttempts
          BY <2>4, <3>1
        <5>2. QED
          BY <2>1, <5>1 DEF DeciderRecord, DeciderStages, Resting
      <4>3. QED
        BY <1>0, <4>1, <4>2 DEF TypeOK
    <3>2. CASE ~ Revises(p)
      BY <1>4, <3>2, ReturnType DEF Land
    <3>3. QED
      BY <3>1, <3>2
  <2>6. QED
    BY <1>4, <2>2, <2>3, <2>5 DEF Land, TypeOK, DeciderRecord
<1>5. CASE CloseReplaced(d)
  <2>1. deciders[d].close \in Seq(Proposals) /\ deciders[d].close # <<>>
    BY <1>5 DEF CloseReplaced, TypeOK
  <2>2. Head(deciders[d].close) \in Proposals /\ Tail(deciders[d].close) \in Seq(Proposals)
    BY <2>1, HeadTailProperties
  <2>3. proposals' \in [Proposals -> ProposalRecord]
    BY <1>5, <2>2, OneProposal DEF CloseReplaced
  <2>4. deciders' \in [Deciders -> DeciderRecord]
    BY <1>0, <1>5, <2>2, DeciderMoves DEF CloseReplaced
  <2>5. QED
    BY <1>5, <2>3, <2>4 DEF CloseReplaced, TypeOK, DeciderRecord
<1>6. CASE ListOpen(d)
  <2>1. {q \in Proposals \ {deciders[d].target} : Open(q) /\ deciders[d].target \notin Lineage(q)}
          \in SUBSET Proposals
    OBVIOUS
  <2>2. deciders' \in [Deciders -> DeciderRecord]
    BY <1>0, <1>6, <2>1, DeciderMoves DEF ListOpen
  <2>3. QED
    BY <1>6, <2>2 DEF ListOpen, TypeOK, DeciderRecord
<1>7. ASSUME NEW q \in Proposals, Sweep(d, q) PROVE TypeOK'
  <2>1. proposals' \in [Proposals -> ProposalRecord]
    BY <1>7, OneProposal DEF Sweep, TypeOK
  <2>2. deciders[d].rest \ {q} \in SUBSET Proposals
    BY DEF TypeOK
  <2>3. deciders' \in [Deciders -> DeciderRecord]
    BY <1>0, <1>7, <2>2, DeciderMoves DEF Sweep
  <2>4. QED
    BY <1>7, <2>1, <2>3 DEF Sweep, TypeOK, DeciderRecord
<1>8. CASE ListWorks(d)
  <2>1. {w \in Works : Asked(w) /\ ~Ended(w) /\ works[w].revises # None} \in SUBSET Proposals
    BY DEF Proposals
  <2>2. deciders' \in [Deciders -> DeciderRecord]
    BY <1>0, <1>8, <2>1, DeciderMoves DEF ListWorks
  <2>3. QED
    BY <1>8, <2>2 DEF ListWorks, TypeOK, DeciderRecord
<1>9. ASSUME NEW w \in Works, StopWork(d, w) PROVE TypeOK'
  <2>1. works' \in [Works -> WorkRecord]
    BY <1>9, OneWork DEF StopWork, TypeOK, WorkRecord
  <2>2. deciders[d].rest \ {w} \in SUBSET Proposals
    BY DEF TypeOK
  <2>3. deciders' \in [Deciders -> DeciderRecord]
    BY <1>0, <1>9, <2>2, DeciderMoves DEF StopWork
  <2>4. QED
    BY <1>9, <2>1, <2>3 DEF StopWork, TypeOK, DeciderRecord, WorkRecord
<1>10. CASE Leave(d)
  BY <1>10, ReturnType DEF Leave, TypeOK, DeciderRecord
<1>11. QED
  BY <1>1, <1>2, <1>3, <1>4, <1>5, <1>6, <1>7, <1>8, <1>9, <1>10 DEF Decide

LEMMA StopFollowingType ==
  ASSUME TypeOK, NEW f \in Finishers, StopFollowing(f)
  PROVE  /\ finishers' \in [Finishers -> [stage : FinisherStages, work : Works \cup {None},
                                          held : BOOLEAN]]
         /\ leases' \in [Leases -> Actors \cup {Free, Gone}]
BY RestingType, LeasesType DEF StopFollowing, TypeOK, Actors

LEMMA WorkType ==
  ASSUME TypeOK, Based, NEW w \in Works, Ask(w) \/ MeshEnds(w)
  PROVE  TypeOK'
<1>0. works[w] \in WorkRecord /\ \A r \in WorkRecord : [works EXCEPT ![w] = r] \in [Works -> WorkRecord]
  BY OneWork
<1>1. CASE Ask(w)
  <2>1. PICK r \in Proposals \cup {None} :
          works' = [works EXCEPT ![w].mesh = "running", ![w].base = Current, ![w].revises = r]
    BY <1>1 DEF Ask
  <2>2. [works[w] EXCEPT !.mesh = "running", !.base = Current, !.revises = r] \in WorkRecord
    BY <1>0, CurrentType DEF WorkRecord
  <2>3. works' \in [Works -> WorkRecord]
    <3>1. works' = [works EXCEPT ![w] =
                      [works[w] EXCEPT !.mesh = "running", !.base = Current, !.revises = r]]
      BY <2>1 DEF TypeOK
    <3>2. QED
      BY <1>0, <2>2, <3>1
  <2>4. QED
    BY <1>1, <2>3 DEF Ask, TypeOK, WorkRecord, faults
<1>2. CASE MeshEnds(w)
  <2>1. PICK c \in Changes[w] \cup {<<>>} :
          works' = [works EXCEPT ![w].mesh = "done", ![w].changes = Effective(c, works[w].base)]
    BY <1>2 DEF MeshEnds
  <2>2. Effective(c, works[w].base) \in ChangeRecord
    BY EffectiveType DEF Proposals
  <2>3. [works[w] EXCEPT !.mesh = "done", !.changes = Effective(c, works[w].base)] \in WorkRecord
    BY <1>0, <2>2 DEF WorkRecord
  <2>4. works' \in [Works -> WorkRecord]
    BY <1>0, <2>1, <2>3
  <2>5. QED
    BY <1>2, <2>4 DEF MeshEnds, TypeOK, WorkRecord, faults
<1>3. QED
  BY <1>1, <1>2

LEMMA FollowType ==
  ASSUME TypeOK, Based, NEW f \in Finishers,
         \/ Finish(f) \/ Refuse(f) \/ Disagree(f)
         \/ \E w \in Works : TimeOut(f, w) \/ StartFinish(f, w)
  PROVE  TypeOK'
<1> DEFINE F == [stage : FinisherStages, work : Works \cup {None}, held : BOOLEAN]
           u == finishers[f].work
<1> USE DEF faults
<1>0. /\ finishers \in [Finishers -> F] /\ finishers[f] \in F
      /\ \A r \in F : [finishers EXCEPT ![f] = r] \in [Finishers -> F]
  BY DEF TypeOK
<1>a. ASSUME finishers[f].stage # "idle"
      PROVE  /\ u \in Works /\ works[u] \in WorkRecord
             /\ \A r \in WorkRecord : [works EXCEPT ![u] = r] \in [Works -> WorkRecord]
  BY <1>a, OneWork DEF Based
<1>1. CASE File(f)
  <2>1. /\ u \in Works /\ works[u] \in WorkRecord
    BY <1>1, <1>a DEF File
  <2>2. u \in Proposals /\ finishers[f].held \in BOOLEAN
    BY <2>1, <1>0 DEF Proposals
  <2>3. OpenProposal(u, works[u].changes, works[u].base, works[u].revises, finishers[f].held)
          \in ProposalRecord
    BY <2>1, <2>2, OpenType DEF WorkRecord
  <2>4. proposals' \in [Proposals -> ProposalRecord]
    BY <1>1, <2>2, <2>3 DEF File, TypeOK
  <2>5. finishers' = [finishers EXCEPT ![f] = [finishers[f] EXCEPT !.stage = "noting", !.held = FALSE]]
    BY <1>0, <1>1 DEF File
  <2>6. [finishers[f] EXCEPT !.stage = "noting", !.held = FALSE] \in F
    BY <1>0 DEF FinisherStages
  <2>7. finishers' \in [Finishers -> F]
    BY <1>0, <2>5, <2>6
  <2>8. QED
    BY <1>1, <2>4, <2>7 DEF File, TypeOK
<1>2. CASE NoteFinished(f)
  <2>1. u \in Works /\ [works[u] EXCEPT !.finished = @ + 1] \in WorkRecord
    BY <1>2, <1>a DEF NoteFinished, WorkRecord
  <2>2. works' \in [Works -> WorkRecord]
    BY <1>2, <1>a, <2>1 DEF NoteFinished
  <2>3. QED
    BY <1>2, <2>2, StopFollowingType DEF NoteFinished, TypeOK, WorkRecord
<1>3. CASE NoteFailed(f) \/ Refuse(f)
  <2>1. u \in Works /\ [works[u] EXCEPT !.failed = TRUE] \in WorkRecord
    BY <1>3, <1>a DEF NoteFailed, Refuse, WorkRecord
  <2>2. works' \in [Works -> WorkRecord]
    BY <1>3, <1>a, <2>1 DEF NoteFailed, Refuse
  <2>3. QED
    BY <1>3, <2>2, StopFollowingType DEF NoteFailed, Refuse, TypeOK, WorkRecord
<1>4. CASE Disagree(f)
  BY <1>4, StopFollowingType DEF Disagree, TypeOK
<1>5. ASSUME NEW w \in Works, TimeOut(f, w) PROVE TypeOK'
  <2>1. works' \in [Works -> WorkRecord]
    BY <1>5, OneWork DEF TimeOut
  <2>2. finishers' = [finishers EXCEPT ![f] = [finishers[f] EXCEPT !.stage = "failing", !.work = w]]
    BY <1>0, <1>5 DEF TimeOut
  <2>3. [finishers[f] EXCEPT !.stage = "failing", !.work = w] \in F
    BY <1>0 DEF FinisherStages
  <2>4. finishers' \in [Finishers -> F]
    BY <1>0, <2>2, <2>3
  <2>5. QED
    BY <1>5, <2>1, <2>4 DEF TimeOut, TypeOK, WorkRecord
<1>6. ASSUME NEW w \in Works, StartFinish(f, w) PROVE TypeOK'
  <2>1. leases' \in [Leases -> Actors \cup {Free, Gone}]
    BY <1>6, LeasesType DEF StartFinish, Actors
  <2>2. /\ [stage |-> "noting", work |-> w, held |-> FALSE] \in F
        /\ \A b \in BOOLEAN : [stage |-> "filing", work |-> w, held |-> b] \in F
    BY DEF FinisherStages
  <2>3. PICK sameAsker \in BOOLEAN :
          finishers' = [finishers EXCEPT ![f] =
            IF works[w].revises # None /\ Overtaken(works[w].revises)
            THEN [stage |-> "noting", work |-> w, held |-> FALSE]
            ELSE [stage |-> "filing", work |-> w,
                  held |-> w \in PrivateWorks
                           \/ (sameAsker /\ works[w].revises # None /\ proposals[works[w].revises].held)]]
    BY <1>6 DEF StartFinish
  <2>4. (w \in PrivateWorks
         \/ (sameAsker /\ works[w].revises # None /\ proposals[works[w].revises].held)) \in BOOLEAN
    OBVIOUS
  <2>5. finishers' \in [Finishers -> F]
    BY <1>0, <2>2, <2>3, <2>4
  <2>6. QED
    BY <1>6, <2>1, <2>5 DEF StartFinish, TypeOK
<1>7. QED
  BY <1>1, <1>2, <1>3, <1>4, <1>5, <1>6 DEF Finish

(* What dies and what runs out is counted.                                 *)
LEMMA TroubleType ==
  ASSUME TypeOK,
         \/ \E d \in Deciders : DeciderDies(d)
         \/ \E f \in Finishers : FinisherDies(f)
         \/ \E k \in Leases : LapseGone(k) \/ LapseHeld(k)
  PROVE  TypeOK'
<1> USE DEF faults
<1>0. IsFiniteSet(outlived) /\ Cardinality(outlived) \in Nat
  BY LeaseNames, FS_Subset, FS_CardinalityType DEF TypeOK
<1>1. ASSUME NEW d \in Deciders, DeciderDies(d) PROVE TypeOK'
  <2>1. leases' \in [Leases -> Actors \cup {Free, Gone}]
    BY <1>1, LeasesType DEF DeciderDies, Actors
  <2>2. deciders' \in [Deciders -> DeciderRecord]
    BY <1>1, RestingType, OneDecider DEF DeciderDies, DeciderRecord
  <2>3. deaths' \in Nat /\ deaths' + Cardinality(outlived) <= MaxTroubles
    BY <1>0, <1>1 DEF DeciderDies, TroublesLeft, TypeOK
  <2>4. QED
    BY <1>1, <2>1, <2>2, <2>3 DEF DeciderDies, TypeOK, DeciderRecord
<1>2. ASSUME NEW f \in Finishers, FinisherDies(f) PROVE TypeOK'
  <2>1. leases' \in [Leases -> Actors \cup {Free, Gone}]
    BY <1>2, LeasesType DEF FinisherDies, Actors
  <2>2. finishers' \in [Finishers -> [stage : FinisherStages, work : Works \cup {None}, held : BOOLEAN]]
    BY <1>2, RestingType DEF FinisherDies, TypeOK
  <2>3. deaths' \in Nat /\ deaths' + Cardinality(outlived) <= MaxTroubles
    BY <1>0, <1>2 DEF FinisherDies, TroublesLeft, TypeOK
  <2>4. QED
    BY <1>2, <2>1, <2>2, <2>3 DEF FinisherDies, TypeOK
<1>3. ASSUME NEW k \in Leases, LapseGone(k) PROVE TypeOK'
  BY <1>3 DEF LapseGone, TypeOK
<1>4. ASSUME NEW k \in Leases, LapseHeld(k) PROVE TypeOK'
  <2>1. outlived' \subseteq Leases
    BY <1>4 DEF LapseHeld, TypeOK
  <2>2. Cardinality(outlived \cup {k}) \in Nat
        /\ Cardinality(outlived \cup {k}) <= Cardinality(outlived) + 1
    <3>1. Cardinality(outlived \cup {k}) = IF k \in outlived THEN Cardinality(outlived)
                                           ELSE Cardinality(outlived) + 1
      BY <1>0, FS_AddElement
    <3>2. QED
      BY <1>0, <3>1
  <2>3. deaths' + Cardinality(outlived') <= MaxTroubles
    BY <1>0, <1>4, <2>2 DEF LapseHeld, TroublesLeft, TypeOK
  <2>4. leases' \in [Leases -> Actors \cup {Free, Gone}]
    BY <1>4 DEF LapseHeld, TypeOK
  <2>5. QED
    BY <1>4, <2>1, <2>3, <2>4 DEF LapseHeld, TypeOK
<1>5. QED
  BY <1>1, <1>2, <1>3, <1>4

LEMMA TypeStep == TypeOK /\ Based /\ [Next]_vars => TypeOK'
<1> SUFFICES ASSUME TypeOK, Based, [Next]_vars PROVE TypeOK'
  OBVIOUS
<1>1. CASE UNCHANGED vars
  BY <1>1 DEF vars, faults, TypeOK
<1>2. CASE \/ \E p \in Drafts : Propose(p)
           \/ \E p \in Proposals : Reject(p) \/ ReleaseHeld(p)
  BY <1>2, ProposalsType
<1>3. CASE \E d \in Deciders : Decide(d) \/ \E p \in Proposals : Accept(d, p)
  BY <1>3, DecideType, AcceptType
<1>4. CASE \E w \in Works : Ask(w) \/ MeshEnds(w)
  BY <1>4, WorkType
<1>5. CASE \E f \in Finishers : \/ Finish(f) \/ Refuse(f) \/ Disagree(f)
                                \/ \E w \in Works : TimeOut(f, w) \/ StartFinish(f, w)
  BY <1>5, FollowType
<1>6. CASE \/ \E d \in Deciders : DeciderDies(d)
           \/ \E f \in Finishers : FinisherDies(f)
           \/ \E k \in Leases : LapseGone(k) \/ LapseHeld(k)
  BY <1>6, TroubleType
<1>7. QED
  BY <1>1, <1>2, <1>3, <1>4, <1>5, <1>6 DEF Next

-----------------------------------------------------------------------------
(* What a step does to the room, to the work and to the leases             *)

Filed(p) ==
  /\ ~Exists(p) /\ versions' = versions
  /\ \E c \in ChangeRecord, base \in 1..Current, held \in BOOLEAN,
        r \in {q \in Proposals : Exists(q)} \cup {None} :
       proposals' = [proposals EXCEPT ![p] = OpenProposal(p, c, base, r, held)]
Settled(p) ==
  /\ Open(p) /\ versions' = versions
  /\ \E s \in {"rejected", "conflicted"} : proposals' = [proposals EXCEPT ![p].status = s]
Released(p) ==
  /\ Open(p) /\ versions' = versions
  /\ proposals' = [proposals EXCEPT ![p].held = FALSE]

LEMMA RoomMoves ==
  ASSUME TypeOK, Based, [Next]_vars
  PROVE  \/ UNCHANGED <<versions, proposals>>
         \/ \E p \in Proposals : Filed(p) \/ Settled(p) \/ Released(p)
         \/ \E d \in Deciders : Land(d)
<1>1. CASE UNCHANGED vars
  BY <1>1 DEF vars
<1>2. ASSUME NEW p \in Drafts, Propose(p) PROVE Filed(p) /\ p \in Proposals
  <2>1. PICK c \in Changes[p], base \in 1..Current, r \in {q \in Proposals : Exists(q)} \cup {None} :
           proposals' = [proposals EXCEPT ![p] = OpenProposal(p, Effective(c, base), base, r, FALSE)]
    BY <1>2 DEF Propose
  <2>2. p \in Proposals
    BY DEF Proposals
  <2>3. Effective(c, base) \in ChangeRecord
    BY <2>2, EffectiveType
  <2>4. QED
    BY <1>2, <2>1, <2>2, <2>3 DEF Filed, Propose
<1>3. ASSUME NEW p \in Proposals, Reject(p) \/ ReleaseHeld(p) PROVE Settled(p) \/ Released(p)
  BY <1>3 DEF Reject, ReleaseHeld, Settled, Released
<1>4. ASSUME NEW d \in Deciders, Decide(d) \/ DeciderDies(d) \/ \E p \in Proposals : Accept(d, p)
      PROVE  \/ UNCHANGED <<versions, proposals>> \/ Land(d)
             \/ \E p \in Proposals : Settled(p)
  <2>1. CASE ReadHead(d) \/ TransitionFails(d) \/ ListOpen(d) \/ ListWorks(d) \/ Leave(d)
    BY <2>1 DEF ReadHead, TransitionFails, ListOpen, ListWorks, Leave
  <2>2. CASE Conflict(d)
    BY <2>2 DEF Conflict, Settled, Based, Undecided
  <2>3. CASE CloseReplaced(d)
    <3>1. Head(deciders[d].close) \in Proposals
      BY <2>3, HeadTailProperties DEF CloseReplaced, TypeOK
    <3>2. QED
      BY <2>3, <3>1 DEF CloseReplaced, Closed, Settled
  <2>4. ASSUME NEW q \in Proposals, Sweep(d, q)
        PROVE  UNCHANGED <<versions, proposals>> \/ Settled(q)
    BY <2>4 DEF Sweep, Closed, Settled
  <2>5. ASSUME NEW w \in Works, StopWork(d, w) PROVE UNCHANGED <<versions, proposals>>
    BY <2>5 DEF StopWork
  <2>6. CASE DeciderDies(d) \/ \E p \in Proposals : Accept(d, p)
    BY <2>6 DEF DeciderDies, Accept
  <2>7. QED
    BY <1>4, <2>1, <2>2, <2>3, <2>4, <2>5, <2>6 DEF Decide
<1>5. ASSUME NEW w \in Works, Ask(w) \/ MeshEnds(w) PROVE UNCHANGED <<versions, proposals>>
  BY <1>5 DEF Ask, MeshEnds
<1>6. ASSUME NEW f \in Finishers,
             \/ Finish(f) \/ Refuse(f) \/ Disagree(f) \/ FinisherDies(f)
             \/ \E w \in Works : TimeOut(f, w) \/ StartFinish(f, w)
      PROVE  UNCHANGED <<versions, proposals>> \/ \E p \in Proposals : Filed(p)
  <2>1. CASE File(f)
    <3> DEFINE w == finishers[f].work
    <3>1. /\ w \in Works /\ w \in Proposals /\ Asked(w)
      BY <2>1 DEF File, Based, Proposals
    <3>2. /\ works[w].changes \in ChangeRecord /\ works[w].base \in 1..Current
          /\ works[w].revises \in {q \in Proposals : Exists(q)} \cup {None}
          /\ finishers[f].held \in BOOLEAN
      BY <3>1 DEF TypeOK, Based
    <3>3. versions' = versions
      BY <2>1 DEF File
    <3>4. \/ proposals' = proposals
          \/ /\ ~Exists(w)
             /\ proposals' = [proposals EXCEPT ![w] = OpenProposal(w, works[w].changes, works[w].base,
                                                          works[w].revises, finishers[f].held)]
      BY <2>1 DEF File
    <3>5. CASE proposals' = proposals
      BY <3>3, <3>5
    <3>6. CASE proposals' # proposals
      <4>1. Filed(w)
        BY <3>2, <3>3, <3>4, <3>6 DEF Filed
      <4>2. QED
        BY <3>1, <4>1
    <3>7. QED
      BY <3>5, <3>6
  <2>2. CASE NoteFinished(f) \/ NoteFailed(f) \/ Refuse(f) \/ Disagree(f) \/ FinisherDies(f)
    BY <2>2 DEF NoteFinished, NoteFailed, Refuse, Disagree, FinisherDies
  <2>3. ASSUME NEW w \in Works, TimeOut(f, w) \/ StartFinish(f, w)
        PROVE  UNCHANGED <<versions, proposals>>
    BY <2>3 DEF TimeOut, StartFinish
  <2>4. QED
    BY <1>6, <2>1, <2>2, <2>3 DEF Finish
<1>7. ASSUME NEW k \in Leases, LapseGone(k) \/ LapseHeld(k) PROVE UNCHANGED <<versions, proposals>>
  BY <1>7 DEF LapseGone, LapseHeld
<1>8. QED
  BY <1>1, <1>2, <1>3, <1>4, <1>5, <1>6, <1>7 DEF Next

(* What exists keeps its place in its line and what it was made against.   *)
LEMMA RoomKept ==
  ASSUME TypeOK, Based, [Next]_vars
  PROVE  /\ Current' \in Nat /\ Current <= Current'
         /\ \A v \in 1..Current : versions'[v] = versions[v]
         /\ \A p \in Proposals : Exists(p) =>
              /\ Exists(p)' /\ proposals'[p].line = proposals[p].line
              /\ proposals'[p].base = proposals[p].base
              /\ proposals'[p].changes = proposals[p].changes
         /\ \A p \in Proposals : proposals[p].status \notin {"missing", "open"}
              => proposals'[p] = proposals[p]
<1>0. Current \in Nat
  BY CurrentType
<1>1. CASE UNCHANGED <<versions, proposals>>
  BY <1>0, <1>1 DEF Current, Exists
<1>2. ASSUME NEW p \in Proposals, Filed(p) \/ Settled(p) \/ Released(p)
      PROVE  /\ versions' = versions
             /\ \A q \in Proposals \ {p} : proposals'[q] = proposals[q]
             /\ Exists(p) =>
                  /\ Open(p) /\ Exists(p)'
                  /\ proposals'[p].line = proposals[p].line
                  /\ proposals'[p].base = proposals[p].base
                  /\ proposals'[p].changes = proposals[p].changes
  <2>1. proposals[p] \in ProposalRecord /\ DOMAIN proposals = Proposals
    BY DEF TypeOK
  <2>2. CASE Filed(p)
    BY <2>1, <2>2 DEF Filed
  <2>3. CASE Settled(p)
    BY <2>1, <2>3 DEF Settled, ProposalRecord, Exists
  <2>4. CASE Released(p)
    BY <2>1, <2>4 DEF Released, ProposalRecord, Exists, Open
  <2>5. QED
    BY <1>2, <2>2, <2>3, <2>4
<1>3. ASSUME NEW d \in Deciders, Land(d)
      PROVE  LET p == deciders[d].target IN
             /\ p \in Proposals /\ Open(p)
             /\ Current' = Current + 1
             /\ \A v \in 1..Current : versions'[v] = versions[v]
             /\ \A q \in Proposals \ {p} : proposals'[q] = proposals[q]
             /\ proposals'[p].status = "accepted"
             /\ proposals'[p].line = proposals[p].line
             /\ proposals'[p].base = proposals[p].base
             /\ proposals'[p].changes = proposals[p].changes
  <2> DEFINE p == deciders[d].target
  <2>1. p \in Proposals /\ Open(p)
    BY <1>3 DEF Land, Based, Undecided
  <2>2. proposals[p] \in ProposalRecord /\ DOMAIN proposals = Proposals
    BY <2>1 DEF TypeOK
  <2>3. proposals' = [proposals EXCEPT ![p] =
                        [proposals[p] EXCEPT !.status = "accepted", !.landed = deciders[d].head + 1]]
    BY <1>3, <2>2 DEF Land
  <2>4. Merged(p, deciders[d].head) \in [Paths -> SUBSET (Proposals \cup {Original})]
    BY <1>3, <2>1, MergedType DEF Land, Based, Unmoved, Open, Exists
  <2>5. /\ Len(versions') = Len(versions) + 1
        /\ \A v \in 1..Len(versions) : versions'[v] = versions[v]
    BY <1>3, <2>4, AppendProperties DEF Land, TypeOK
  <2>6. \A q \in Proposals \ {p} : proposals'[q] = proposals[q]
    BY <2>2, <2>3
  <2>7. proposals'[p] = [proposals[p] EXCEPT !.status = "accepted", !.landed = deciders[d].head + 1]
    BY <2>1, <2>2, <2>3
  <2>8. /\ proposals'[p].status = "accepted"
        /\ proposals'[p].line = proposals[p].line
        /\ proposals'[p].base = proposals[p].base
        /\ proposals'[p].changes = proposals[p].changes
    BY <2>2, <2>7 DEF ProposalRecord
  <2>9. QED
    BY <2>1, <2>5, <2>6, <2>8 DEF Current, Exists
<1>4. QED
  <2>1. CASE \E p \in Proposals : Filed(p) \/ Settled(p) \/ Released(p)
    BY <1>0, <1>2, <2>1 DEF Current, Exists, Open
  <2>2. CASE \E d \in Deciders : Land(d)
    <3>1. PICK d \in Deciders : Land(d)
      BY <2>2
    <3> DEFINE p == deciders[d].target
    <3>2. /\ p \in Proposals /\ Open(p) /\ Current' = Current + 1
          /\ \A v \in 1..Current : versions'[v] = versions[v]
          /\ \A q \in Proposals \ {p} : proposals'[q] = proposals[q]
          /\ proposals'[p].status = "accepted"
          /\ proposals'[p].line = proposals[p].line
          /\ proposals'[p].base = proposals[p].base
          /\ proposals'[p].changes = proposals[p].changes
      BY <1>3, <3>1
    <3> HIDE DEF p
    <3>3. QED
      BY <1>0, <3>2 DEF Exists, Open
  <2>3. QED
    BY <1>1, <2>1, <2>2, RoomMoves

(* A call that lands its proposal is no longer reading or merging.         *)
LEMMA LandEnds ==
  ASSUME TypeOK, NEW d \in Deciders, Land(d)
  PROVE  /\ deciders[d].stage = "merging"
         /\ \/ deciders'[d].stage = "idle"
            \/ deciders'[d].stage = "closing" /\ deciders'[d].target = deciders[d].target
<1> DEFINE p == deciders[d].target
           c == [Resting EXCEPT !.stage = "closing", !.target = p, !.close = Tail(proposals[p].line)]
<1>0. DOMAIN deciders = Deciders
  BY DEF TypeOK
<1>1. deciders[d].stage = "merging"
  BY DEF Land
<1>2. deciders' = [deciders EXCEPT ![d] = c] \/ deciders' = [deciders EXCEPT ![d] = Resting]
  BY DEF Land, Return
<1>3. c.stage = "closing" /\ c.target = p /\ Resting.stage = "idle"
  BY DEF Resting
<1>4. deciders'[d] = c \/ deciders'[d] = Resting
  BY <1>0, <1>2
<1>5. QED
  BY <1>1, <1>3, <1>4

(* A call of accept goes on with the proposal it was made for.             *)
LEMMA CallsGoOn ==
  ASSUME TypeOK, Based, [Next]_vars, NEW d \in Deciders
  PROVE  \/ deciders'[d].stage = "idle"
         \/ /\ deciders[d].stage # "idle" /\ deciders'[d].target = deciders[d].target
            /\ deciders'[d].stage \in {"reading", "merging"}
                 => deciders[d].stage \in {"reading", "merging"} /\ ~Land(d)
         \/ \E p \in Proposals : Accept(d, p) /\ deciders'[d].target = p
<1> DEFINE Goal == \/ deciders'[d].stage = "idle"
                   \/ /\ deciders[d].stage # "idle" /\ deciders'[d].target = deciders[d].target
                      /\ deciders'[d].stage \in {"reading", "merging"}
                           => deciders[d].stage \in {"reading", "merging"} /\ ~Land(d)
                   \/ \E p \in Proposals : Accept(d, p) /\ deciders'[d].target = p
<1>0. DOMAIN deciders = Deciders /\ deciders[d] \in DeciderRecord
  BY DEF TypeOK, DeciderRecord
<1>1. CASE deciders' = deciders
  <2>1. Land(d) => FALSE
    BY <1>1, LandEnds
  <2>2. QED
    BY <1>1, <2>1
<1>2. ASSUME NEW e \in Deciders, Decide(e) \/ DeciderDies(e), e # d PROVE Goal
  <2>1. deciders'[d] = deciders[d]
    BY <1>0, <1>2 DEF Decide, DeciderDies, ReadHead, TransitionFails, Conflict, Land, CloseReplaced,
         ListOpen, Sweep, ListWorks, StopWork, Leave, Return
  <2>2. Land(d) => deciders'[d] # deciders[d]
    BY LandEnds
  <2>3. QED
    BY <2>1, <2>2
<1>3. ASSUME Decide(d) \/ DeciderDies(d) PROVE Goal
  <2>1. CASE ReadHead(d)
    <3>1. deciders'[d] = [deciders[d] EXCEPT !.stage = "merging", !.head = Current]
      BY <1>0, <2>1 DEF ReadHead
    <3>2. deciders'[d].target = deciders[d].target /\ deciders[d].stage = "reading"
      BY <1>0, <2>1, <3>1 DEF ReadHead, DeciderRecord
    <3>3. QED
      BY <3>2 DEF Land
  <2>2. CASE TransitionFails(d)
    <3>1. CASE ~ Unmoved(d) /\ deciders[d].tries > 1
      <4>1. deciders'[d] = [deciders[d] EXCEPT !.stage = "reading", !.tries = @ - 1]
        BY <1>0, <2>2, <3>1 DEF TransitionFails
      <4>2. deciders'[d].target = deciders[d].target /\ deciders[d].stage = "merging"
        BY <1>0, <2>2, <4>1 DEF TransitionFails, DeciderRecord
      <4>3. QED
        BY <3>1, <4>2 DEF Land
    <3>2. CASE ~ (~ Unmoved(d) /\ deciders[d].tries > 1)
      BY <1>0, <2>2, <3>2 DEF TransitionFails, Return, Resting
    <3>3. QED
      BY <3>1, <3>2
  <2>3. CASE Conflict(d) \/ Leave(d) \/ DeciderDies(d)
    BY <1>0, <2>3 DEF Conflict, Leave, DeciderDies, Return, Resting
  <2>4. CASE Land(d)
    BY <2>4, LandEnds
  <2>5. CASE CloseReplaced(d)
    <3>1. deciders'[d] = [deciders[d] EXCEPT !.close = Tail(@)]
      BY <1>0, <2>5 DEF CloseReplaced
    <3>2. QED
      BY <1>0, <2>5, <3>1 DEF CloseReplaced, DeciderRecord
  <2>6. CASE ListOpen(d)
    <3>1. \E R : deciders'[d] = [deciders[d] EXCEPT !.stage = "sweeping", !.rest = R]
      BY <1>0, <2>6 DEF ListOpen
    <3>2. QED
      BY <1>0, <2>6, <3>1 DEF ListOpen, DeciderRecord
  <2>7. ASSUME NEW q \in Proposals, Sweep(d, q) PROVE Goal
    <3>1. deciders'[d] = [deciders[d] EXCEPT !.rest = @ \ {q}]
      BY <1>0, <2>7 DEF Sweep
    <3>2. QED
      BY <1>0, <2>7, <3>1 DEF Sweep, DeciderRecord
  <2>8. CASE ListWorks(d)
    <3>1. \E R : deciders'[d] = [deciders[d] EXCEPT !.stage = "stopping", !.rest = R]
      BY <1>0, <2>8 DEF ListWorks
    <3>2. QED
      BY <1>0, <2>8, <3>1 DEF ListWorks, DeciderRecord
  <2>9. ASSUME NEW w \in Works, StopWork(d, w) PROVE Goal
    <3>1. deciders'[d] = [deciders[d] EXCEPT !.rest = @ \ {w}]
      BY <1>0, <2>9 DEF StopWork
    <3>2. QED
      BY <1>0, <2>9, <3>1 DEF StopWork, DeciderRecord
  <2>10. QED
    BY <1>3, <2>1, <2>2, <2>3, <2>4, <2>5, <2>6, <2>7, <2>8, <2>9 DEF Decide
<1>4. ASSUME NEW e \in Deciders, NEW p \in Proposals, Accept(e, p) PROVE Goal
  <2>1. CASE e = d
    <3>1. deciders'[d] = [Resting EXCEPT !.stage = "reading", !.target = p, !.tries = AcceptAttempts]
      BY <1>0, <1>4, <2>1 DEF Accept
    <3>2. QED
      BY <1>4, <2>1, <3>1 DEF Resting
  <2>2. CASE e # d
    <3>1. deciders'[d] = deciders[d]
      BY <1>0, <1>4, <2>2 DEF Accept
    <3>2. Land(d) => deciders'[d] # deciders[d]
      BY LandEnds
    <3>3. QED
      BY <3>1, <3>2
  <2>3. QED
    BY <2>1, <2>2
<1>5. CASE \/ UNCHANGED vars
           \/ \E p \in Drafts : Propose(p)
           \/ \E p \in Proposals : Reject(p) \/ ReleaseHeld(p)
           \/ \E w \in Works : Ask(w) \/ MeshEnds(w)
           \/ \E k \in Leases : LapseGone(k) \/ LapseHeld(k)
  BY <1>1, <1>5 DEF vars, Propose, Reject, ReleaseHeld, Ask, MeshEnds, LapseGone, LapseHeld
<1>6. CASE \E f \in Finishers : \/ Finish(f) \/ Refuse(f) \/ Disagree(f) \/ FinisherDies(f)
                                \/ \E w \in Works : TimeOut(f, w) \/ StartFinish(f, w)
  BY <1>1, <1>6 DEF Finish, File, NoteFinished, NoteFailed, Refuse, Disagree, FinisherDies, TimeOut,
       StartFinish
<1>7. QED
  BY <1>2, <1>3, <1>4, <1>5, <1>6 DEF Next

(* Work that was asked stays as it was asked, and is finished by whoever   *)
(* notes it.                                                               *)
LEMMA WorksKept ==
  ASSUME TypeOK, Based, [Next]_vars, NEW w \in Works
  PROVE  /\ Asked(w) => /\ Asked(w)' /\ works'[w].base = works[w].base
                        /\ works'[w].revises = works[w].revises
         /\ ~Asked(w) /\ Asked(w)' =>
              /\ works'[w].base = Current /\ versions' = versions
              /\ works'[w].revises \in {q \in Proposals : Exists(q)} \cup {None}
         /\ \/ works'[w].finished = works[w].finished
            \/ \E f \in Finishers : /\ NoteFinished(f) /\ finishers[f].work = w
                                    /\ works'[w].finished = works[w].finished + 1
<1> DEFINE Goal ==
      /\ Asked(w) => /\ Asked(w)' /\ works'[w].base = works[w].base
                     /\ works'[w].revises = works[w].revises
      /\ ~Asked(w) /\ Asked(w)' =>
           /\ works'[w].base = Current /\ versions' = versions
           /\ works'[w].revises \in {q \in Proposals : Exists(q)} \cup {None}
      /\ \/ works'[w].finished = works[w].finished
         \/ \E f \in Finishers : /\ NoteFinished(f) /\ finishers[f].work = w
                                 /\ works'[w].finished = works[w].finished + 1
<1>0. DOMAIN works = Works /\ works[w] \in WorkRecord
  BY DEF TypeOK, WorkRecord
<1>1. ASSUME works'[w] = works[w] PROVE Goal
  BY <1>1 DEF Asked
<1>2. ASSUME NEW v \in Works, works' = Cancelled(v) PROVE Goal
  <2>1. CASE works' = works \/ v # w
    BY <1>0, <1>1, <1>2, <2>1 DEF Cancelled
  <2>2. CASE works' # works /\ v = w
    <3>1. works'[w] = [works[w] EXCEPT !.mesh = "cancelled"] /\ works[w].mesh = "running"
      BY <1>0, <1>2, <2>2 DEF Cancelled
    <3>2. QED
      BY <1>0, <3>1 DEF WorkRecord, Asked
  <2>3. QED
    BY <2>1, <2>2
<1>3. ASSUME NEW v \in Works, Ask(v) \/ MeshEnds(v) PROVE Goal
  <2>1. CASE v # w
    BY <1>0, <1>1, <1>3, <2>1 DEF Ask, MeshEnds
  <2>2. CASE Ask(w)
    <3>1. PICK r \in {q \in Proposals : Exists(q)} \cup {None} :
            works' = [works EXCEPT ![w].mesh = "running", ![w].base = Current, ![w].revises = r]
      BY <2>2 DEF Ask
    <3>2. works'[w] = [works[w] EXCEPT !.mesh = "running", !.base = Current, !.revises = r]
      BY <1>0, <3>1
    <3>3. QED
      BY <1>0, <2>2, <3>2 DEF WorkRecord, Ask, Asked
  <2>3. CASE MeshEnds(w)
    <3>1. \E c : works'[w] = [works[w] EXCEPT !.mesh = "done", !.changes = c]
      BY <1>0, <2>3 DEF MeshEnds
    <3>2. QED
      BY <1>0, <2>3, <3>1 DEF WorkRecord, MeshEnds, Asked
  <2>4. QED
    BY <1>3, <2>1, <2>2, <2>3
<1>4. ASSUME NEW f \in Finishers,
             \/ Finish(f) \/ Refuse(f) \/ Disagree(f) \/ FinisherDies(f)
             \/ \E v \in Works : TimeOut(f, v) \/ StartFinish(f, v)
      PROVE  Goal
  <2> DEFINE u == finishers[f].work
  <2>1. CASE works' = works
    BY <1>1, <2>1
  <2>2. CASE NoteFinished(f)
    <3>1. u \in Works /\ works' = [works EXCEPT ![u].finished = @ + 1]
      BY <2>2 DEF NoteFinished, Based
    <3>2. CASE u # w
      BY <1>0, <1>1, <3>1, <3>2
    <3>3. CASE u = w
      <4>1. works'[w] = [works[w] EXCEPT !.finished = @ + 1]
        BY <1>0, <3>1, <3>3
      <4>2. QED
        BY <1>0, <2>2, <3>3, <4>1 DEF WorkRecord, Asked
    <3>4. QED
      BY <3>2, <3>3
  <2>3. CASE NoteFailed(f) \/ Refuse(f)
    <3>1. u \in Works /\ works' = [works EXCEPT ![u].failed = TRUE]
      BY <2>3 DEF NoteFailed, Refuse, Based
    <3>2. CASE u # w
      BY <1>0, <1>1, <3>1, <3>2
    <3>3. CASE u = w
      <4>1. works'[w] = [works[w] EXCEPT !.failed = TRUE]
        BY <1>0, <3>1, <3>3
      <4>2. QED
        BY <1>0, <4>1 DEF WorkRecord, Asked
    <3>4. QED
      BY <3>2, <3>3
  <2>4. ASSUME NEW v \in Works, TimeOut(f, v) PROVE Goal
    BY <1>2, <2>4 DEF TimeOut
  <2>5. QED
    BY <1>4, <2>1, <2>2, <2>3, <2>4 DEF Finish, File, Disagree, FinisherDies, StartFinish
<1>5. ASSUME NEW d \in Deciders, Decide(d) \/ DeciderDies(d) \/ \E p \in Proposals : Accept(d, p)
      PROVE  Goal
  <2>1. ASSUME NEW v \in Works, StopWork(d, v) PROVE Goal
    <3>1. works' = Cancelled(v) \/ works' = works
      BY <2>1 DEF StopWork
    <3>2. QED
      BY <1>1, <1>2, <3>1
  <2>2. CASE works' = works
    BY <1>1, <2>2
  <2>3. QED
    BY <1>5, <2>1, <2>2 DEF Decide, DeciderDies, Accept, ReadHead, TransitionFails, Conflict, Land,
         CloseReplaced, ListOpen, Sweep, ListWorks, Leave
<1>6. CASE \/ UNCHANGED vars
           \/ \E p \in Drafts : Propose(p)
           \/ \E p \in Proposals : Reject(p) \/ ReleaseHeld(p)
           \/ \E k \in Leases : LapseGone(k) \/ LapseHeld(k)
  BY <1>1, <1>6 DEF vars, Propose, Reject, ReleaseHeld, LapseGone, LapseHeld
<1>7. QED
  BY <1>3, <1>4, <1>5, <1>6 DEF Next

(* A process that follows work goes on with it.                            *)
LEMMA FollowersGoOn ==
  ASSUME TypeOK, Based, [Next]_vars, NEW f \in Finishers
  PROVE  \/ finishers'[f].stage = "idle"
         \/ /\ finishers[f].stage # "idle" /\ finishers'[f].work = finishers[f].work
            /\ finishers'[f].stage \in {"filing", "noting"}
                 => finishers[f].stage \in {"filing", "noting"} /\ ~NoteFinished(f)
         \/ \E w \in Works : StartFinish(f, w) /\ finishers'[f].work = w
         \/ \E w \in Works : /\ TimeOut(f, w) /\ finishers'[f].work = w
                             /\ finishers'[f].stage = "failing"
<1> DEFINE F == [stage : FinisherStages, work : Works \cup {None}, held : BOOLEAN]
           Goal == \/ finishers'[f].stage = "idle"
                   \/ /\ finishers[f].stage # "idle" /\ finishers'[f].work = finishers[f].work
                      /\ finishers'[f].stage \in {"filing", "noting"}
                           => finishers[f].stage \in {"filing", "noting"} /\ ~NoteFinished(f)
                   \/ \E w \in Works : StartFinish(f, w) /\ finishers'[f].work = w
                   \/ \E w \in Works : /\ TimeOut(f, w) /\ finishers'[f].work = w
                                       /\ finishers'[f].stage = "failing"
<1>0. DOMAIN finishers = Finishers /\ finishers[f] \in F
  BY DEF TypeOK
<1>a. NoteFinished(f) => finishers[f].stage = "noting" /\ finishers'[f].stage = "idle"
  BY <1>0 DEF NoteFinished, StopFollowing, Unoccupied
<1>1. ASSUME finishers'[f] = finishers[f] PROVE Goal
  BY <1>a, <1>1
<1>2. ASSUME NEW g \in Finishers, g # f,
             \/ Finish(g) \/ Refuse(g) \/ Disagree(g) \/ FinisherDies(g)
             \/ \E w \in Works : TimeOut(g, w) \/ StartFinish(g, w)
      PROVE  Goal
  <2>1. finishers'[f] = finishers[f]
    BY <1>0, <1>2 DEF Finish, File, NoteFinished, NoteFailed, Refuse, Disagree, FinisherDies,
         TimeOut, StartFinish, StopFollowing
  <2>2. QED
    BY <1>1, <2>1
<1>3. CASE File(f)
  <2>1. finishers'[f] = [finishers[f] EXCEPT !.stage = "noting", !.held = FALSE]
    BY <1>0, <1>3 DEF File
  <2>2. QED
    BY <1>0, <1>3, <2>1 DEF File, NoteFinished
<1>4. CASE NoteFinished(f) \/ NoteFailed(f) \/ Refuse(f) \/ Disagree(f) \/ FinisherDies(f)
  BY <1>0, <1>4 DEF NoteFinished, NoteFailed, Refuse, Disagree, FinisherDies, StopFollowing, Unoccupied
<1>5. ASSUME NEW w \in Works, TimeOut(f, w) PROVE Goal
  <2>1. finishers'[f] = [finishers[f] EXCEPT !.stage = "failing", !.work = w]
    BY <1>0, <1>5 DEF TimeOut
  <2>2. finishers'[f].work = w /\ finishers'[f].stage = "failing"
    BY <1>0, <2>1
  <2>3. QED
    BY <1>5, <2>2
<1>6. ASSUME NEW w \in Works, StartFinish(f, w) PROVE Goal
  <2>1. finishers'[f].work = w
    BY <1>0, <1>6 DEF StartFinish
  <2>2. QED
    BY <1>6, <2>1
<1>7. CASE \/ UNCHANGED vars
           \/ \E p \in Drafts : Propose(p)
           \/ \E p \in Proposals : Reject(p) \/ ReleaseHeld(p)
           \/ \E w \in Works : Ask(w) \/ MeshEnds(w)
           \/ \E k \in Leases : LapseGone(k) \/ LapseHeld(k)
  BY <1>1, <1>7 DEF vars, Propose, Reject, ReleaseHeld, Ask, MeshEnds, LapseGone, LapseHeld
<1>8. CASE \E d \in Deciders : Decide(d) \/ DeciderDies(d) \/ \E p \in Proposals : Accept(d, p)
  BY <1>1, <1>8 DEF Decide, DeciderDies, Accept, ReadHead, TransitionFails, Conflict, Land,
     CloseReplaced, ListOpen, Sweep, ListWorks, StopWork, Leave
<1>9. QED
  BY <1>2, <1>3, <1>4, <1>5, <1>6, <1>7, <1>8 DEF Next, Finish

(* A lease is lost only by running out, or by a holder that ends.          *)
LEMMA HoldersKept ==
  ASSUME TypeOK, Based, [Next]_vars
  PROVE  /\ outlived \subseteq outlived'
         /\ \A d \in Deciders, k \in Leases :
              leases[k] = d => leases'[k] = d \/ k \in outlived' \/ deciders'[d].stage = "idle"
         /\ \A f \in Finishers, k \in Leases :
              leases[k] = f => leases'[k] = f \/ k \in outlived' \/ finishers'[f].stage = "idle"
<1> USE DEF faults
<1>0. /\ DOMAIN leases = Leases /\ DOMAIN deciders = Deciders /\ DOMAIN finishers = Finishers
      /\ Deciders \cap Finishers = {} /\ Free \notin Actors /\ Gone \notin Actors
      /\ Deciders \subseteq Actors /\ Finishers \subseteq Actors
      /\ Resting.stage = "idle" /\ Unoccupied.stage = "idle"
  BY DEF TypeOK, Actors, Resting, Unoccupied
<1>1. CASE leases' = leases /\ outlived' = outlived
  BY <1>1
<1>2. ASSUME NEW d \in Deciders, Return(d)
      PROVE  /\ \A k \in Leases : leases[k] \in Actors \ {d} => leases'[k] = leases[k]
             /\ deciders'[d].stage = "idle"
  BY <1>0, <1>2 DEF Return, Release
<1>3. ASSUME NEW d \in Deciders, Decide(d)
      PROVE  /\ outlived' = outlived
             /\ \/ leases' = leases
                \/ /\ \A k \in Leases : leases[k] \in Actors \ {d} => leases'[k] = leases[k]
                   /\ deciders'[d].stage = "idle"
  <2>1. outlived' = outlived
    BY <1>3 DEF Decide, ReadHead, TransitionFails, Conflict, Land, CloseReplaced, ListOpen, Sweep,
         ListWorks, StopWork, Leave
  <2>2. leases' = leases \/ Return(d)
    BY <1>3 DEF Decide, ReadHead, TransitionFails, Conflict, Land, CloseReplaced, ListOpen, Sweep,
         ListWorks, StopWork, Leave
  <2>3. QED
    BY <1>2, <2>1, <2>2
<1>4. ASSUME NEW f \in Finishers, Finish(f) \/ Refuse(f) \/ Disagree(f)
      PROVE  /\ outlived' = outlived
             /\ \/ leases' = leases
                \/ /\ \A k \in Leases : leases[k] \in Actors \ {f} => leases'[k] = leases[k]
                   /\ finishers'[f].stage = "idle"
  <2>1. outlived' = outlived
    BY <1>4 DEF Finish, File, NoteFinished, NoteFailed, Refuse, Disagree
  <2>2. leases' = leases \/ StopFollowing(f)
    BY <1>4 DEF Finish, File, NoteFinished, NoteFailed, Refuse, Disagree
  <2>3. QED
    BY <1>0, <2>1, <2>2 DEF StopFollowing, Release
<1>5. ASSUME NEW a \in Actors, leases' = Abandoned(a), outlived' = outlived,
             \/ a \in Deciders /\ deciders'[a].stage = "idle"
             \/ a \in Finishers /\ finishers'[a].stage = "idle"
      PROVE  /\ \A d \in Deciders, k \in Leases :
                  leases[k] = d => leases'[k] = d \/ deciders'[d].stage = "idle"
             /\ \A f \in Finishers, k \in Leases :
                  leases[k] = f => leases'[k] = f \/ finishers'[f].stage = "idle"
  BY <1>0, <1>5 DEF Abandoned
<1>6. CASE \E d \in Deciders : DeciderDies(d)
  BY <1>0, <1>5, <1>6 DEF DeciderDies
<1>7. CASE \E f \in Finishers : FinisherDies(f)
  BY <1>0, <1>5, <1>7 DEF FinisherDies
<1>8. ASSUME NEW k \in Leases, NEW a \in Actors, Take(k, a)
      PROVE  \A j \in Leases : leases[j] \in Actors => leases'[j] = leases[j]
  BY <1>0, <1>8 DEF Take
<1>9. CASE \E d \in Deciders, p \in Proposals : Accept(d, p)
  <2>1. PICK d \in Deciders, p \in Proposals : Accept(d, p)
    BY <1>9
  <2>2. leases[LineLease(p)] = Free /\ leases' = [leases EXCEPT ![LineLease(p)] = d]
        /\ outlived' = outlived
    BY <2>1 DEF Accept, Take
  <2>3. \A j \in Leases : leases[j] \in Actors => leases'[j] = leases[j]
    BY <1>0, <2>2
  <2>4. QED
    BY <1>0, <2>2, <2>3
<1>10. CASE \E f \in Finishers, w \in Works : StartFinish(f, w)
  <2>1. PICK f \in Finishers, w \in Works : StartFinish(f, w)
    BY <1>10
  <2>2. Take(<<"finishing", w>>, f) /\ outlived' = outlived
    BY <2>1 DEF StartFinish
  <2>3. \A j \in Leases : leases[j] \in Actors => leases'[j] = leases[j]
    BY <1>0, <1>8, <2>2, LeaseNames
  <2>4. QED
    BY <1>0, <2>2, <2>3
<1>11. CASE \E k \in Leases : LapseGone(k) \/ LapseHeld(k)
  BY <1>0, <1>11 DEF LapseGone, LapseHeld
<1>12. CASE \/ UNCHANGED vars
            \/ \E p \in Drafts : Propose(p)
            \/ \E p \in Proposals : Reject(p) \/ ReleaseHeld(p)
            \/ \E w \in Works : Ask(w) \/ MeshEnds(w)
            \/ \E f \in Finishers, w \in Works : TimeOut(f, w)
  BY <1>1, <1>12 DEF vars, Propose, Reject, ReleaseHeld, Ask, MeshEnds, TimeOut
<1>13. CASE \E d \in Deciders : Decide(d)
  BY <1>0, <1>3, <1>13
<1>14. CASE \E f \in Finishers : Finish(f) \/ Refuse(f) \/ Disagree(f)
  BY <1>0, <1>4, <1>14
<1>15. QED
  BY <1>6, <1>7, <1>9, <1>10, <1>11, <1>12, <1>13, <1>14 DEF Next

(* What landing does, and that nothing else accepts.                       *)
LEMMA Landing ==
  ASSUME TypeOK, Based, NEW d \in Deciders, Land(d), NEW p, p = deciders[d].target
  PROVE  /\ p \in Proposals /\ Open(p) /\ p \notin Accepted
         /\ deciders[d].head = Current
         /\ Contested(p, Current) = Mergeable(p, Current)
         /\ Current' = Current + 1
         /\ \A v \in 1..Current : versions'[v] = versions[v]
         /\ versions'[Current + 1] = Merged(p, Current)
         /\ \A q \in Proposals \ {p} : proposals'[q] = proposals[q]
         /\ proposals'[p].status = "accepted" /\ proposals'[p].landed = Current + 1
         /\ proposals'[p].line = proposals[p].line
         /\ proposals'[p].base = proposals[p].base
         /\ proposals'[p].changes = proposals[p].changes
         /\ Accepted' = Accepted \cup {p}
<1>1. /\ p \in Proposals /\ Open(p) /\ deciders[d].head = Current
      /\ Contested(p, Current) = Mergeable(p, Current)
  BY DEF Land, Based, Undecided, Unmoved
<1>2. proposals[p] \in ProposalRecord /\ DOMAIN proposals = Proposals
  BY <1>1 DEF TypeOK
<1>3. proposals' = [proposals EXCEPT ![p] =
                      [proposals[p] EXCEPT !.status = "accepted", !.landed = Current + 1]]
  BY <1>1, <1>2 DEF Land
<1>4. Merged(p, Current) \in [Paths -> SUBSET (Proposals \cup {Original})]
  BY <1>1, MergedType DEF Based, Open, Exists
<1>5. versions' = Append(versions, Merged(p, Current))
  BY <1>1 DEF Land
<1>6. /\ Len(versions') = Len(versions) + 1
      /\ \A v \in 1..Len(versions) : versions'[v] = versions[v]
      /\ versions'[Len(versions) + 1] = Merged(p, Current)
  BY <1>4, <1>5, AppendProperties DEF TypeOK
<1>7. \A q \in Proposals \ {p} : proposals'[q] = proposals[q]
  BY <1>2, <1>3
<1>8. proposals'[p] = [proposals[p] EXCEPT !.status = "accepted", !.landed = Current + 1]
  BY <1>1, <1>2, <1>3
<1>9. /\ proposals'[p].status = "accepted" /\ proposals'[p].landed = Current + 1
      /\ proposals'[p].line = proposals[p].line
      /\ proposals'[p].base = proposals[p].base
      /\ proposals'[p].changes = proposals[p].changes
  BY <1>2, <1>8 DEF ProposalRecord
<1>10. p \notin Accepted
  BY <1>1 DEF Accepted, Open
<1>11. Accepted' = Accepted \cup {p}
  BY <1>1, <1>7, <1>9 DEF Accepted
<1>12. QED
  BY <1>1, <1>6, <1>7, <1>9, <1>10, <1>11 DEF Current

LEMMA AcceptedMoves ==
  ASSUME TypeOK, Based, [Next]_vars
  PROVE  \/ Accepted' = Accepted /\ versions' = versions
         \/ \E d \in Deciders : Land(d)
<1>1. CASE UNCHANGED <<versions, proposals>>
  BY <1>1 DEF Accepted
<1>2. ASSUME NEW p \in Proposals, Filed(p) \/ Settled(p) \/ Released(p)
      PROVE  Accepted' = Accepted /\ versions' = versions
  <2>0. DOMAIN proposals = Proposals /\ proposals[p] \in ProposalRecord
    BY DEF TypeOK
  <2>1. versions' = versions /\ \A q \in Proposals \ {p} : proposals'[q] = proposals[q]
    BY <1>2, <2>0 DEF Filed, Settled, Released
  <2>2. proposals[p].status # "accepted"
    BY <1>2 DEF Filed, Settled, Released, Open, Exists
  <2>3. proposals'[p].status # "accepted"
    <3>1. CASE Filed(p)
      BY <2>0, <3>1 DEF Filed, OpenProposal
    <3>2. CASE Settled(p)
      <4>1. PICK x \in {"rejected", "conflicted"} : proposals' = [proposals EXCEPT ![p].status = x]
        BY <3>2 DEF Settled
      <4>2. proposals'[p].status = x
        BY <2>0, <4>1 DEF ProposalRecord
      <4>3. QED
        BY <4>2
    <3>3. CASE Released(p)
      BY <2>0, <3>3 DEF Released, Open, ProposalRecord
    <3>4. QED
      BY <1>2, <3>1, <3>2, <3>3
  <2>4. QED
    BY <2>1, <2>2, <2>3 DEF Accepted
<1>3. QED
  BY <1>1, <1>2, RoomMoves

LEMMA BasedStep == TypeOK /\ Based /\ [Next]_vars => Based'
<1> SUFFICES ASSUME TypeOK, Based, [Next]_vars PROVE Based'
  OBVIOUS
<1>1. Current' \in Nat \ {0} /\ Current \in Nat \ {0} /\ Current <= Current'
  BY RoomKept DEF Based
<1>2. \A p \in Proposals : Exists(p)' => proposals'[p].base \in 1..Current'
  <2>1. ASSUME NEW p \in Proposals, Exists(p) PROVE proposals'[p].base \in 1..Current'
    BY <1>1, <2>1, RoomKept DEF Based
  <2>2. ASSUME NEW p \in Proposals, ~Exists(p), Exists(p)' PROVE proposals'[p].base \in 1..Current
    <3>0. DOMAIN proposals = Proposals
      BY DEF TypeOK
    <3>1. ~ \E d \in Deciders : Land(d)
      <4> SUFFICES ASSUME NEW d \in Deciders, Land(d) PROVE FALSE
        OBVIOUS
      <4> DEFINE q == deciders[d].target
      <4>1. q \in Proposals /\ Open(q) /\ \A x \in Proposals \ {q} : proposals'[x] = proposals[x]
        BY Landing
      <4>2. QED
        BY <2>2, <4>1 DEF Open, Exists
    <3>2. \E q \in Proposals : Filed(q) \/ Settled(q) \/ Released(q)
      BY <2>2, <3>1, RoomMoves DEF Exists
    <3>3. Filed(p)
      BY <2>2, <3>0, <3>2 DEF Filed, Settled, Released, Open, Exists
    <3>4. \E b \in 1..Current : proposals'[p].base = b
      BY <3>0, <3>3 DEF Filed, OpenProposal
    <3>5. QED
      BY <3>4
  <2>3. QED
    BY <1>1, <2>1, <2>2
<1>3. \A p \in Accepted' : proposals'[p].landed \in 2..Current'
  <2>1. CASE \E d \in Deciders : Land(d)
    <3>1. PICK d \in Deciders : Land(d)
      BY <2>1
    <3> DEFINE q == deciders[d].target
    <3>2. /\ q \in Proposals /\ Current' = Current + 1
          /\ \A x \in Proposals \ {q} : proposals'[x] = proposals[x]
          /\ proposals'[q].landed = Current + 1 /\ Accepted' = Accepted \cup {q}
      BY <3>1, Landing
    <3> HIDE DEF q
    <3>3. \A p \in Accepted : proposals[p].landed \in 2..Current
      BY DEF Based
    <3>4. QED
      BY <1>1, <3>2, <3>3 DEF Accepted
  <2>2. CASE Accepted' = Accepted
    <3>1. \A p \in Accepted : proposals'[p] = proposals[p]
      BY RoomKept DEF Accepted
    <3>2. QED
      BY <1>1, <2>2, <3>1 DEF Based
  <2>3. QED
    BY <2>1, <2>2, AcceptedMoves
<1>4. \A p \in Proposals : Exists(p) => Exists(p)'
  BY RoomKept
<1>5. \A w \in Works : Asked(w)' =>
        /\ works'[w].base \in 1..Current'
        /\ works'[w].revises = None
           \/ \E q \in Proposals : q = works'[w].revises /\ Exists(q)'
  <2> SUFFICES ASSUME NEW w \in Works, Asked(w)'
               PROVE  /\ works'[w].base \in 1..Current'
                      /\ works'[w].revises = None
                         \/ \E q \in Proposals : q = works'[w].revises /\ Exists(q)'
    OBVIOUS
  <2>1. CASE Asked(w)
    <3>1. works'[w].base = works[w].base /\ works'[w].revises = works[w].revises
      BY <2>1, WorksKept
    <3>2. works[w].base \in 1..Current /\ (works[w].revises = None \/ Exists(works[w].revises))
          /\ works[w].revises \in Proposals \cup {None}
      BY <2>1 DEF Based, TypeOK
    <3>3. QED
      BY <1>1, <1>4, <3>1, <3>2
  <2>2. CASE ~Asked(w)
    <3>1. /\ works'[w].base = Current /\ versions' = versions
          /\ works'[w].revises \in {q \in Proposals : Exists(q)} \cup {None}
      BY <2>2, WorksKept
    <3>2. QED
      BY <1>1, <1>4, <3>1
  <2>3. QED
    BY <2>1, <2>2
<1>6. \A d \in Deciders : deciders'[d].stage # "idle" =>
        \E q \in Proposals : q = deciders'[d].target /\ Exists(q)'
  <2> SUFFICES ASSUME NEW d \in Deciders, deciders'[d].stage # "idle"
               PROVE  \E q \in Proposals : q = deciders'[d].target /\ Exists(q)'
    OBVIOUS
  <2>1. CASE deciders[d].stage # "idle" /\ deciders'[d].target = deciders[d].target
    BY <1>4, <2>1 DEF Based
  <2>2. CASE \E p \in Proposals : Accept(d, p) /\ deciders'[d].target = p
    BY <1>4, <2>2 DEF Accept, Open, Exists
  <2>3. QED
    BY <2>1, <2>2, CallsGoOn
<1>7. \A f \in Finishers : finishers'[f].stage # "idle" =>
        \E w \in Works : w = finishers'[f].work /\ Asked(w)'
  <2> SUFFICES ASSUME NEW f \in Finishers, finishers'[f].stage # "idle"
               PROVE  \E w \in Works : w = finishers'[f].work /\ Asked(w)'
    OBVIOUS
  <2>1. CASE finishers[f].stage # "idle" /\ finishers'[f].work = finishers[f].work
    BY <2>1, WorksKept DEF Based
  <2>2. CASE \E w \in Works : (StartFinish(f, w) \/ TimeOut(f, w)) /\ finishers'[f].work = w
    <3>1. PICK w \in Works : (StartFinish(f, w) \/ TimeOut(f, w)) /\ finishers'[f].work = w
      BY <2>2
    <3>2. Asked(w)
      BY <3>1 DEF StartFinish, TimeOut, Asked
    <3>3. QED
      BY <3>1, <3>2, WorksKept
  <2>3. QED
    BY <2>1, <2>2, FollowersGoOn
<1>8. QED
  BY <1>1, <1>2, <1>3, <1>5, <1>6, <1>7 DEF Based, Exists, Asked

(* The room's records are what its declarations say, and no record names a *)
(* version, a proposal or a work that is not there.                        *)
THEOREM RoomTypeCorrect == Spec => [](TypeOK /\ Based)
<1>1. Init => TypeOK /\ Based
  BY TypeInit
<1>2. TypeOK /\ Based /\ [Next]_vars => (TypeOK /\ Based)'
  BY TypeStep, BasedStep
<1>3. QED
  BY <1>1, <1>2, PTL DEF Spec

-----------------------------------------------------------------------------
(* Lines of work                                                           *)

(* What a proposal revises was there before it, in a line that began where *)
(* its own did.                                                            *)
Lines ==
  \A p \in Proposals : Exists(p) =>
    /\ proposals[p].line # <<>> /\ p \in Lineage(p)
    /\ \A q \in Lineage(p) : Exists(q) /\ Start(q) = Start(p)

LEMMA OwnThenRevised ==
  ASSUME NEW p \in Proposals, NEW t \in Seq(Proposals)
  PROVE  /\ <<p>> \o t # <<>>
         /\ ToSet(<<p>> \o t) = {p} \cup ToSet(t)
         /\ t = <<>> => Last(<<p>> \o t) = p
         /\ t # <<>> => Last(<<p>> \o t) = Last(t)
<1> DEFINE s == <<p>> \o t
<1>0. <<p>> \in Seq(Proposals) /\ Len(<<p>>) = 1 /\ <<p>>[1] = p
  OBVIOUS
<1>1. /\ s \in Seq(Proposals) /\ Len(s) = 1 + Len(t)
      /\ \A i \in 1..(1 + Len(t)) : s[i] = IF i <= 1 THEN <<p>>[i] ELSE t[i - 1]
  BY <1>0, ConcatProperties
<1>2. Len(t) \in Nat /\ DOMAIN t = 1..Len(t) /\ DOMAIN s = 1..(1 + Len(t))
  BY <1>1, LenProperties
<1>3. s[1] = p /\ \A i \in 1..Len(t) : s[i + 1] = t[i]
  BY <1>0, <1>1, <1>2
<1>4. s # <<>>
  BY <1>1, <1>2
<1>5. ToSet(s) = {p} \cup ToSet(t)
  <2>1. ASSUME NEW x \in ToSet(s) PROVE x \in {p} \cup ToSet(t)
    <3>1. PICK i \in 1..(1 + Len(t)) : x = s[i]
      BY <1>2, <2>1 DEF ToSet
    <3>2. i = 1 \/ (i - 1 \in 1..Len(t) /\ x = t[i - 1])
      BY <1>1, <1>2, <3>1
    <3>3. QED
      BY <1>2, <1>3, <3>1, <3>2 DEF ToSet
  <2>2. p \in ToSet(s)
    BY <1>2, <1>3 DEF ToSet
  <2>3. ASSUME NEW x \in ToSet(t) PROVE x \in ToSet(s)
    <3>1. PICK i \in 1..Len(t) : x = t[i]
      BY <1>2, <2>3 DEF ToSet
    <3>2. i + 1 \in DOMAIN s /\ s[i + 1] = x
      BY <1>2, <1>3, <3>1
    <3>3. QED
      BY <3>2 DEF ToSet
  <2>4. QED
    BY <2>1, <2>2, <2>3
<1>6. t = <<>> => Last(s) = p
  <2>1. t = <<>> => Len(t) = 0
    OBVIOUS
  <2>2. QED
    BY <1>1, <1>3, <2>1 DEF Last
<1>7. t # <<>> => Last(s) = Last(t)
  <2> SUFFICES ASSUME t # <<>> PROVE Last(s) = Last(t)
    OBVIOUS
  <2>1. Len(t) \in 1..Len(t) /\ Len(s) = Len(t) + 1
    BY <1>1, <1>2, EmptySeq
  <2>2. QED
    BY <1>3, <2>1 DEF Last
<1>8. QED
  BY <1>4, <1>5, <1>6, <1>7

LEMMA LastIsThere ==
  ASSUME NEW s \in Seq(Proposals), s # <<>>
  PROVE  Last(s) \in ToSet(s) /\ Last(s) \in Proposals
<1>1. Len(s) \in DOMAIN s
  BY EmptySeq, LenProperties
<1>2. QED
  BY <1>1, LenProperties, ElementOfSeq DEF ToSet, Last

LEMMA LinesStep ==
  ASSUME TypeOK, Based, Lines, [Next]_vars
  PROVE  Lines'
<1>0. DOMAIN proposals = Proposals /\ \A p \in Proposals : proposals[p].line \in Seq(Proposals)
  BY DEF TypeOK, ProposalRecord
<1>1. \A p \in Proposals : Exists(p) => Lineage(p) \subseteq Proposals
  <2> SUFFICES ASSUME NEW p \in Proposals PROVE Lineage(p) \subseteq Proposals
    OBVIOUS
  <2>1. QED
    BY <1>0, LenProperties DEF Lineage, ToSet
<1>2. \A p \in Proposals : Exists(p) => Exists(p)' /\ proposals'[p].line = proposals[p].line
  BY RoomKept
<1>3. ASSUME NEW p \in Proposals, Exists(p)
      PROVE  /\ proposals'[p].line # <<>> /\ p \in ToSet(proposals'[p].line)
             /\ \A q \in ToSet(proposals'[p].line) : Exists(q)' /\ Start(q)' = Start(p)'
  BY <1>1, <1>2, <1>3 DEF Lines, Lineage, Start
<1>4. ASSUME NEW p \in Proposals, ~Exists(p), Exists(p)'
      PROVE  /\ proposals'[p].line # <<>> /\ p \in ToSet(proposals'[p].line)
             /\ \A q \in ToSet(proposals'[p].line) : Exists(q)' /\ Start(q)' = Start(p)'
  <2>1. ~ \E d \in Deciders : Land(d)
    <3> SUFFICES ASSUME NEW d \in Deciders, Land(d) PROVE FALSE
      OBVIOUS
    <3> DEFINE q == deciders[d].target
    <3>1. q \in Proposals /\ Open(q) /\ \A x \in Proposals \ {q} : proposals'[x] = proposals[x]
      BY Landing
    <3>2. QED
      BY <1>4, <3>1 DEF Open, Exists
  <2>2. \E q \in Proposals : Filed(q) \/ Settled(q) \/ Released(q)
    BY <1>4, <2>1, RoomMoves DEF Exists
  <2>3. Filed(p)
    BY <1>0, <1>4, <2>2 DEF Filed, Settled, Released, Open, Exists
  <2>4. PICK r \in {q \in Proposals : Exists(q)} \cup {None} : proposals'[p].line = LineOf(p, r)
    BY <1>0, <2>3 DEF Filed, OpenProposal
  <2>5. CASE r = None
    <3>1. proposals'[p].line = <<p>>
      BY <2>4, <2>5, LineOfType
    <3>2. <<p>> # <<>> /\ DOMAIN <<p>> = {1} /\ <<p>>[1] = p
      OBVIOUS
    <3>3. ToSet(<<p>>) = {p}
      BY <3>2 DEF ToSet
    <3>4. QED
      BY <1>4, <3>1, <3>2, <3>3
  <2>6. CASE r # None
    <3> DEFINE t == proposals[r].line
    <3>1. r \in Proposals /\ Exists(r) /\ t \in Seq(Proposals) /\ proposals'[p].line = <<p>> \o t
      BY <2>4, <2>6, LineOfType
    <3>2. t # <<>> /\ r \in ToSet(t) /\ \A q \in ToSet(t) : q \in Proposals /\ Exists(q) /\ Start(q) = Last(t)
      BY <1>1, <3>1 DEF Lines, Lineage, Start
    <3>3. /\ proposals'[p].line # <<>>
          /\ ToSet(proposals'[p].line) = {p} \cup ToSet(t)
          /\ Last(proposals'[p].line) = Last(t)
      BY <3>1, <3>2, OwnThenRevised
    <3>4. \A q \in ToSet(t) : Exists(q)' /\ Start(q)' = Start(q)
      BY <1>2, <3>2 DEF Start
    <3> HIDE DEF t
    <3>5. QED
      BY <1>4, <3>2, <3>3, <3>4 DEF Start
  <2>7. QED
    BY <2>5, <2>6
<1>5. QED
  BY <1>3, <1>4 DEF Lines, Lineage

(* Lineages that meet are of one line.                                     *)
LEMMA OneLine ==
  ASSUME TypeOK, Lines, NEW p \in Proposals, NEW q \in Proposals, Exists(p), Exists(q)
  PROVE  Lineage(p) \cap Lineage(q) # {} <=> Start(p) = Start(q)
<1>1. /\ proposals[p].line \in Seq(Proposals) /\ proposals[p].line # <<>>
      /\ proposals[q].line \in Seq(Proposals) /\ proposals[q].line # <<>>
  BY DEF TypeOK, ProposalRecord, Lines
<1>2. Start(p) \in Lineage(p) /\ Start(q) \in Lineage(q)
  BY <1>1, LastIsThere DEF Start, Lineage
<1>3. QED
  BY <1>2 DEF Lines

-----------------------------------------------------------------------------
(* What the leases are for                                                 *)

LandedCounted == Cardinality(Accepted) + 1 = Current

(* A call of accept holds its line's lease, or outlived it; and while it   *)
(* holds it, no other version of its line lands before its own.            *)
LineHeld ==
  \A d \in Deciders : deciders[d].stage # "idle" =>
    LET k == LineLease(deciders[d].target) IN leases[k] = d \/ k \in outlived

Unrivalled ==
  \A d \in Deciders :
    deciders[d].stage \in {"reading", "merging"} /\ LineLease(deciders[d].target) \notin outlived
      => ~Overtaken(deciders[d].target)

(* Whoever finishes work holds its lease and finds it unfinished, or       *)
(* outlived the lease.                                                     *)
WorkHeld ==
  \A f \in Finishers : finishers[f].stage \in {"filing", "noting"} =>
    LET k == <<"finishing", finishers[f].work>> IN
    k \in outlived \/ (leases[k] = f /\ works[finishers[f].work].finished = 0)

RoomInvariant == TypeOK /\ Based /\ Lines /\ LandedCounted /\ LineHeld /\ Unrivalled /\ WorkHeld

LEMMA LandedCountedStep ==
  ASSUME TypeOK, Based, LandedCounted, [Next]_vars
  PROVE  LandedCounted'
<1>1. IsFiniteSet(Accepted) /\ Cardinality(Accepted) \in Nat
  BY FS_Subset, FS_CardinalityType DEF Accepted
<1>2. CASE Accepted' = Accepted /\ versions' = versions
  BY <1>2 DEF LandedCounted, Current
<1>3. CASE \E d \in Deciders : Land(d)
  <2>1. PICK d \in Deciders : Land(d)
    BY <1>3
  <2> DEFINE p == deciders[d].target
  <2>2. p \notin Accepted /\ Accepted' = Accepted \cup {p} /\ Current' = Current + 1
    BY <2>1, Landing
  <2> HIDE DEF p
  <2>3. Cardinality(Accepted \cup {p}) = Cardinality(Accepted) + 1
    BY <1>1, <2>2, FS_AddElement
  <2>4. QED
    BY <1>1, <2>2, <2>3 DEF LandedCounted
<1>4. QED
  BY <1>2, <1>3, AcceptedMoves

LEMMA LineLeases ==
  ASSUME TypeOK, Based, Lines, [Next]_vars, NEW p \in Proposals, Exists(p)
  PROVE  /\ LineLease(p) \in Leases
         /\ Start(p) \in Proposals
         /\ LineLease(p)' = LineLease(p) /\ Lineage(p)' = Lineage(p) /\ Start(p)' = Start(p)
<1>1. proposals[p].line \in Seq(Proposals) /\ proposals[p].line # <<>>
  BY DEF TypeOK, ProposalRecord, Lines
<1>2. Start(p) \in Proposals
  BY <1>1, LastIsThere DEF Start
<1>3. proposals'[p].line = proposals[p].line
  BY RoomKept
<1>4. QED
  BY <1>2, <1>3, LeaseNames DEF LineLease, Lineage, Start

(* The proposal a call decides, before the step and after it.              *)
LEMMA SameTarget ==
  ASSUME TypeOK, Based, Lines, [Next]_vars, NEW d \in Deciders, deciders'[d].stage # "idle"
  PROVE  \E p \in Proposals :
           /\ Exists(p) /\ deciders'[d].target = p
           /\ LineLease(deciders[d].target)' = LineLease(p)
           /\ \/ Accept(d, p)
              \/ /\ deciders[d].stage # "idle" /\ deciders[d].target = p
                 /\ deciders'[d].stage \in {"reading", "merging"}
                      => deciders[d].stage \in {"reading", "merging"} /\ ~Land(d)
<1>1. CASE /\ deciders[d].stage # "idle" /\ deciders'[d].target = deciders[d].target
           /\ deciders'[d].stage \in {"reading", "merging"}
                => deciders[d].stage \in {"reading", "merging"} /\ ~Land(d)
  <2> DEFINE p == deciders[d].target
  <2>1. p \in Proposals /\ Exists(p)
    BY <1>1 DEF Based
  <2>2. proposals'[p].line = proposals[p].line
    BY <2>1, RoomKept
  <2>3. LineLease(deciders[d].target)' = LineLease(p)
    BY <1>1, <2>2 DEF LineLease, Start
  <2>4. QED
    BY <1>1, <2>1, <2>3
<1>2. CASE \E p \in Proposals : Accept(d, p) /\ deciders'[d].target = p
  <2>1. PICK p \in Proposals : Accept(d, p) /\ deciders'[d].target = p
    BY <1>2
  <2>2. Exists(p) /\ proposals' = proposals
    BY <2>1 DEF Accept, Open, Exists
  <2>3. LineLease(deciders[d].target)' = LineLease(p)
    BY <2>1, <2>2 DEF LineLease, Start
  <2>4. QED
    BY <2>1, <2>2, <2>3
<1>3. QED
  BY <1>1, <1>2, CallsGoOn

LEMMA LineHeldStep ==
  ASSUME TypeOK, Based, Lines, LineHeld, [Next]_vars
  PROVE  LineHeld'
<1> SUFFICES ASSUME NEW d \in Deciders, deciders'[d].stage # "idle"
             PROVE  \/ leases'[LineLease(deciders[d].target)'] = d
                    \/ LineLease(deciders[d].target)' \in outlived'
  BY DEF LineHeld
<1>1. PICK p \in Proposals :
        /\ Exists(p) /\ deciders'[d].target = p
        /\ LineLease(deciders[d].target)' = LineLease(p)
        /\ Accept(d, p) \/ (deciders[d].stage # "idle" /\ deciders[d].target = p)
  BY SameTarget
<1>2. LineLease(p) \in Leases /\ DOMAIN leases = Leases
  BY <1>1, LineLeases DEF TypeOK
<1>3. CASE Accept(d, p)
  BY <1>1, <1>2, <1>3 DEF Accept, Take
<1>4. CASE deciders[d].stage # "idle" /\ deciders[d].target = p
  <2>1. leases[LineLease(p)] = d \/ LineLease(p) \in outlived
    BY <1>4 DEF LineHeld
  <2>2. QED
    BY <1>1, <1>2, <2>1, HoldersKept
<1>5. QED
  BY <1>1, <1>3, <1>4

LEMMA UnrivalledStep ==
  ASSUME TypeOK, Based, Lines, LineHeld, Unrivalled, [Next]_vars
  PROVE  Unrivalled'
<1> SUFFICES ASSUME NEW d \in Deciders, deciders'[d].stage \in {"reading", "merging"},
                    LineLease(deciders[d].target)' \notin outlived'
             PROVE  ~Overtaken(deciders[d].target)'
  BY DEF Unrivalled
<1>1. PICK p \in Proposals :
        /\ Exists(p) /\ deciders'[d].target = p
        /\ LineLease(deciders[d].target)' = LineLease(p)
        /\ \/ Accept(d, p)
           \/ /\ deciders[d].stage \in {"reading", "merging"} /\ ~Land(d)
              /\ deciders[d].target = p
  BY SameTarget
<1>2. LineLease(p) \notin outlived
  BY <1>1, HoldersKept
<1>3. ~Overtaken(p)
  BY <1>1, <1>2 DEF Accept, Unrivalled
<1>4. \A a \in Accepted : a \in Proposals /\ Exists(a) /\ Lineage(a)' = Lineage(a)
  BY LineLeases DEF Accepted, Exists
<1>5. Lineage(p)' = Lineage(p)
  BY <1>1, LineLeases
<1>6. CASE Accepted' = Accepted
  <2>1. \A a \in Accepted : a \in Lineage(p) \/ Lineage(p) \cap Lineage(a) = {}
    BY <1>3 DEF Overtaken
  <2>2. \A a \in Accepted' : a \in Lineage(p)' \/ Lineage(p)' \cap Lineage(a)' = {}
    BY <1>4, <1>5, <1>6, <2>1
  <2>3. QED
    BY <1>1, <2>2 DEF Overtaken, Lineage
<1>7. CASE \E e \in Deciders : Land(e)
  <2>1. PICK e \in Deciders : Land(e)
    BY <1>7
  <2>2. ~Accept(d, p) /\ deciders[d].target = p /\ deciders[d].stage # "idle" /\ e # d
    <3>1. deciders'[e].stage \notin {"reading", "merging"}
      BY <2>1, LandEnds
    <3>2. e # d
      BY <3>1
    <3>3. ~Accept(d, p)
      BY <2>1 DEF Land, Accept, Undecided
    <3>4. QED
      BY <1>1, <3>2, <3>3
  <2>3. PICK a : a = deciders[e].target
    OBVIOUS
  <2>4. /\ a \in Proposals /\ Open(a) /\ Accepted' = Accepted \cup {a}
        /\ proposals'[a].line = proposals[a].line
    BY <2>1, <2>3, Landing
  <2>5. Exists(a) /\ Lineage(a)' = Lineage(a)
    BY <2>4, LineLeases DEF Open, Exists
  <2>6. LineLease(a) # LineLease(p)
    <3>1. leases[LineLease(p)] = d
      BY <1>2, <2>2 DEF LineHeld
    <3>2. leases[LineLease(a)] = e \/ LineLease(a) \in outlived
      BY <2>1, <2>3 DEF LineHeld, Land
    <3>3. QED
      BY <1>2, <2>2, <3>1, <3>2
  <2>7. Lineage(p) \cap Lineage(a) = {}
    BY <1>1, <2>4, <2>5, <2>6, OneLine DEF LineLease
  <2>8. \A b \in Accepted : b \in Lineage(p) \/ Lineage(p) \cap Lineage(b) = {}
    BY <1>3 DEF Overtaken
  <2>9. \A b \in Accepted' : b \in Lineage(p)' \/ Lineage(p)' \cap Lineage(b)' = {}
    BY <1>4, <1>5, <2>4, <2>5, <2>7, <2>8
  <2>10. QED
    BY <1>1, <2>9 DEF Overtaken, Lineage
<1>8. QED
  BY <1>6, <1>7, AcceptedMoves

LEMMA WorkHeldStep ==
  ASSUME TypeOK, Based, WorkHeld, [Next]_vars
  PROVE  WorkHeld'
<1> SUFFICES ASSUME NEW f \in Finishers, finishers'[f].stage \in {"filing", "noting"},
                    NEW w, w = finishers'[f].work, NEW k, k = <<"finishing", w>>, k \notin outlived'
             PROVE  leases'[k] = f /\ works'[w].finished = 0
  BY DEF WorkHeld
<1>1. CASE \E u \in Works : StartFinish(f, u) /\ finishers'[f].work = u
  <2>1. /\ w \in Works /\ StartFinish(f, w) /\ k \in Leases
        /\ DOMAIN leases = Leases /\ works[w].finished \in Nat
    BY <1>1, LeaseNames DEF TypeOK
  <2>2. works' = works /\ ~Ended(w) /\ leases' = [leases EXCEPT ![k] = f]
    BY <2>1 DEF StartFinish, Take
  <2>3. QED
    BY <2>1, <2>2 DEF Ended
<1>2. CASE /\ finishers[f].stage \in {"filing", "noting"} /\ finishers[f].work = w
           /\ ~NoteFinished(f)
  <2>1. w \in Works /\ k \in Leases
    BY <1>2, LeaseNames DEF Based
  <2>2. leases[k] = f /\ works[w].finished = 0
    BY <1>2, HoldersKept DEF WorkHeld
  <2>3. leases'[k] = f
    BY <2>1, <2>2, HoldersKept
  <2>4. ~ \E g \in Finishers : NoteFinished(g) /\ finishers[g].work = w
    <3> SUFFICES ASSUME NEW g \in Finishers, NoteFinished(g), finishers[g].work = w PROVE FALSE
      OBVIOUS
    <3>1. leases[k] = g \/ k \in outlived
      BY DEF NoteFinished, WorkHeld
    <3>2. QED
      BY <1>2, <2>2, <3>1, HoldersKept
  <2>5. works'[w].finished = works[w].finished
    BY <2>1, <2>4, WorksKept
  <2>6. QED
    BY <2>2, <2>3, <2>5
<1>3. QED
  BY <1>1, <1>2, FollowersGoOn

LEMMA RoomInit == Init => RoomInvariant
<1> SUFFICES ASSUME Init PROVE RoomInvariant
  OBVIOUS
<1>1. \A p \in Proposals : ~Exists(p)
  BY DEF Init, Exists
<1>2. Accepted = {}
  BY DEF Init, Accepted
<1>3. Current = 1
  <2>1. Len(<<[p \in Paths |-> {Original}]>>) = 1
    OBVIOUS
  <2>2. QED
    BY <2>1 DEF Init, Current
<1>4. LandedCounted
  BY <1>2, <1>3, FS_EmptySet DEF LandedCounted
<1>5. LineHeld /\ Unrivalled /\ WorkHeld
  BY DEF Init, LineHeld, Unrivalled, WorkHeld, Resting, Unoccupied
<1>6. QED
  BY <1>1, <1>4, <1>5, TypeInit DEF RoomInvariant, Lines

LEMMA RoomStep == RoomInvariant /\ [Next]_vars => RoomInvariant'
BY TypeStep, BasedStep, LinesStep, LandedCountedStep, LineHeldStep, UnrivalledStep, WorkHeldStep
   DEF RoomInvariant

(* Lines of work stay lines, one proposal is accepted for every version,   *)
(* and the leases guard what they are for: whoever decides a line or       *)
(* finishes work has it to itself, unless it outlived its lease.           *)
THEOREM LeasesGuardTheirLines == Spec => []RoomInvariant
<1>1. QED
  BY RoomInit, RoomStep, PTL DEF Spec

LEMMA OneVersionLandsStep ==
  ASSUME RoomInvariant, OneVersionLands, [Next]_vars
  PROVE  OneVersionLands'
<1> USE DEF RoomInvariant
<1>1. \A p \in Accepted : /\ p \in Proposals /\ Exists(p) /\ proposals'[p] = proposals[p]
                          /\ proposals[p].landed \in 2..Current
  BY RoomKept DEF Accepted, Exists, Based
<1>2. \A p \in Accepted : Start(p)' = Start(p) /\ Lineage(p)' = Lineage(p)
  BY <1>1 DEF Start, Lineage
<1>3. outlived \subseteq outlived'
  BY HoldersKept
<1>4. ASSUME NEW p \in Accepted, NEW q \in Accepted
      PROVE  \/ Start(p)' # Start(q)' \/ <<"lineage", Start(p)'>> \in outlived'
             \/ p \in Lineage(q)' /\ proposals'[p].landed <= proposals'[q].landed
             \/ q \in Lineage(p)' /\ proposals'[q].landed <= proposals'[p].landed
  BY <1>1, <1>2, <1>3 DEF OneVersionLands
<1>5. CASE Accepted' = Accepted
  BY <1>4, <1>5 DEF OneVersionLands
<1>6. CASE \E d \in Deciders : Land(d)
  <2>1. PICK d \in Deciders : Land(d)
    BY <1>6
  <2>2. PICK a : a = deciders[d].target
    OBVIOUS
  <2>3. /\ a \in Proposals /\ Exists(a) /\ Accepted' = Accepted \cup {a}
        /\ proposals'[a].line = proposals[a].line /\ proposals'[a].landed = Current + 1
    BY <2>1, <2>2, Landing DEF Open, Exists
  <2>4. Start(a)' = Start(a) /\ Lineage(a)' = Lineage(a) /\ a \in Lineage(a)
    BY <2>3 DEF Start, Lineage, Lines
  <2>5. ~Overtaken(a) \/ <<"lineage", Start(a)>> \in outlived
    BY <2>1, <2>2 DEF Unrivalled, Land, LineLease
  <2>6. Current \in Nat
    BY CurrentType
  <2>7. ASSUME NEW q \in Accepted
        PROVE  \/ Start(a)' # Start(q)' \/ <<"lineage", Start(a)'>> \in outlived'
               \/ q \in Lineage(a)' /\ proposals'[q].landed <= proposals'[a].landed
    <3>1. proposals'[q].landed <= proposals'[a].landed
      BY <1>1, <2>3, <2>6
    <3>2. CASE Start(a) = Start(q) /\ <<"lineage", Start(a)>> \notin outlived
      <4>1. Lineage(a) \cap Lineage(q) # {}
        BY <1>1, <2>3, <3>2, OneLine
      <4>2. q \in Lineage(a)
        BY <2>5, <3>2, <4>1 DEF Overtaken
      <4>3. QED
        BY <2>4, <3>1, <4>2
    <3>3. QED
      BY <1>2, <1>3, <2>4, <3>2
  <2>8. proposals'[a].landed <= proposals'[a].landed
    BY <2>3, <2>6
  <2>9. QED
    BY <1>4, <2>3, <2>4, <2>7, <2>8 DEF OneVersionLands
<1>7. QED
  BY <1>5, <1>6, AcceptedMoves

(* Whoever accepts, in whatever process, and whichever of them die: of a   *)
(* line of work every accepted proposal revises those accepted before it,  *)
(* unless a call of accept outlived its lease.                             *)
THEOREM OneVersionOfALineLands == Spec => []OneVersionLands
<1>1. Init => OneVersionLands
  BY DEF Init, OneVersionLands, Accepted
<1>2. RoomInvariant /\ OneVersionLands /\ [Next]_vars => OneVersionLands'
  BY OneVersionLandsStep
<1>3. QED
  BY <1>1, <1>2, LeasesGuardTheirLines, PTL DEF Spec

LEMMA FinishedOnceStep ==
  ASSUME RoomInvariant, FinishedOnce, [Next]_vars
  PROVE  FinishedOnce'
<1> USE DEF RoomInvariant
<1> SUFFICES ASSUME NEW w \in Works, works'[w].finished > 1
             PROVE  <<"finishing", w>> \in outlived'
  BY DEF FinishedOnce
<1>1. outlived \subseteq outlived'
  BY HoldersKept
<1>2. CASE works'[w].finished = works[w].finished
  BY <1>1, <1>2 DEF FinishedOnce
<1>3. CASE \E f \in Finishers : /\ NoteFinished(f) /\ finishers[f].work = w
                                /\ works'[w].finished = works[w].finished + 1
  BY <1>1, <1>3 DEF NoteFinished, WorkHeld
<1>4. QED
  BY <1>2, <1>3, WorksKept

(* Work is finished once, however many processes follow it and whichever   *)
(* of them die, unless one outlived its finishing lease.                   *)
THEOREM WorkIsFinishedOnce == Spec => []FinishedOnce
<1>1. Init => FinishedOnce
  BY DEF Init, FinishedOnce
<1>2. RoomInvariant /\ FinishedOnce /\ [Next]_vars => FinishedOnce'
  BY FinishedOnceStep
<1>3. QED
  BY <1>1, <1>2, LeasesGuardTheirLines, PTL DEF Spec

-----------------------------------------------------------------------------
(* What a version holds is in the next one                                 *)

(* Merging keeps what is there and adds the proposal, or deletes a file    *)
(* that is as the proposal found it.                                       *)
LEMMA MergeKeeps ==
  ASSUME TypeOK, Based, NEW p \in Proposals, Exists(p), NEW head \in 1..Current,
         Contested(p, head) = Mergeable(p, head), NEW path \in Paths
  PROVE  \/ /\ versions[head][path] \subseteq Merged(p, head)[path]
            /\ path \in DOMAIN proposals[p].changes => p \in Merged(p, head)[path]
         \/ /\ path \in DOMAIN proposals[p].changes /\ proposals[p].changes[path] = "delete"
            /\ versions[head][path] \in {{}, Base(p, path)} /\ Merged(p, head)[path] = {}
<1> DEFINE c == proposals[p].changes
<1>1. CASE path \notin DOMAIN c
  BY <1>1 DEF Merged
<1>2. CASE path \in Contested(p, head)
  <2>1. path \in DOMAIN c /\ Ours(p, path) # {}
    BY <1>2 DEF Mergeable, Contested
  <2>2. Merged(p, head)[path] = versions[head][path] \cup Ours(p, path)
    BY <1>2, <2>1 DEF Merged
  <2>3. p \in Ours(p, path)
    BY <2>1 DEF Ours
  <2>4. QED
    BY <2>2, <2>3
<1>3. CASE path \in DOMAIN c /\ path \notin Contested(p, head)
  <2>1. Merged(p, head)[path] = Ours(p, path) /\ versions[head][path] \in {Base(p, path), Ours(p, path)}
    BY <1>3 DEF Merged, Contested
  <2>2. CASE c[path] = "delete"
    BY <1>3, <2>1, <2>2 DEF Ours
  <2>3. CASE c[path] # "delete"
    BY <2>1, <2>3 DEF Ours
  <2>4. QED
    BY <2>2, <2>3
<1>4. QED
  BY <1>1, <1>2, <1>3

(* What NoChangeIsLost says of one acceptance and one file.                *)
Kept(p, path) ==
  LET v == proposals[p].landed IN
  \/ /\ versions[v - 1][path] \subseteq versions[v][path]
     /\ path \in DOMAIN proposals[p].changes => p \in versions[v][path]
  \/ /\ path \in DOMAIN proposals[p].changes /\ proposals[p].changes[path] = "delete"
     /\ versions[v - 1][path] \in {{}, Base(p, path)} /\ versions[v][path] = {}

LEMMA NoChangeIsLostStep ==
  ASSUME TypeOK, Based, NoChangeIsLost, [Next]_vars
  PROVE  NoChangeIsLost'
<1>0. NoChangeIsLost' <=> \A p \in Accepted' : \A path \in Paths : Kept(p, path)'
  BY DEF NoChangeIsLost, Kept
<1>1. ASSUME NEW p \in Accepted, NEW path \in Paths PROVE Kept(p, path)'
  <2>1. p \in Proposals /\ Exists(p) /\ proposals'[p] = proposals[p]
    BY RoomKept DEF Accepted, Exists
  <2>2. /\ proposals[p].landed \in 2..Current /\ proposals[p].base \in 1..Current
        /\ Current \in Nat
    BY <2>1 DEF Based
  <2>3. /\ versions'[proposals[p].landed] = versions[proposals[p].landed]
        /\ versions'[proposals[p].landed - 1] = versions[proposals[p].landed - 1]
        /\ versions'[proposals[p].base] = versions[proposals[p].base]
    BY <2>2, RoomKept
  <2>4. Kept(p, path)
    BY DEF NoChangeIsLost, Kept
  <2>5. QED
    BY <2>1, <2>3, <2>4 DEF Kept, Base
<1>2. CASE Accepted' = Accepted
  BY <1>0, <1>1, <1>2
<1>3. CASE \E d \in Deciders : Land(d)
  <2>1. PICK d \in Deciders : Land(d)
    BY <1>3
  <2>2. PICK a : a = deciders[d].target
    OBVIOUS
  <2>3. /\ a \in Proposals /\ Exists(a) /\ Accepted' = Accepted \cup {a}
        /\ Contested(a, Current) = Mergeable(a, Current)
        /\ proposals'[a].landed = Current + 1
        /\ proposals'[a].base = proposals[a].base /\ proposals'[a].changes = proposals[a].changes
        /\ versions'[Current + 1] = Merged(a, Current)
        /\ \A v \in 1..Current : versions'[v] = versions[v]
    BY <2>1, <2>2, Landing DEF Open, Exists
  <2>4. Current \in 1..Current /\ proposals[a].base \in 1..Current /\ (Current + 1) - 1 = Current
    BY <2>3 DEF Based
  <2>5. /\ versions'[Current] = versions[Current]
        /\ versions'[proposals[a].base] = versions[proposals[a].base]
    BY <2>3, <2>4
  <2>6. ASSUME NEW path \in Paths PROVE Kept(a, path)'
    <3>1. \/ /\ versions[Current][path] \subseteq Merged(a, Current)[path]
             /\ path \in DOMAIN proposals[a].changes => a \in Merged(a, Current)[path]
          \/ /\ path \in DOMAIN proposals[a].changes /\ proposals[a].changes[path] = "delete"
             /\ versions[Current][path] \in {{}, Base(a, path)} /\ Merged(a, Current)[path] = {}
      BY <2>3, <2>4, MergeKeeps
    <3>2. Base(a, path)' = Base(a, path)
      BY <2>3, <2>5 DEF Base
    <3>3. QED
      BY <2>3, <2>4, <2>5, <3>1, <3>2 DEF Kept
  <2>7. QED
    BY <1>0, <1>1, <2>3, <2>6
<1>4. QED
  BY <1>2, <1>3, AcceptedMoves

(* However many people and agents change the same files from whatever      *)
(* version they read, no accepted change is lost: not one that landed      *)
(* between another's base and its head, and not the accepted one itself.   *)
THEOREM AcceptedChangesAreKept == Spec => []NoChangeIsLost
<1>1. Init => NoChangeIsLost
  BY DEF Init, NoChangeIsLost, Accepted
<1>2. TypeOK /\ Based /\ NoChangeIsLost /\ [Next]_vars => NoChangeIsLost'
  BY NoChangeIsLostStep
<1>3. QED
  BY <1>1, <1>2, RoomTypeCorrect, PTL DEF Spec

(* A decided proposal never changes again, no version is rewritten, and    *)
(* there is exactly one accepted proposal for every version after the      *)
(* first.                                                                  *)
THEOREM DecisionsAreFinal == Spec => DecidedOnce
<1> DEFINE Decided == /\ \A p \in Proposals :
                        proposals[p].status \notin {"missing", "open"} => proposals'[p] = proposals[p]
                      /\ IsPrefix(versions, versions')
                      /\ Cardinality(Accepted') = Len(versions') - 1
<1>1. RoomInvariant /\ RoomInvariant' /\ [Next]_vars => [Decided]_vars
  <2> SUFFICES ASSUME RoomInvariant, RoomInvariant', [Next]_vars PROVE Decided
    OBVIOUS
  <2> USE DEF RoomInvariant
  <2> DEFINE S == [Paths -> SUBSET (Proposals \cup {Original})]
  <2>1. \A p \in Proposals :
          proposals[p].status \notin {"missing", "open"} => proposals'[p] = proposals[p]
    BY RoomKept
  <2>2. IsPrefix(versions, versions')
    <3>1. versions \in Seq(S) /\ versions' \in Seq(S)
      BY DEF TypeOK
    <3>2. /\ Len(versions) \in Nat /\ Len(versions') \in Nat /\ Len(versions) <= Len(versions')
          /\ \A v \in 1..Len(versions) : versions'[v] = versions[v]
      BY RoomKept, CurrentType DEF Current
    <3> HIDE DEF S
    <3>3. /\ \A v \in 1..Len(versions) : versions[v] \in S
          /\ \A v \in 1..Len(versions) : versions'[v] \in S
      BY <3>1, <3>2, ElementOfSeq
    <3>4. /\ SubSeq(versions, 1, Len(versions)) \in Seq(S)
          /\ SubSeq(versions', 1, Len(versions)) \in Seq(S)
          /\ Len(SubSeq(versions, 1, Len(versions))) = Len(SubSeq(versions', 1, Len(versions)))
          /\ \A v \in 1..Len(SubSeq(versions, 1, Len(versions))) :
               SubSeq(versions, 1, Len(versions))[v] = SubSeq(versions', 1, Len(versions))[v]
      BY <3>2, <3>3, SubSeqProperties
    <3>5. SubSeq(versions, 1, Len(versions)) = SubSeq(versions', 1, Len(versions))
      BY <3>4, SeqEqual
    <3>6. QED
      BY <3>2, <3>5 DEF IsPrefix
  <2>3. Cardinality(Accepted') = Len(versions') - 1
    <3>1. IsFiniteSet(Accepted') /\ Cardinality(Accepted') \in Nat
      BY FS_Subset, FS_CardinalityType DEF Accepted
    <3>2. Cardinality(Accepted') + 1 = Len(versions')
      BY DEF LandedCounted, Current
    <3>3. QED
      BY <3>1, <3>2
  <2>4. QED
    BY <2>1, <2>2, <2>3
<1>2. QED
  BY <1>1, LeasesGuardTheirLines, PTL DEF Spec, DecidedOnce

=============================================================================
