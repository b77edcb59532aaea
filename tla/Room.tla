--------------------------------- MODULE Room ---------------------------------
(***************************************************************************)
(* A room (room/room.py): files that people and agents change together.    *)
(* A change is proposed against a version and accepted by merging it into  *)
(* the current one; proposals that revise one another are one line of      *)
(* work, decided under a lease.  Work asked of the agents (room/work.py)   *)
(* files one proposal when it ends, from whichever process is running      *)
(* then.  All shared state is in Redis: a transition of the room is        *)
(* atomic, and everything around it may be overtaken.                      *)
(*                                                                         *)
(* The text of a file is the set of the edits it holds, and a file that    *)
(* does not exist holds none.                                              *)
(***************************************************************************)
EXTENDS Naturals, FiniteSets, SequencesExt

CONSTANTS
  Works,           \* asked of the agents; its proposal is named for the work
  Drafts,          \* proposals people open themselves
  Deciders,        \* calls of accept
  Finishers,       \* processes that follow work to its end
  Paths,
  Original,        \* the text of every file of the first version
  Changes,         \* what each proposal may change: sets of functions from paths
  PrivateWorks,    \* works that used a connection of their asker's own
  AcceptAttempts,  \* _ACCEPT_ATTEMPTS
  Free, Gone,      \* nobody holds the lease; its holder died
  None,
  MaxTroubles      \* bound on calls that die and leases that run out under a live holder

Proposals == Works \cup Drafts
Actors == Deciders \cup Finishers
Leases == ({"lineage"} \X Proposals) \cup ({"finishing"} \X Works)

ASSUME RoomAssumption ==
  /\ IsFiniteSet(Proposals) /\ Works \cap Drafts = {}
  /\ Original \notin Proposals /\ None \notin Proposals
  /\ Deciders \cap Finishers = {} /\ Free # Gone /\ {Free, Gone, None} \cap Actors = {}
  /\ \A p \in Proposals : \A c \in Changes[p] :
       DOMAIN c \subseteq Paths /\ \A path \in DOMAIN c : c[path] \in {"edit", "delete"}
  /\ PrivateWorks \subseteq Works
  /\ AcceptAttempts \in Nat \ {0} /\ MaxTroubles \in Nat

VARIABLES
  versions,    \* the files of each version; the last is the head
  proposals,
  leases,      \* holder of each lease
  deciders,
  works,       \* each work as the room's history and the mesh have it
  finishers,
  deaths,
  outlived     \* leases that ran out under a live holder (history)

faults == <<deaths, outlived>>
vars == <<versions, proposals, leases, deciders, works, finishers, faults>>

Statuses == {"missing", "open", "accepted", "rejected", "conflicted"}
ChangeRecord == UNION {[D -> {"edit", "delete"}] : D \in SUBSET Paths}
ProposalRecord ==
  [status : Statuses, base : Nat, changes : ChangeRecord,
   line : Seq(Proposals), held : BOOLEAN, landed : Nat]
DeciderStages == {"idle", "reading", "merging", "closing", "sweeping",
                  "stopping"}
FinisherStages == {"idle", "filing", "noting", "failing"}

TypeOK ==
  /\ versions \in Seq([Paths -> SUBSET (Proposals \cup {Original})])
  /\ proposals \in [Proposals -> ProposalRecord]
  /\ leases \in [Leases -> Actors \cup {Free, Gone}]
  /\ deciders \in [Deciders -> [stage : DeciderStages, target : Proposals \cup {None}, head : Nat,
                                tries : 0..AcceptAttempts, close : Seq(Proposals),
                                rest : SUBSET Proposals]]
  /\ works \in [Works -> [mesh : {"none", "running", "done", "cancelled"}, base : Nat,
                          revises : Proposals \cup {None}, changes : ChangeRecord,
                          finished : Nat, failed : BOOLEAN]]
  /\ finishers \in [Finishers -> [stage : FinisherStages, work : Works \cup {None}, held : BOOLEAN]]
  /\ deaths \in Nat /\ outlived \subseteq Leases
  /\ deaths + Cardinality(outlived) <= MaxTroubles

Resting == [stage |-> "idle", target |-> None, head |-> 0, tries |-> 0, close |-> <<>>, rest |-> {}]
Unoccupied == [stage |-> "idle", work |-> None, held |-> FALSE]

Init ==
  /\ versions = <<[p \in Paths |-> {Original}]>>
  /\ proposals = [p \in Proposals |-> [status |-> "missing", base |-> 0, changes |-> <<>>,
                                       line |-> <<>>, held |-> FALSE, landed |-> 0]]
  /\ leases = [k \in Leases |-> Free]
  /\ deciders = [d \in Deciders |-> Resting]
  /\ works = [w \in Works |-> [mesh |-> "none", base |-> 0, revises |-> None, changes |-> <<>>,
                               finished |-> 0, failed |-> FALSE]]
  /\ finishers = [f \in Finishers |-> Unoccupied]
  /\ deaths = 0 /\ outlived = {}

Current == Len(versions)
TroublesLeft == deaths + Cardinality(outlived) < MaxTroubles
Exists(p) == proposals[p].status # "missing"
Open(p) == proposals[p].status = "open"
Accepted == {p \in Proposals : proposals[p].status = "accepted"}

-----------------------------------------------------------------------------
(* Lines of work and the text of files                                     *)

(* The proposal, what it revises, and so on to where the line began.       *)
MutantLineOf(p, revises) == <<p, revises>>
LineOf(p, revises) == <<p>> \o (IF revises = None THEN <<>> ELSE proposals[revises].line)
Lineage(p) == ToSet(proposals[p].line)
Start(p) == Last(proposals[p].line)
MutantLineLease(p) == <<"lineage", p>>
LineLease(p) == <<"lineage", Start(p)>>
Revises(p) == Len(proposals[p].line) > 1

(* Another version of the line was accepted.                               *)
Overtaken(p) == \E a \in Accepted : a \notin Lineage(p) /\ Lineage(p) \cap Lineage(a) # {}

Base(p, path) == versions[proposals[p].base][path]
Ours(p, path) == IF proposals[p].changes[path] = "delete" THEN {} ELSE Base(p, path) \cup {p}

(* Paths that changed both in the proposal and in the room since its base, *)
(* and those of them whose lines can be merged at all.                     *)
Contested(p, head) ==
  {path \in DOMAIN proposals[p].changes : versions[head][path] \notin {Base(p, path), Ours(p, path)}}
Mergeable(p, head) ==
  {path \in Contested(p, head) : {} \notin {Base(p, path), Ours(p, path), versions[head][path]}}

Merged(p, head) ==
  [path \in Paths |->
     IF path \notin DOMAIN proposals[p].changes THEN versions[head][path]
     ELSE IF path \in Contested(p, head) THEN versions[head][path] \cup Ours(p, path)
     ELSE Ours(p, path)]

(* What is left of a change once deletions of absent files are dropped.    *)
Effective(c, base) ==
  LET kept == {path \in DOMAIN c : c[path] = "edit" \/ versions[base][path] # {}}
  IN [path \in kept |-> c[path]]

OpenProposal(p, c, base, revises, held) ==
  [status |-> "open", base |-> base, changes |-> c, line |-> LineOf(p, revises),
   held |-> held, landed |-> 0]

-----------------------------------------------------------------------------
(* Leases                                                                  *)

Take(k, a) == leases[k] = Free /\ leases' = [leases EXCEPT ![k] = a]
Release(k, a) == leases' = IF leases[k] = a THEN [leases EXCEPT ![k] = Free] ELSE leases

(* A lease runs out: of a holder that died, or under one that takes long.  *)
LapseGone(k) ==
  /\ leases[k] = Gone
  /\ leases' = [leases EXCEPT ![k] = Free]
  /\ UNCHANGED <<versions, proposals, deciders, works, finishers, faults>>

LapseHeld(k) ==
  /\ leases[k] \in Actors
  /\ TroublesLeft
  /\ leases' = [leases EXCEPT ![k] = Free]
  /\ outlived' = outlived \cup {k}
  /\ UNCHANGED <<versions, proposals, deciders, works, finishers, deaths>>

-----------------------------------------------------------------------------
(* Proposing by hand, rejecting, releasing                                 *)

(* A checkout or a page may be of any version of the room.                 *)
Propose(p) ==
  /\ ~Exists(p)
  /\ \E c \in Changes[p], base \in 1..Current, r \in {q \in Proposals : Exists(q)} \cup {None} :
       /\ Effective(c, base) # <<>>
       /\ proposals' = [proposals EXCEPT ![p] = OpenProposal(p, Effective(c, base), base, r, FALSE)]
  /\ UNCHANGED <<versions, leases, deciders, works, finishers, faults>>

Reject(p) ==
  /\ Open(p)
  /\ proposals' = [proposals EXCEPT ![p].status = "rejected"]
  /\ UNCHANGED <<versions, leases, deciders, works, finishers, faults>>

ReleaseHeld(p) ==
  /\ Open(p) /\ proposals[p].held
  /\ proposals' = [proposals EXCEPT ![p].held = FALSE]
  /\ UNCHANGED <<versions, leases, deciders, works, finishers, faults>>

-----------------------------------------------------------------------------
(* Accepting                                                               *)

(* However a call ends, it lets go of its lease if it still holds it.      *)
Return(d) ==
  /\ deciders' = [deciders EXCEPT ![d] = Resting]
  /\ Release(LineLease(deciders[d].target), d)

(* Once the line's lease is free and taken, before anything is awaited and *)
(* before the first attempt: the proposal is still open and no other       *)
(* version of its line has landed.  A call that is refused changes nothing.*)
Accept(d, p) ==
  /\ deciders[d].stage = "idle"
  /\ Open(p) /\ ~proposals[p].held /\ ~Overtaken(p)
  /\ Take(LineLease(p), d)
  /\ deciders' = [deciders EXCEPT ![d] =
                    [Resting EXCEPT !.stage = "reading", !.target = p, !.tries = AcceptAttempts]]
  /\ UNCHANGED <<versions, proposals, works, finishers, faults>>

ReadHead(d) ==
  /\ deciders[d].stage = "reading"
  /\ deciders' = [deciders EXCEPT ![d].stage = "merging", ![d].head = Current]
  /\ UNCHANGED <<versions, proposals, leases, works, finishers, faults>>

(* room_transition: the head has not moved since it was read, and nobody   *)
(* has decided the proposal.                                               *)
MutantUnmoved(d) == TRUE
Unmoved(d) == deciders[d].head = Current
Undecided(d) == Open(deciders[d].target)

TransitionFails(d) ==
  /\ deciders[d].stage = "merging"
  /\ ~(Unmoved(d) /\ Undecided(d))
  /\ IF ~Unmoved(d) /\ deciders[d].tries > 1
     THEN /\ deciders' = [deciders EXCEPT ![d].stage = "reading", ![d].tries = @ - 1]
          /\ UNCHANGED leases
     ELSE Return(d)
  /\ UNCHANGED <<versions, proposals, works, finishers, faults>>

(* Lines that both sides changed differently do not merge.                 *)
Conflict(d) ==
  LET p == deciders[d].target IN
  /\ deciders[d].stage = "merging" /\ Unmoved(d) /\ Undecided(d)
  /\ Contested(p, deciders[d].head) # {}
  /\ proposals' = [proposals EXCEPT ![p].status = "conflicted"]
  /\ Return(d)
  /\ UNCHANGED <<versions, works, finishers, faults>>

Land(d) ==
  LET p == deciders[d].target IN
  /\ deciders[d].stage = "merging" /\ Unmoved(d) /\ Undecided(d)
  /\ Contested(p, deciders[d].head) = Mergeable(p, deciders[d].head)
  /\ versions' = Append(versions, Merged(p, deciders[d].head))
  /\ proposals' = [proposals EXCEPT ![p].status = "accepted", ![p].landed = deciders[d].head + 1]
  /\ IF Revises(p)
     THEN /\ deciders' = [deciders EXCEPT ![d] = [Resting EXCEPT !.stage = "closing", !.target = p,
                                                                !.close = Tail(proposals[p].line)]]
          /\ UNCHANGED leases
     ELSE Return(d)
  /\ UNCHANGED <<works, finishers, faults>>

MutantClosed(p) == [proposals EXCEPT ![p].status = "rejected"]
Closed(p) == IF Open(p) THEN [proposals EXCEPT ![p].status = "rejected"] ELSE proposals

(* What the winner revised is replaced, nearest first.                     *)
CloseReplaced(d) ==
  /\ deciders[d].stage = "closing" /\ deciders[d].close # <<>>
  /\ proposals' = Closed(Head(deciders[d].close))
  /\ deciders' = [deciders EXCEPT ![d].close = Tail(@)]
  /\ UNCHANGED <<versions, leases, works, finishers, faults>>

ListOpen(d) ==
  LET p == deciders[d].target IN
  /\ deciders[d].stage = "closing" /\ deciders[d].close = <<>>
  /\ deciders' = [deciders EXCEPT ![d].stage = "sweeping",
                    ![d].rest = {q \in Proposals \ {p} : Open(q) /\ p \notin Lineage(q)}]
  /\ UNCHANGED <<versions, proposals, leases, works, finishers, faults>>

Sweep(d, q) ==
  /\ deciders[d].stage = "sweeping" /\ q \in deciders[d].rest
  /\ proposals' = IF Overtaken(q) THEN Closed(q) ELSE proposals
  /\ deciders' = [deciders EXCEPT ![d].rest = @ \ {q}]
  /\ UNCHANGED <<versions, leases, works, finishers, faults>>

Asked(w) == works[w].mesh # "none"
MutantEnded(w) == works[w].failed
Ended(w) == works[w].finished > 0 \/ works[w].failed

ListWorks(d) ==
  /\ deciders[d].stage = "sweeping" /\ deciders[d].rest = {}
  /\ deciders' = [deciders EXCEPT ![d].stage = "stopping",
                    ![d].rest = {w \in Works : Asked(w) /\ ~Ended(w) /\ works[w].revises # None}]
  /\ UNCHANGED <<versions, proposals, leases, works, finishers, faults>>

Cancelled(w) == IF works[w].mesh = "running" THEN [works EXCEPT ![w].mesh = "cancelled"] ELSE works

StopWork(d, w) ==
  /\ deciders[d].stage = "stopping" /\ w \in deciders[d].rest
  /\ LET r == works[w].revises IN
     works' = IF r \in Lineage(deciders[d].target) \/ Overtaken(r) THEN Cancelled(w) ELSE works
  /\ deciders' = [deciders EXCEPT ![d].rest = @ \ {w}]
  /\ UNCHANGED <<versions, proposals, leases, finishers, faults>>

Leave(d) ==
  /\ deciders[d].stage = "stopping" /\ deciders[d].rest = {}
  /\ Return(d)
  /\ UNCHANGED <<versions, proposals, works, finishers, faults>>

-----------------------------------------------------------------------------
(* Work asked of the agents                                                *)

(* Asked on the current version, as new work or as a revision.             *)
Ask(w) ==
  /\ ~Asked(w)
  /\ \E r \in {q \in Proposals : Exists(q)} \cup {None} :
       works' = [works EXCEPT ![w].mesh = "running", ![w].base = Current, ![w].revises = r]
  /\ UNCHANGED <<versions, proposals, leases, deciders, finishers, faults>>

(* The goal ends in the mesh, with or without changes.                     *)
MeshEnds(w) ==
  /\ works[w].mesh = "running"
  /\ \E c \in Changes[w] \cup {<<>>} :
       works' = [works EXCEPT ![w].mesh = "done", ![w].changes = Effective(c, works[w].base)]
  /\ UNCHANGED <<versions, proposals, leases, deciders, finishers, faults>>

StopFollowing(f) ==
  /\ finishers' = [finishers EXCEPT ![f] = Unoccupied]
  /\ Release(<<"finishing", finishers[f].work>>, f)

(* The process that asked, or one that resumed the work, waited too long:  *)
(* it stops the work, if it still runs, and then says so.                  *)
TimeOut(f, w) ==
  /\ finishers[f].stage = "idle"
  /\ Asked(w) /\ ~Ended(w)
  /\ works' = Cancelled(w)
  /\ finishers' = [finishers EXCEPT ![f].stage = "failing", ![f].work = w]
  /\ UNCHANGED <<versions, proposals, leases, deciders, faults>>

NoteFailed(f) ==
  /\ finishers[f].stage = "failing"
  /\ works' = [works EXCEPT ![finishers[f].work].failed = TRUE]
  /\ StopFollowing(f)
  /\ UNCHANGED <<versions, proposals, deciders, faults>>

(* A process that follows the work finds it ended in the mesh and, under   *)
(* the lease, not in the room.  Work of an overtaken version files nothing;*)
(* what its asker has held stays held when they ask for a revision of it.  *)
StartFinish(f, w) ==
  LET r == works[w].revises
      revisesHeld == r # None /\ proposals[r].held
  IN
  /\ finishers[f].stage = "idle"
  /\ works[w].mesh \in {"done", "cancelled"} /\ ~Ended(w)
  /\ Take(<<"finishing", w>>, f)
  /\ \E sameAsker \in BOOLEAN :
       finishers' = [finishers EXCEPT ![f] =
         IF r # None /\ Overtaken(r) THEN [stage |-> "noting", work |-> w, held |-> FALSE]
         ELSE [stage |-> "filing", work |-> w,
               held |-> w \in PrivateWorks \/ (sameAsker /\ revisesHeld)]]
  /\ UNCHANGED <<versions, proposals, deciders, works, faults>>

(* Stopped work, and work that changed nothing, proposes nothing; what was *)
(* filed before a restart is found again.                                  *)
File(f) ==
  LET w == finishers[f].work IN
  /\ finishers[f].stage = "filing"
  /\ proposals' =
       IF works[w].mesh = "cancelled" \/ works[w].changes = <<>> \/ Exists(w) THEN proposals
       ELSE [proposals EXCEPT ![w] = OpenProposal(w, works[w].changes, works[w].base,
                                                  works[w].revises, finishers[f].held)]
  /\ finishers' = [finishers EXCEPT ![f].stage = "noting", ![f].held = FALSE]
  /\ UNCHANGED <<versions, leases, deciders, works, faults>>

(* The asker may no longer propose changes here.                           *)
Refuse(f) ==
  LET w == finishers[f].work IN
  /\ finishers[f].stage = "filing"
  /\ works[w].mesh = "done" /\ works[w].changes # <<>>
  /\ works' = [works EXCEPT ![w].failed = TRUE]
  /\ StopFollowing(f)
  /\ UNCHANGED <<versions, proposals, deciders, faults>>

(* The steps of the work changed one text differently: the call raises,    *)
(* and nothing is noted.                                                   *)
Disagree(f) ==
  LET w == finishers[f].work IN
  /\ finishers[f].stage = "filing"
  /\ works[w].mesh = "done" /\ works[w].changes # <<>>
  /\ StopFollowing(f)
  /\ UNCHANGED <<versions, proposals, deciders, works, faults>>

NoteFinished(f) ==
  /\ finishers[f].stage = "noting"
  /\ works' = [works EXCEPT ![finishers[f].work].finished = @ + 1]
  /\ StopFollowing(f)
  /\ UNCHANGED <<versions, proposals, deciders, faults>>

-----------------------------------------------------------------------------
(* A process dies; the leases it held stay until they run out.             *)

Abandoned(a) == [k \in Leases |-> IF leases[k] = a THEN Gone ELSE leases[k]]

DeciderDies(d) ==
  /\ deciders[d].stage # "idle" /\ TroublesLeft
  /\ deciders' = [deciders EXCEPT ![d] = Resting]
  /\ leases' = Abandoned(d)
  /\ deaths' = deaths + 1
  /\ UNCHANGED <<versions, proposals, works, finishers, outlived>>

FinisherDies(f) ==
  /\ finishers[f].stage # "idle" /\ TroublesLeft
  /\ finishers' = [finishers EXCEPT ![f] = Unoccupied]
  /\ leases' = Abandoned(f)
  /\ deaths' = deaths + 1
  /\ UNCHANGED <<versions, proposals, deciders, works, outlived>>

Decide(d) ==
  \/ ReadHead(d) \/ TransitionFails(d)
  \/ Conflict(d) \/ Land(d) \/ CloseReplaced(d) \/ ListOpen(d)
  \/ \E q \in Proposals : Sweep(d, q)
  \/ ListWorks(d) \/ (\E w \in Works : StopWork(d, w)) \/ Leave(d)

Finish(f) ==
  \/ File(f) \/ NoteFinished(f) \/ NoteFailed(f)

Next ==
  \/ \E p \in Drafts : Propose(p)
  \/ \E p \in Proposals : Reject(p) \/ ReleaseHeld(p)
  \/ \E d \in Deciders : Decide(d) \/ DeciderDies(d) \/ \E p \in Proposals : Accept(d, p)
  \/ \E w \in Works : Ask(w) \/ MeshEnds(w)
  \/ \E f \in Finishers : \/ Finish(f) \/ Refuse(f) \/ Disagree(f) \/ FinisherDies(f)
                          \/ \E w \in Works : TimeOut(f, w) \/ StartFinish(f, w)
  \/ \E k \in Leases : LapseGone(k) \/ LapseHeld(k)

Spec == Init /\ [][Next]_vars

-----------------------------------------------------------------------------
(* What must hold                                                          *)

(* No accepted change is lost: what a version holds is in the next one,    *)
(* unless a proposal made against that very text deleted the file, and     *)
(* what was accepted is in the version it made.  Acceptances that raced    *)
(* have merged over one another, whatever either had read.                 *)
NoChangeIsLost ==
  \A p \in Accepted :
    LET v == proposals[p].landed IN
    \A path \in Paths :
      \/ /\ versions[v - 1][path] \subseteq versions[v][path]
         /\ path \in DOMAIN proposals[p].changes => p \in versions[v][path]
      \/ /\ path \in DOMAIN proposals[p].changes /\ proposals[p].changes[path] = "delete"
         /\ versions[v - 1][path] \in {{}, Base(p, path)} /\ versions[v][path] = {}

(* Of a line of work one version lands: each accepted proposal revises     *)
(* those accepted before it, unless a call of accept outlived its lease.   *)
OneVersionLands ==
  \A p, q \in Accepted :
    \/ Start(p) # Start(q) \/ <<"lineage", Start(p)>> \in outlived
    \/ p \in Lineage(q) /\ proposals[p].landed <= proposals[q].landed
    \/ q \in Lineage(p) /\ proposals[q].landed <= proposals[p].landed

(* Every decision is made once: a proposal that was decided stays as it    *)
(* was decided, and every version is the work of one accepted proposal.    *)
DecidedOnce ==
  [][ /\ \A p \in Proposals :
           proposals[p].status \notin {"missing", "open"} => proposals'[p] = proposals[p]
      /\ IsPrefix(versions, versions')
      /\ Cardinality(Accepted') = Len(versions') - 1 ]_vars

(* Work is finished once, whoever follows it and however often, unless a   *)
(* process outlived its finishing lease.                                   *)
FinishedOnce ==
  \A w \in Works : works[w].finished > 1 => <<"finishing", w>> \in outlived
=============================================================================
