------------------------------ MODULE Schedules ------------------------------
(***************************************************************************)
(* The book of schedules (orchestration/schedules.py) and the scheduler of *)
(* each node (core/mesh.py), which start goals at a moment, at intervals   *)
(* and on events.  A schedule's goal is named for its occurrence, so that  *)
(* nodes which poll one book start each once.  A pass of a scheduler takes *)
(* all that is due out of the book, and then submits the goals one by one. *)
(* Waking a step that waits is StepLedger's Resume and left out.           *)
(***************************************************************************)
EXTENDS GoalPlanning, Integers

CONSTANTS
  Names,      \* of schedules
  Events,     \* ids of deliveries of the one event triggers listen for
  Never,      \* the due time of a trigger
  MaxTime     \* bound of the clock

Moments == 0..MaxTime
Firings == Names \X (Moments \cup Events)

ASSUME SchedulesAssumption ==
  /\ Firings \subseteq Goals
  /\ \A c \in Callers : GoalOf[c] \notin Firings
  /\ Never \notin Nat /\ MaxTime \in Nat
  /\ Events \cap Moments = {}

VARIABLES
  clock,
  book,     \* the schedules on record
  due,      \* when each is due next, or Never
  every,    \* its interval, or 0
  removed,  \* those that were cancelled (history)
  polled,   \* when each scheduler's list was read, or 0
  listed,   \* what it found due
  taken,    \* the firings it has taken and not yet submitted
  claimed   \* timed firings taken so far (history)

records == <<book, due, every, removed>>
passes == <<polled, listed, taken, claimed>>
schedules == <<clock, records, passes>>
vars == <<planning, schedules>>

TypeOK ==
  /\ PlanningTypeOK
  /\ clock \in 0..MaxTime
  /\ book \subseteq Names /\ removed \subseteq Names
  /\ due \in [Names -> 0..MaxTime + 1 \cup {Never}]
  /\ every \in [Names -> 0..1]
  /\ polled \in [Nodes -> 0..MaxTime]
  /\ listed \in [Nodes -> SUBSET Names]
  /\ taken \in [Nodes -> SUBSET Firings]
  /\ claimed \subseteq Firings

Init ==
  /\ PlanningInit
  /\ clock = 0
  /\ book = {} /\ removed = {}
  /\ due = [s \in Names |-> Never]
  /\ every = [s \in Names |-> 0]
  /\ polled = [n \in Nodes |-> 0]
  /\ listed = [n \in Nodes |-> {}]
  /\ taken = [n \in Nodes |-> {}]
  /\ claimed = {}

-----------------------------------------------------------------------------
(* The book                                                                *)

(* A schedule that is due now, once or at an interval, or a trigger.       *)
Add(s) ==
  /\ s \notin book \cup removed
  /\ {s} \X Moments \cap claimed = {}
  /\ book' = book \cup {s}
  /\ \E at \in {Never, clock}, interval \in {0, 1} :
       /\ at = Never => interval = 0
       /\ due' = [due EXCEPT ![s] = at]
       /\ every' = [every EXCEPT ![s] = interval]
  /\ UNCHANGED <<planning, clock, removed, passes>>

CancelSchedule(s) ==
  /\ s \in book
  /\ book' = book \ {s}
  /\ due' = [due EXCEPT ![s] = Never]
  /\ removed' = removed \cup {s}
  /\ UNCHANGED <<planning, clock, every, passes>>

Pass ==
  /\ clock < MaxTime
  /\ clock' = clock + 1
  /\ UNCHANGED <<planning, records, passes>>

-----------------------------------------------------------------------------
(* A scheduler's pass                                                      *)

IsDue(s, now) == due[s] # Never /\ due[s] <= now

Poll(n) ==
  /\ mode[n] # "stopped" /\ listed[n] = {} /\ taken[n] = {}
  /\ \E s \in Names : IsDue(s, clock)
  /\ polled' = [polled EXCEPT ![n] = clock]
  /\ listed' = [listed EXCEPT ![n] = {s \in Names : IsDue(s, clock)}]
  /\ UNCHANGED <<planning, clock, records, taken, claimed>>

(* Moments that were missed are not made up for.                           *)
Following(s, now) ==
  IF due[s] + every[s] > now THEN due[s] + every[s] ELSE now + every[s]

MutantTaken(s, now) ==
  /\ due' = [due EXCEPT ![s] = Following(s, now)]
  /\ UNCHANGED book

(* A recurring schedule stays for its next moment, another one is done.    *)
Taken(s, now) ==
  IF every[s] > 0
  THEN /\ due' = [due EXCEPT ![s] = Following(s, now)]
       /\ UNCHANGED book
  ELSE /\ due' = [due EXCEPT ![s] = Never]
       /\ book' = book \ {s}

Claimable(s, now) == s \in book /\ IsDue(s, now)

(* _claim, in one transaction: whoever comes second finds the schedule     *)
(* gone, or its next moment not due at the time its own pass began.        *)
ClaimDue(n, s) ==
  /\ s \in listed[n]
  /\ listed' = [listed EXCEPT ![n] = @ \ {s}]
  /\ polled' = [polled EXCEPT ![n] = IF listed'[n] = {} THEN 0 ELSE @]
  /\ IF Claimable(s, polled[n])
     THEN /\ taken' = [taken EXCEPT ![n] = @ \cup {<<s, due[s]>>}]
          /\ claimed' = claimed \cup {<<s, due[s]>>}
          /\ Taken(s, polled[n])
     ELSE UNCHANGED <<taken, claimed, due, book>>
  /\ UNCHANGED <<planning, clock, every, removed>>

(* An event reaches a node, perhaps not for the first time.                *)
Emit(n, e) ==
  /\ mode[n] # "stopped" /\ listed[n] = {} /\ taken[n] = {}
  /\ \E s \in book :
       /\ due[s] = Never
       /\ taken' = [taken EXCEPT ![n] = {<<s, e>>}]
  /\ UNCHANGED <<planning, clock, records, polled, listed, claimed>>

(* A node that drains refuses the goal, which ends the pass; what it took  *)
(* is gone.                                                                *)
Fire(n) ==
  /\ listed[n] = {}
  /\ \E firing \in taken[n] :
       IF mode[n] = "up"
       THEN /\ Room(firing)
            /\ Submit(firing)
            /\ taken' = [taken EXCEPT ![n] = @ \ {firing}]
       ELSE /\ taken' = [taken EXCEPT ![n] = {}]
            /\ UNCHANGED store
  /\ UNCHANGED <<mode, planners, caller, troubles, clock, records,
                 polled, listed, claimed>>

Stop(n) ==
  /\ StopPlanner(n)
  /\ listed[n] = {}
  /\ taken' = [taken EXCEPT ![n] = {}]
  /\ UNCHANGED <<clock, records, polled, listed, claimed>>

Crash(n) ==
  /\ CrashPlanner(n)
  /\ polled' = [polled EXCEPT ![n] = 0]
  /\ listed' = [listed EXCEPT ![n] = {}]
  /\ taken' = [taken EXCEPT ![n] = {}]
  /\ UNCHANGED <<clock, records, claimed>>

Next ==
  \/ PlanningStep /\ UNCHANGED schedules
  \/ \E s \in Names : Add(s) \/ CancelSchedule(s)
  \/ Pass
  \/ \E n \in Nodes :
       \/ Poll(n) \/ Fire(n) \/ Stop(n) \/ Crash(n)
       \/ \E s \in Names : ClaimDue(n, s)
       \/ \E e \in Events : Emit(n, e)

Spec == Init /\ [][Next]_vars

(* Planner workers of nodes go on, a model call ends, leases run out.      *)
Fairness ==
  /\ \A n \in Nodes : WF_vars(PlannerStep(n) /\ UNCHANGED schedules)
  /\ \A g \in Goals : WF_vars(Expire(g) /\ UNCHANGED schedules)

FairSpec == Spec /\ Fairness

-----------------------------------------------------------------------------
(* Properties                                                              *)

(* Nodes that poll one book take each occurrence out of it once, although  *)
(* each works on a list it read before the others changed the book.        *)
TakenOnce ==
  [][\A n \in Nodes : (taken'[n] \ taken[n]) \cap claimed = {}]_vars

(* A schedule that was cancelled stays out of the book: a scheduler that   *)
(* listed it before does not write it back.                                *)
RemovedStays == removed \cap book = {} /\ \A s \in removed : due[s] = Never
=============================================================================
