------------------------------ MODULE AgentPool ------------------------------
(***************************************************************************)
(* The pool of one agent in one process (core/pool.py) and its dispatcher  *)
(* (_run_pool in core/mesh.py).  Every piece of work leases a member; a    *)
(* call chain that holds members may lease more for work it starts.        *)
(* Everything runs on one event loop: a step here is what happens between  *)
(* two awaits.  A member's setup and teardown are awaited.                 *)
(***************************************************************************)
EXTENDS Naturals, FiniteSets, Sequences

CONSTANTS
  Members,     \* instances of the agent
  Base,        \* the instance registered with mesh.add
  NoMember,
  Chains,      \* call chains that lease members
  MinMembers,  \* Pool.min
  MaxMembers,  \* Pool.max
  MaxHeld,     \* how many members one chain may come to hold
  MayFail,     \* whether a new member's setup may raise
  MaxRaises    \* how often the store may raise instead of answering a claim

ASSUME PoolAssumption ==
  /\ Base \in Members
  /\ NoMember \notin Members
  /\ IsFiniteSet(Chains)
  /\ MinMembers \in Nat \ {0}
  /\ MaxMembers \in Nat /\ MinMembers <= MaxMembers
  /\ MaxHeld \in Nat
  /\ MayFail \in BOOLEAN
  /\ MaxRaises \in Nat

VARIABLES
  members,    \* PoolState.members
  idle,       \* PoolState.idle
  growing,    \* PoolState.growing
  waiters,    \* PoolState.waiters: the chains waiting, oldest first
  chain,      \* what each chain is doing
  held,       \* the members each chain holds (the context variable _HELD)
  given,      \* the member a waiter's future was resolved with
  dispatcher, \* what the dispatcher awaits
  retiring    \* the members the dispatcher has decided to retire

pool == <<members, idle, growing, waiters>>
vars == <<pool, chain, held, given, dispatcher, retiring>>

(* A chain is lost whose claim raised after it got a member.               *)
ChainStates == {"running", "growing", "dispatched", "waiting", "given", "lost"}

TypeOK ==
  /\ members \subseteq Members
  /\ idle \subseteq members
  /\ growing \in Nat
  /\ waiters \in Seq(Chains)
  /\ chain \in [Chains -> ChainStates]
  /\ held \in [Chains -> SUBSET Members]
  /\ given \in [Chains -> Members \cup {NoMember}]
  /\ dispatcher \in {"scan", "warming", "acquiring", "retiring"}
  /\ retiring \subseteq Members

Init ==
  /\ members = {Base}
  /\ idle = {Base}
  /\ growing = 0
  /\ waiters = << >>
  /\ chain = [t \in Chains |-> "running"]
  /\ held = [t \in Chains |-> {}]
  /\ given = [t \in Chains |-> NoMember]
  /\ dispatcher = "scan"
  /\ retiring = {}

InUse == (UNION {held[t] : t \in Chains}) \cup {given[t] : t \in Chains}

(* A new instance.                                                         *)
Fresh == Members \ (members \cup InUse)

MutantCanGrow == Cardinality(members) < MaxMembers
CanGrow == Cardinality(members) + growing < MaxMembers

-----------------------------------------------------------------------------
(* Leasing a member                                                        *)

TakeIdle(t, as) ==
  /\ \E m \in idle :
       /\ idle' = idle \ {m}
       /\ held' = [held EXCEPT ![t] = @ \cup {m}]
  /\ chain' = [chain EXCEPT ![t] = as]
  /\ UNCHANGED <<members, growing, waiters, given>>

StartGrowing(t, as) ==
  /\ idle = {} /\ CanGrow
  /\ growing' = growing + 1
  /\ chain' = [chain EXCEPT ![t] = as]
  /\ UNCHANGED <<members, idle, waiters, held, given>>

(* The chain already holds every member: it is told so, and does not wait. *)
WaitsOnItself(t) == members \subseteq held[t] /\ growing = 0

Wait(t) ==
  /\ idle = {} /\ ~ CanGrow /\ ~ WaitsOnItself(t)
  /\ waiters' = Append(waiters, t)
  /\ chain' = [chain EXCEPT ![t] = "waiting"]
  /\ UNCHANGED <<members, idle, growing, held, given>>

Acquire(t) ==
  /\ chain[t] = "running" /\ Cardinality(held[t]) < MaxHeld
  /\ TakeIdle(t, "running") \/ StartGrowing(t, "growing") \/ Wait(t)
  /\ UNCHANGED <<dispatcher, retiring>>

(* What becomes of work the dispatcher got a member for: it runs, and      *)
(* gives the member back at once if its claim is refused; or the claim     *)
(* raises, and nothing ever releases the member.                           *)
Begins ==
  {"running"} \cup
    (IF Cardinality({t \in Chains : chain[t] = "lost"}) < MaxRaises
     THEN {"lost"} ELSE {})

Grown(t) ==
  /\ chain[t] \in {"growing", "dispatched"}
  /\ growing' = growing - 1
  /\ dispatcher' = IF chain[t] = "dispatched" THEN "scan" ELSE dispatcher
  /\ \/ \E m \in Fresh :
          /\ members' = members \cup {m}
          /\ held' = [held EXCEPT ![t] = @ \cup {m}]
          /\ \E as \in IF chain[t] = "dispatched" THEN Begins ELSE {"running"} :
               chain' = [chain EXCEPT ![t] = as]
     \/ /\ MayFail
        /\ chain' = [chain EXCEPT ![t] = "running"]
        /\ UNCHANGED <<members, held>>
  /\ UNCHANGED <<idle, waiters, given, retiring>>

MutantOfferTwice(m, chains, gifts) ==
  /\ idle' = idle \cup {m}
  /\ IF waiters = << >>
     THEN chain' = chains /\ given' = gifts /\ UNCHANGED waiters
     ELSE /\ waiters' = Tail(waiters)
          /\ chain' = [chains EXCEPT ![Head(waiters)] = "given"]
          /\ given' = [gifts EXCEPT ![Head(waiters)] = m]

MutantOfferIdle(m, chains, gifts) ==
  /\ idle' = idle \cup {m}
  /\ chain' = chains /\ given' = gifts
  /\ UNCHANGED waiters

(* PoolState.release of a member of the pool: to the oldest waiter, else   *)
(* back to the idle members.  chains and gifts are chain and given with    *)
(* what else the caller changes.                                           *)
Offer(m, chains, gifts) ==
  IF waiters = << >>
  THEN /\ idle' = idle \cup {m}
       /\ chain' = chains /\ given' = gifts
       /\ UNCHANGED waiters
  ELSE /\ waiters' = Tail(waiters)
       /\ chain' = [chains EXCEPT ![Head(waiters)] = "given"]
       /\ given' = [gifts EXCEPT ![Head(waiters)] = m]
       /\ UNCHANGED idle

(* A member retired meanwhile, or idle already, goes nowhere.              *)
GiveBack(m, chains, gifts) ==
  IF m \in members \ idle
  THEN Offer(m, chains, gifts)
  ELSE chain' = chains /\ given' = gifts /\ UNCHANGED <<idle, waiters>>

Release(t) ==
  /\ chain[t] = "running"
  /\ \E m \in held[t] :
       /\ held' = [held EXCEPT ![t] = @ \ {m}]
       /\ GiveBack(m, chain, given)
  /\ UNCHANGED <<members, growing, dispatcher, retiring>>

(* The waiter's task runs on with the member it was given.                 *)
Receive(t) ==
  /\ chain[t] = "given"
  /\ held' = [held EXCEPT ![t] = @ \cup {given[t]}]
  /\ given' = [given EXCEPT ![t] = NoMember]
  /\ chain' = [chain EXCEPT ![t] = "running"]
  /\ UNCHANGED <<pool, dispatcher, retiring>>

(* A waiting task is cancelled; a member it was already given goes on.     *)
CancelWaiting(t) ==
  /\ chain[t] = "waiting"
  /\ \E i \in DOMAIN waiters :
       /\ waiters[i] = t
       /\ waiters' = SubSeq(waiters, 1, i - 1)
                       \o SubSeq(waiters, i + 1, Len(waiters))
  /\ chain' = [chain EXCEPT ![t] = "running"]
  /\ UNCHANGED <<members, idle, growing, held, given, dispatcher, retiring>>

MutantCancelGiven(t) ==
  /\ chain[t] = "given"
  /\ chain' = [chain EXCEPT ![t] = "running"]
  /\ given' = [given EXCEPT ![t] = NoMember]
  /\ UNCHANGED <<pool, held, dispatcher, retiring>>

CancelGiven(t) ==
  /\ chain[t] = "given"
  /\ GiveBack(given[t], [chain EXCEPT ![t] = "running"],
              [given EXCEPT ![t] = NoMember])
  /\ UNCHANGED <<members, growing, held, dispatcher, retiring>>

-----------------------------------------------------------------------------
(* The dispatcher                                                          *)

(* Up to Pool.min members are kept warm.                                   *)
WarmUp ==
  /\ dispatcher = "scan"
  /\ Cardinality(members) < MinMembers
  /\ dispatcher' = "warming"
  /\ UNCHANGED <<pool, chain, held, given, retiring>>

WarmedUp ==
  /\ dispatcher = "warming"
  /\ dispatcher' = "scan"
  /\ \/ \E m \in Fresh :
          /\ members' = members \cup {m}
          /\ Offer(m, chain, given)
     \/ MayFail /\ UNCHANGED <<members, idle, waiters, chain, given>>
  /\ UNCHANGED <<growing, held, retiring>>

(* A need or a ready step gets a member if one can be had; it runs as a    *)
(* call chain of its own.                                                  *)
Dispatch(t) ==
  /\ dispatcher = "scan"
  /\ Cardinality(members) >= MinMembers
  /\ chain[t] = "running" /\ held[t] = {}
  /\ \/ (\E as \in Begins : TakeIdle(t, as)) /\ UNCHANGED dispatcher
     \/ StartGrowing(t, "dispatched") /\ dispatcher' = "acquiring"
  /\ UNCHANGED retiring

(* PoolState.retirable: idle members that have waited long enough, never   *)
(* the base nor so many that fewer than Pool.min are left.                 *)
Retirable ==
  {R \in SUBSET (idle \ {Base}) :
     R # {} /\ Cardinality(R) + MinMembers <= Cardinality(members)}

(* One member leaves, then its teardown is awaited.                        *)
Leaves(m) ==
  /\ idle' = idle \ {m}
  /\ members' = members \ {m}
  /\ UNCHANGED <<growing, waiters, chain, held, given>>

PickRetiring ==
  /\ dispatcher = "scan"
  /\ Cardinality(members) >= MinMembers
  /\ dispatcher' = "retiring"
  /\ \E R \in Retirable : \E m \in R : Leaves(m) /\ retiring' = R \ {m}

Retire ==
  /\ dispatcher = "retiring"
  /\ \E m \in retiring : Leaves(m) /\ retiring' = retiring \ {m}
  /\ UNCHANGED dispatcher

Retired ==
  /\ dispatcher = "retiring" /\ retiring = {}
  /\ dispatcher' = "scan"
  /\ UNCHANGED <<pool, chain, held, given, retiring>>

Next ==
  \/ \E t \in Chains :
       \/ Acquire(t) \/ Grown(t) \/ Release(t) \/ Receive(t)
       \/ CancelWaiting(t) \/ CancelGiven(t) \/ Dispatch(t)
  \/ WarmUp \/ WarmedUp \/ PickRetiring \/ Retire \/ Retired

Spec == Init /\ [][Next]_vars

(* A member's setup ends, a resolved future wakes its task, and a call     *)
(* chain does not lease members for ever before it releases one.           *)
Fairness ==
  \A t \in Chains :
    WF_vars(Grown(t)) /\ WF_vars(Receive(t)) /\ SF_vars(Release(t))

FairSpec == Spec /\ Fairness

-----------------------------------------------------------------------------
(* Properties                                                              *)

Taken(t) == held[t] \cup ({given[t]} \ {NoMember})

(* No instance ever runs two pieces of work, and none that is at work is   *)
(* offered as idle: not when a waiter is cancelled as it is served, nor    *)
(* when a member is retired under its work.                                *)
OneWorkPerMember ==
  /\ \A t, u \in Chains : t # u => Taken(t) \cap Taken(u) = {}
  /\ \A t \in Chains : Taken(t) \cap idle = {} /\ given[t] \notin held[t]

(* No member is lost but to a claim that raised: each is idle, or held by  *)
(* a chain, or on its way to one.                                          *)
NoMemberIsLost == members \subseteq idle \cup InUse

(* Nobody waits while a member is idle: not after a waiter is cancelled,   *)
(* nor when a warmed member joins while chains wait.                       *)
NobodyWaitsForIdle == waiters # << >> => idle = {}

(* The pool has at most Pool.max members, counting those being set up.     *)
(* Members that are warmed are added without counting the others being set *)
(* up, so only a pool with Pool.min = 1 keeps to Pool.max exactly.         *)
WithinMax ==
  Cardinality(members) + growing <= MaxMembers + (MinMembers - 1)

(* A waiting chain gets a member at last, also when the chains before it   *)
(* hold members while they lease more, setups fail and claims raise: as    *)
(* long as the pool is larger than what the other chains can hold while    *)
(* all of them wait or are lost.                                           *)
WaitersAreServed ==
  \A t \in Chains : chain[t] = "waiting" ~> chain[t] # "waiting"
=============================================================================
