------------------------------ MODULE ModelCalls ------------------------------
(***************************************************************************)
(* Calls of a language model (UnifiedLLMClient.generate in                 *)
(* execution/llm.py): each reserves its tokens with its workflow and with  *)
(* the person it is made for, takes a slot of its deployment, is sent, and *)
(* sent again after a rate limit; then it gives back the slot and settles  *)
(* or releases the reservations.  The calls share one process, whose       *)
(* governor dies with it; the budgets are in Redis and outlive it.         *)
(***************************************************************************)
EXTENDS ProviderGovernor, TokenBudget

CONSTANTS
  MaxRetries,  \* llm_max_retries_429
  Usage,       \* the tokens a call may turn out to use
  MaxTroubles  \* bound: rate limits, lapses, crashes and new days in all

VARIABLES
  stage,     \* how far each call is
  attempts,  \* rate limits each call was answered with
  troubles

vars == <<governor, budget, stage, attempts, troubles>>

ASSUME ModelCallsAssumption ==
  /\ MaxRetries \in Nat /\ MaxTroubles \in Nat
  /\ \A c \in Calls : Usage[c] \subseteq 0..Amount[c]

(* Before the call is made; while it is made; its task was cancelled and   *)
(* has not run yet; it went well and is settled; it failed and is undone.  *)
Preparing == {"opening", "reserving", "charging"}
Calling == {"calling", "pausing", "cancelled"}
Settling == {"settling", "billing"}
Undoing == {"releasing", "refunding"}
Over == {"refused", "done", "failed", "dead"}

Stages == {"new"} \cup Preparing \cup Calling \cup Settling \cup Undoing \cup Over

TypeOK ==
  /\ GovernorTypeOK /\ BudgetTypeOK
  /\ stage \in [Calls -> Stages]
  /\ attempts \in [Calls -> 0..MaxRetries]
  /\ troubles \in 0..MaxTroubles

Init ==
  /\ GovernorInit /\ BudgetInit
  /\ stage = [c \in Calls |-> "new"]
  /\ attempts = [c \in Calls |-> 0]
  /\ troubles = 0

Trouble == troubles < MaxTroubles /\ troubles' = troubles + 1
Goes(c, from, to) == stage[c] = from /\ stage' = [stage EXCEPT ![c] = to]

-----------------------------------------------------------------------------
(* Reserving the tokens                                                    *)

Look(c) ==
  /\ Goes(c, "new", IF opened THEN "reserving" ELSE "opening")
  /\ UNCHANGED <<governor, budget, attempts, troubles>>

Open(c) ==
  /\ Goes(c, "opening", "reserving")
  /\ OpenEpoch
  /\ UNCHANGED <<governor, attempts, troubles>>

Reserve(c) ==
  /\ \/ ReserveTokens(c) /\ Goes(c, "reserving", "charging")
     \/ ~ Fits(c) /\ Goes(c, "reserving", "refused") /\ UNCHANGED budget
  /\ UNCHANGED <<governor, attempts, troubles>>

(* A person who may not spend as much: the workflow gets its tokens back.  *)
Charge(c) ==
  /\ \/ PersonReserve(c) /\ Goes(c, "charging", "calling")
     \/ ~ PersonFits(c) /\ Goes(c, "charging", "releasing") /\ UNCHANGED budget
  /\ UNCHANGED <<governor, attempts, troubles>>

-----------------------------------------------------------------------------
(* Making the call                                                         *)

Admit(c) ==
  /\ stage[c] = "calling"
  /\ Enter(c) \/ Join(c) \/ Resume(c) \/ Send(c)
  /\ UNCHANGED <<budget, stage, attempts, troubles>>

(* What the governor does on its own: a slot reaches its waiter's loop.    *)
Arrive(c) ==
  /\ Deliver(c) \/ Refuse(c)
  /\ UNCHANGED <<budget, stage, attempts, troubles>>

Raise(c) ==
  /\ stage[c] = "calling"
  /\ ReadLimit(c) \/ RaiseLimit(c)
  /\ UNCHANGED <<budget, stage, attempts, troubles>>

(* The provider answered; its headers may report congestion.               *)
Answered(c) ==
  /\ Goes(c, "calling", "settling")
  /\ ReleaseSlot(c, "ok") \/ ReleaseSlot(c, "congested")
  /\ UNCHANGED <<budget, attempts, troubles>>

MutantRateLimited(c) ==
  /\ Trouble
  /\ ReleaseSlot(c, "congested")
  /\ Goes(c, "calling", "pausing")
  /\ attempts' = [attempts EXCEPT ![c] = @ + 1]
  /\ UNCHANGED budget

(* A 429: the call pauses and is made again, if it has attempts left and   *)
(* the provider does not ask for a pause of more than five minutes.        *)
RateLimited(c) ==
  /\ Trouble
  /\ ReleaseSlot(c, "congested")
  /\ \/ /\ attempts[c] < MaxRetries
        /\ attempts' = [attempts EXCEPT ![c] = @ + 1]
        /\ Goes(c, "calling", "pausing")
     \/ Goes(c, "calling", "releasing") /\ UNCHANGED attempts
  /\ UNCHANGED budget

Again(c) ==
  /\ Goes(c, "pausing", "calling")
  /\ UNCHANGED <<governor, budget, attempts, troubles>>

(* Any other error, or a cancellation while the call is out.               *)
Failed(c) ==
  /\ Goes(c, "calling", "releasing")
  /\ ReleaseSlot(c, "neutral")
  /\ UNCHANGED <<budget, attempts, troubles>>

-----------------------------------------------------------------------------
(* Cancelling it                                                           *)

(* While it waits for its slot: the task runs on later.                    *)
CancelWaiting(c) ==
  /\ Goes(c, "calling", "cancelled")
  /\ Abandon(c)
  /\ UNCHANGED <<budget, attempts, troubles>>

MutantUnwind(c) ==
  /\ Goes(c, "cancelled", "failed")
  /\ IF slot[c] = "abandoned" THEN Leave(c) ELSE UNCHANGED governor
  /\ UNCHANGED <<budget, attempts, troubles>>

Unwind(c) ==
  /\ Goes(c, "cancelled", "releasing")
  /\ IF slot[c] = "abandoned" THEN Leave(c) ELSE UNCHANGED governor
  /\ UNCHANGED <<budget, attempts, troubles>>

(* With a slot in hand, not used yet.                                      *)
CancelAdmitted(c) ==
  /\ Goes(c, "calling", "releasing")
  /\ GiveBack(c)
  /\ UNCHANGED <<budget, attempts, troubles>>

CancelPause(c) ==
  /\ Goes(c, "pausing", "releasing")
  /\ UNCHANGED <<governor, budget, attempts, troubles>>

-----------------------------------------------------------------------------
(* Accounting for it                                                       *)

Settle(c) ==
  /\ Goes(c, "settling", "billing")
  /\ \E tokens \in Usage[c] : SettleTokens(c, tokens)
  /\ UNCHANGED <<governor, attempts, troubles>>

Bill(c) ==
  /\ Goes(c, "billing", "done")
  /\ \E tokens \in Usage[c] : PersonSettle(c, tokens)
  /\ UNCHANGED <<governor, attempts, troubles>>

Release(c) ==
  /\ Goes(c, "releasing", IF charge[c] = "none" THEN "refused" ELSE "refunding")
  /\ ReleaseTokens(c)
  /\ UNCHANGED <<governor, attempts, troubles>>

Refund(c) ==
  /\ Goes(c, "refunding", "failed")
  /\ PersonRelease(c)
  /\ UNCHANGED <<governor, attempts, troubles>>

-----------------------------------------------------------------------------
(* Time and crashes                                                        *)

(* A reservation's lease runs out, whether or not its call goes on.        *)
Lapse(c) ==
  /\ Trouble
  /\ LapseTokens(c) \/ PersonLapse(c)
  /\ UNCHANGED <<governor, stage, attempts>>

NewDay ==
  /\ Trouble
  /\ NewPeriod
  /\ UNCHANGED <<governor, stage, attempts>>

(* The process dies with the calls it makes.  The others are made by the   *)
(* next one.                                                               *)
Crash ==
  /\ Trouble
  /\ stage' = [c \in Calls |-> IF stage[c] \in {"new"} \cup Over THEN stage[c] ELSE "dead"]
  /\ RestartGovernor
  /\ UNCHANGED <<budget, attempts>>

Progress(c) ==
  \/ Look(c) \/ Open(c) \/ Reserve(c) \/ Charge(c)
  \/ Admit(c) \/ Arrive(c) \/ Raise(c)
  \/ Answered(c) \/ RateLimited(c) \/ Again(c) \/ Failed(c)
  \/ Unwind(c) \/ Settle(c) \/ Bill(c) \/ Release(c) \/ Refund(c)

Next ==
  \/ \E c \in Calls :
       \/ Progress(c)
       \/ CancelWaiting(c) \/ CancelAdmitted(c) \/ CancelPause(c)
       \/ Lapse(c)
  \/ NewDay \/ Crash

Spec == Init /\ [][Next]_vars

(* A task that can run does, a provider answers or the request times out,  *)
(* the rate window makes room, and Redis answers.                          *)
Fairness == WF_vars(\E c \in Calls : Progress(c))

FairSpec == Spec /\ Fairness

-----------------------------------------------------------------------------
(* Properties                                                              *)

(* A call that is over holds nothing, however it ended: no slot, except    *)
(* one that is on its way and will be refused, no place in the queue, and  *)
(* no tokens.  Only a call whose process died leaves reservations behind,  *)
(* and they lapse.                                                         *)
NothingIsLeft ==
  \A c \in Calls :
    /\ stage[c] \in Settling \cup Undoing \cup Over => slot[c] \in {"out", "refused"}
    /\ stage[c] \in {"refused", "done", "failed"} =>
         {account[c], charge[c]} \cap {"held", "lapsed"} = {}

(* Every call comes to an end: nobody waits for a slot for ever, although  *)
(* waits are cancelled and limits halved.                                  *)
EveryCallEnds == <>(\A c \in Calls : stage[c] \in Over)

(* The calls use the governor and the budgets as these modules allow any   *)
(* caller to: what is proved of them holds here.                           *)
PacedByGovernor == GovernorSpec
KeepsBudgets == BudgetSpec
=============================================================================
