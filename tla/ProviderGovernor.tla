-------------------------- MODULE ProviderGovernor --------------------------
(***************************************************************************)
(* The slots of one deployment in one process (AdaptiveConcurrency in      *)
(* execution/governor.py).  Calls of two lanes, interactive and bulk, made *)
(* from event loops in several threads, take a slot before they are sent.  *)
(* The limit is found: it grows on success, is halved on congestion and    *)
(* may jump to what the provider's headers allow.  A step here is what     *)
(* happens under the lock or between two awaits.                           *)
(***************************************************************************)
EXTENDS CallSet

CONSTANTS
  BulkCalls,    \* those of the bulk lane
  Ceiling,
  Initial,      \* the limit slow start begins with
  BulkCapacity  \* what is left for bulk work, max(1, int(limit * (1 - reserve)))

ASSUME GovernorAssumption ==
  /\ BulkCalls \subseteq Calls
  /\ Ceiling \in Nat \ {0}
  /\ Initial \in 1..Ceiling
  /\ BulkCapacity \in [1..Ceiling -> 1..Ceiling]
  /\ \A n \in 1..Ceiling : BulkCapacity[n] <= n

VARIABLES
  limit,     \* int(AdaptiveConcurrency.limit)
  inFlight,  \* AdaptiveConcurrency.in_flight
  slot,      \* how far each call is with its slot
  ahead,     \* the order of AdaptiveConcurrency._waiters: who is before whom
  seen       \* the limit raise_to read and has not written back

governor == <<limit, inFlight, slot, ahead, seen>>

(* In the queue, its task cancelled or not.                                *)
Queued == {c \in Calls : slot[c] \in {"waiting", "abandoned"}}

(* Out of the queue with a slot on its way to a task that waits for it or  *)
(* was cancelled; with the slot delivered; held until the rate window      *)
(* admits the call; held by a call that is sent; being given back.         *)
Counted == {"handed", "refused", "given", "pacing", "sent", "raising", "raised"}
Counting == {c \in Calls : slot[c] \in Counted}

GovernorTypeOK ==
  /\ limit \in 1..Ceiling
  /\ inFlight \in Int
  /\ slot \in [Calls -> {"out", "waiting", "abandoned"} \cup Counted]
  /\ ahead \in [Calls -> SUBSET Calls]
  /\ seen \in [Calls -> 0..Ceiling]

GovernorInit ==
  /\ limit = Initial
  /\ inFlight = 0
  /\ slot = [c \in Calls |-> "out"]
  /\ ahead = [c \in Calls |-> {}]
  /\ seen = [c \in Calls |-> 0]

Capacity(c, n) == IF c \in BulkCalls THEN BulkCapacity[n] ELSE n

SameLane(c) == {d \in Calls : d \in BulkCalls <=> c \in BulkCalls}

(* Those of the queue that get a slot when n calls are in flight: each in  *)
(* its turn, if its lane has room beside the ones woken before it.         *)
Woken(W, n, lim) ==
  \A c \in Queued : c \in W <=> n + Cardinality(W \cap ahead[c]) < Capacity(c, lim)

Receiving(s) == IF s = "waiting" THEN "handed" ELSE "refused"

MutantWake(slots, lim) ==
  /\ limit' = lim
  /\ inFlight' = inFlight - 1
  /\ slot' = slots
  /\ UNCHANGED ahead

(* One call fewer in flight, then _wake.  slots is slot with the change of *)
(* the caller, lim the limit with its change.                              *)
Wake(slots, lim) ==
  \E W \in SUBSET Queued :
    /\ Woken(W, inFlight - 1, lim)
    /\ limit' = lim
    /\ inFlight' = inFlight - 1 + Cardinality(W)
    /\ slot' = [c \in Calls |-> IF c \in W THEN Receiving(slots[c]) ELSE slots[c]]
    /\ ahead' = [c \in Calls |-> IF c \in W THEN {} ELSE ahead[c] \ W]

-----------------------------------------------------------------------------
(* Taking a slot                                                           *)

(* There is room and nobody of the call's lane waits for it.               *)
Enter(c) ==
  /\ slot[c] = "out"
  /\ Queued \cap SameLane(c) = {} /\ inFlight < Capacity(c, limit)
  /\ inFlight' = inFlight + 1
  /\ slot' = [slot EXCEPT ![c] = "pacing"]
  /\ UNCHANGED <<limit, ahead, seen>>

Join(c) ==
  /\ slot[c] = "out"
  /\ Queued \cap SameLane(c) # {} \/ inFlight >= Capacity(c, limit)
  /\ slot' = [slot EXCEPT ![c] = "waiting"]
  /\ ahead' = [ahead EXCEPT ![c] = Queued]
  /\ UNCHANGED <<limit, inFlight, seen>>

(* On the waiter's own loop.                                               *)
Deliver(c) ==
  /\ slot[c] = "handed"
  /\ slot' = [slot EXCEPT ![c] = "given"]
  /\ UNCHANGED <<limit, inFlight, ahead, seen>>

MutantRefuse(c) ==
  /\ slot[c] = "refused"
  /\ slot' = [slot EXCEPT ![c] = "out"]
  /\ UNCHANGED <<limit, inFlight, ahead, seen>>

(* The waiter was cancelled before its slot arrived.                       *)
Refuse(c) ==
  /\ slot[c] = "refused"
  /\ Wake([slot EXCEPT ![c] = "out"], limit)
  /\ UNCHANGED seen

Resume(c) ==
  /\ slot[c] = "given"
  /\ slot' = [slot EXCEPT ![c] = "pacing"]
  /\ UNCHANGED <<limit, inFlight, ahead, seen>>

(* The task that waits is cancelled, and with it its future; the waiter is *)
(* in the queue until the task runs.                                       *)
Abandon(c) ==
  /\ slot[c] \in {"waiting", "handed"}
  /\ slot' = [slot EXCEPT ![c] = IF @ = "waiting" THEN "abandoned" ELSE "refused"]
  /\ UNCHANGED <<limit, inFlight, ahead, seen>>

Leave(c) ==
  /\ slot[c] = "abandoned"
  /\ slot' = [slot EXCEPT ![c] = "out"]
  /\ ahead' = [d \in Calls |-> IF d = c THEN {} ELSE ahead[d] \ {c}]
  /\ UNCHANGED <<limit, inFlight, seen>>

(* Cancelled after its slot was delivered and before it ran, or while it   *)
(* waited for the rate window.                                             *)
GiveBack(c) ==
  /\ slot[c] \in {"given", "pacing"}
  /\ Wake([slot EXCEPT ![c] = "out"], limit)
  /\ UNCHANGED seen

(* The rate window admits the call.                                        *)
Send(c) ==
  /\ slot[c] = "pacing"
  /\ slot' = [slot EXCEPT ![c] = "sent"]
  /\ UNCHANGED <<limit, inFlight, ahead, seen>>

-----------------------------------------------------------------------------
(* Giving it back                                                          *)

Halved == IF limit \div 2 < 1 THEN 1 ELSE limit \div 2

(* Growth by one or by a fraction, and halving but once in two seconds.    *)
LimitAfter(outcome) ==
  CASE outcome = "ok" -> {n \in {limit, limit + 1} : n <= Ceiling}
    [] outcome = "congested" -> {limit, Halved}
    [] outcome = "neutral" -> {limit}

(* raise_to: without the lock, the limit is read and then written, unless  *)
(* it was halved in the last minute.                                       *)
ReadLimit(c) ==
  /\ slot[c] = "sent"
  /\ slot' = [slot EXCEPT ![c] = "raising"]
  /\ seen' = [seen EXCEPT ![c] = limit]
  /\ UNCHANGED <<limit, inFlight, ahead>>

RaiseLimit(c) ==
  /\ slot[c] = "raising"
  /\ limit' \in {limit} \cup seen[c]..Ceiling
  /\ slot' = [slot EXCEPT ![c] = "raised"]
  /\ seen' = [seen EXCEPT ![c] = 0]
  /\ UNCHANGED <<inFlight, ahead>>

(* A call that failed or was told of congestion; a call that went well.    *)
ReleaseSlot(c, outcome) ==
  /\ \/ slot[c] = "raised" /\ outcome = "ok"
     \/ slot[c] = "sent" /\ outcome # "ok"
  /\ \E lim \in LimitAfter(outcome) : Wake([slot EXCEPT ![c] = "out"], lim)
  /\ UNCHANGED seen

(* The process dies; the next one starts with a governor of its own.       *)
RestartGovernor ==
  /\ limit' = Initial
  /\ inFlight' = 0
  /\ slot' = [c \in Calls |-> "out"]
  /\ ahead' = [c \in Calls |-> {}]
  /\ seen' = [c \in Calls |-> 0]

GovernorNext ==
  \/ \E c \in Calls :
       \/ Enter(c) \/ Join(c) \/ Deliver(c) \/ Refuse(c) \/ Resume(c)
       \/ Abandon(c) \/ Leave(c) \/ GiveBack(c) \/ Send(c)
       \/ ReadLimit(c) \/ RaiseLimit(c)
       \/ \E outcome \in {"ok", "congested", "neutral"} : ReleaseSlot(c, outcome)
  \/ RestartGovernor

GovernorSpec == GovernorInit /\ [][GovernorNext]_governor

-----------------------------------------------------------------------------
(* Properties                                                              *)

(* The count of calls in flight is the number of slots that are somewhere: *)
(* none is lost or counted twice when a wait is cancelled while its slot   *)
(* is on the way, or was delivered and not yet used.                       *)
SlotsAccounted == inFlight = Cardinality(Counting)

(* Nobody waits while its lane has room, except until the call that just   *)
(* raised the limit has given back its slot.                               *)
NobodyWaitsForRoom ==
  \/ \A c \in Queued : inFlight >= Capacity(c, limit)
  \/ \E c \in Calls : slot[c] = "raised"

(* However many slots one step hands over, a call is admitted only within  *)
(* the limit in force, and a bulk call leaves the headroom for interactive *)
(* ones: beside it only interactive calls may fill it.                     *)
Entered == Counting' \ Counting
AdmitsWithinLimit ==
  /\ Entered # {} => inFlight' <= limit'
  /\ Entered \cap BulkCalls # {} =>
       inFlight' <= BulkCapacity[limit'] + Cardinality(Entered \ BulkCalls)
AdmittedWithinLimit == [][AdmitsWithinLimit]_governor
=============================================================================
