-------------------------- MODULE ModelCallsProofs --------------------------
(* Proofs about model calls, for any number of calls of both lanes, any    *)
(* ceiling, and whatever they reserve.  First the governor: slots are      *)
(* counted right and nobody waits while there is room.  Then the budgets:  *)
(* what is used and reserved stays within the limits.  Last the calls that *)
(* use both: what was proved holds of them, and a call that is over has    *)
(* left nothing behind.                                                    *)
EXTENDS ModelCalls, FiniteSetTheorems, TLAPS

USE CallsAssumption, GovernorAssumption

-----------------------------------------------------------------------------
(* The inductive invariant                                                 *)

GovernorInv ==
  /\ GovernorTypeOK
  /\ SlotsAccounted
  /\ NobodyWaitsForRoom

LEMMA GovernorInitInv == GovernorInit => GovernorInv
<1> SUFFICES ASSUME GovernorInit PROVE GovernorInv
  OBVIOUS
<1>1. GovernorTypeOK
  BY DEF GovernorInit, GovernorTypeOK, Counted
<1>2. Counting = {} /\ Queued = {}
  BY DEF GovernorInit, Counting, Counted, Queued
<1>3. QED
  BY <1>1, <1>2, FS_EmptySet DEF GovernorInit, GovernorInv, SlotsAccounted, NobodyWaitsForRoom

LEMMA FiniteCounting ==
  /\ IsFiniteSet(Counting) /\ IsFiniteSet(Queued)
  /\ Cardinality(Counting) \in Nat
BY FS_Subset, FS_CardinalityType DEF Counting, Queued

LEMMA CapacityType ==
  ASSUME NEW c \in Calls, NEW n \in 1..Ceiling
  PROVE  Capacity(c, n) \in 1..Ceiling
BY DEF Capacity

-----------------------------------------------------------------------------
(* Steps that move no slot                                                 *)

(* A call's slot is on its way or used; the counts stay as they are.       *)
LEMMA SameCounts ==
  ASSUME GovernorInv, GovernorTypeOK', inFlight' = inFlight, limit' = limit,
         Counting' = Counting, Queued' \subseteq Queued,
         \A c \in Calls : slot[c] = "raised" => slot'[c] = "raised"
  PROVE  GovernorInv'
<1>1. SlotsAccounted'
  BY DEF GovernorInv, SlotsAccounted
<1>2. NobodyWaitsForRoom'
  BY DEF GovernorInv, NobodyWaitsForRoom, Capacity
<1>3. QED
  BY <1>1, <1>2 DEF GovernorInv

-----------------------------------------------------------------------------
(* A slot given back                                                       *)

LEMMA WakeInv ==
  ASSUME GovernorInv, NEW c \in Counting, NEW lim \in 1..Ceiling, seen' = seen,
         Wake([slot EXCEPT ![c] = "out"], lim)
  PROVE  GovernorInv'
<1> DEFINE slots == [slot EXCEPT ![c] = "out"]
<1>1. PICK W \in SUBSET Queued :
        /\ Woken(W, inFlight - 1, lim)
        /\ limit' = lim
        /\ inFlight' = inFlight - 1 + Cardinality(W)
        /\ slot' = [d \in Calls |-> IF d \in W THEN Receiving(slots[d]) ELSE slots[d]]
        /\ ahead' = [d \in Calls |-> IF d \in W THEN {} ELSE ahead[d] \ W]
  BY DEF Wake
<1>2. c \in Calls /\ c \notin Queued /\ slot[c] \in Counted
  BY DEF Counting, Counted, Queued
<1>3. \A d \in Calls : slots[d] = IF d = c THEN "out" ELSE slot[d]
  BY <1>2 DEF GovernorInv, GovernorTypeOK
<1>4. \A d \in W : d \in Calls /\ d # c /\ slot'[d] \in {"handed", "refused"}
  BY <1>1, <1>2 DEF Queued, Receiving
<1>5. \A d \in Calls \ W : slot'[d] = slots[d]
  BY <1>1
<1>6. GovernorTypeOK'
  <2>1. \A d \in Calls : slots[d] \in {"out", "waiting", "abandoned"} \cup Counted
    BY <1>3 DEF GovernorInv, GovernorTypeOK
  <2>2. slot' \in [Calls -> {"out", "waiting", "abandoned"} \cup Counted]
    BY <1>1, <2>1 DEF Receiving, Counted
  <2>3. ahead' \in [Calls -> SUBSET Calls]
    BY <1>1 DEF GovernorInv, GovernorTypeOK
  <2>4. inFlight' \in Int
    BY <1>1, FiniteCounting, FS_Subset, FS_CardinalityType DEF GovernorInv, GovernorTypeOK
  <2>5. QED
    BY <1>1, <2>2, <2>3, <2>4 DEF GovernorInv, GovernorTypeOK
<1>7. Counting' = (Counting \ {c}) \cup W
  BY <1>2, <1>3, <1>4, <1>5 DEF Counting, Counted, Queued
<1>8. Queued' = Queued \ W
  BY <1>2, <1>3, <1>4, <1>5 DEF Queued, Counted
<1>9. IsFiniteSet(W) /\ Cardinality(W) \in Nat
  BY FiniteCounting, FS_Subset, FS_CardinalityType
<1>10. SlotsAccounted'
  <2>1. /\ IsFiniteSet(Counting \ {c})
        /\ Cardinality(Counting \ {c}) = Cardinality(Counting) - 1
    BY FiniteCounting, FS_RemoveElement
  <2>2. (Counting \ {c}) \cap W = {}
    BY <1>1 DEF Counting, Counted, Queued
  <2>3. Cardinality((Counting \ {c}) \cup W)
          = Cardinality(Counting \ {c}) + Cardinality(W) - 0
    BY <1>9, <2>1, <2>2, FS_Union, FS_EmptySet
  <2>4. QED
    BY <1>1, <1>7, <1>9, <2>1, <2>3, FiniteCounting DEF GovernorInv, SlotsAccounted
<1>11. NobodyWaitsForRoom'
  <2>1. SUFFICES ASSUME NEW d \in Queued \ W
                 PROVE  inFlight' >= Capacity(d, lim)
    BY <1>1, <1>8 DEF NobodyWaitsForRoom, Capacity
  <2>2. d \in Calls
    BY DEF Queued
  <2>3. inFlight - 1 + Cardinality(W \cap ahead[d]) >= Capacity(d, lim)
    <3>1. ~ (inFlight - 1 + Cardinality(W \cap ahead[d]) < Capacity(d, lim))
      BY <1>1, <2>1 DEF Woken
    <3>2. Capacity(d, lim) \in Int /\ inFlight \in Int
      BY <2>2, CapacityType DEF GovernorInv, GovernorTypeOK
    <3>3. Cardinality(W \cap ahead[d]) \in Nat
      BY <1>9, FS_Subset, FS_CardinalityType
    <3>4. QED
      BY <3>1, <3>2, <3>3
  <2>4. Cardinality(W \cap ahead[d]) <= Cardinality(W)
        /\ Cardinality(W \cap ahead[d]) \in Nat
    BY <1>9, FS_Subset, FS_CardinalityType
  <2>5. Capacity(d, lim) \in Int /\ inFlight \in Int
    BY <2>2, CapacityType DEF GovernorInv, GovernorTypeOK
  <2>6. QED
    BY <1>1, <1>9, <2>3, <2>4, <2>5
<1>12. QED
  BY <1>6, <1>10, <1>11 DEF GovernorInv

-----------------------------------------------------------------------------
(* Every step keeps the invariant                                          *)

LEMMA EnterInv ==
  ASSUME GovernorInv, NEW c \in Calls, Enter(c)
  PROVE  GovernorInv'
<1>1. GovernorTypeOK'
  BY DEF GovernorInv, GovernorTypeOK, Enter, Counted
<1>2. Counting' = Counting \cup {c} /\ c \notin Counting /\ Queued' = Queued
  BY DEF GovernorInv, GovernorTypeOK, Enter, Counting, Counted, Queued
<1>3. SlotsAccounted'
  BY <1>2, FiniteCounting, FS_AddElement DEF GovernorInv, SlotsAccounted, Enter
<1>4. NobodyWaitsForRoom'
  <2>1. CASE \E d \in Calls : slot[d] = "raised"
    BY <2>1 DEF GovernorInv, GovernorTypeOK, Enter, NobodyWaitsForRoom
  <2>2. CASE \A d \in Queued : inFlight >= Capacity(d, limit)
    <3>1. \A d \in Queued : Capacity(d, limit) \in Int
      BY CapacityType DEF GovernorInv, GovernorTypeOK, Queued
    <3>2. \A d \in Queued' : inFlight' >= Capacity(d, limit)
      BY <1>2, <2>2, <3>1 DEF GovernorInv, GovernorTypeOK, Enter
    <3>3. QED
      BY <3>2 DEF Enter, NobodyWaitsForRoom, Capacity
  <2>3. QED
    BY <2>1, <2>2 DEF GovernorInv, NobodyWaitsForRoom
<1>5. QED
  BY <1>1, <1>3, <1>4 DEF GovernorInv

LEMMA JoinInv ==
  ASSUME GovernorInv, NEW c \in Calls, Join(c)
  PROVE  GovernorInv'
<1>1. GovernorTypeOK'
  BY DEF GovernorInv, GovernorTypeOK, Join, Counted, Queued
<1>2. Counting' = Counting /\ Queued' = Queued \cup {c}
  BY DEF GovernorInv, GovernorTypeOK, Join, Counting, Counted, Queued
<1>3. SlotsAccounted'
  BY <1>2 DEF GovernorInv, SlotsAccounted, Join
<1>4. NobodyWaitsForRoom'
  <2>1. CASE \E d \in Calls : slot[d] = "raised"
    BY <2>1 DEF GovernorInv, GovernorTypeOK, Join, NobodyWaitsForRoom
  <2>2. CASE \A d \in Queued : inFlight >= Capacity(d, limit)
    <3>1. inFlight >= Capacity(c, limit)
      BY <2>2 DEF Join, SameLane, Capacity
    <3>2. QED
      BY <1>2, <2>2, <3>1 DEF Join, NobodyWaitsForRoom, Capacity
  <2>3. QED
    BY <2>1, <2>2 DEF GovernorInv, NobodyWaitsForRoom
<1>5. QED
  BY <1>1, <1>3, <1>4 DEF GovernorInv

(* Steps of a call's own slot that leave the counts alone.                 *)
LEMMA OwnSteps ==
  ASSUME GovernorInv, NEW c \in Calls,
         \/ Deliver(c) \/ Resume(c) \/ Abandon(c) \/ Leave(c) \/ Send(c)
         \/ ReadLimit(c)
  PROVE  GovernorInv'
<1>1. CASE Deliver(c)
  <2>1. GovernorTypeOK' /\ Counting' = Counting /\ Queued' = Queued
    BY <1>1 DEF GovernorInv, GovernorTypeOK, Deliver, Counting, Counted, Queued
  <2>2. QED
    BY <1>1, <2>1, SameCounts DEF GovernorInv, GovernorTypeOK, Deliver
<1>2. CASE Resume(c)
  <2>1. GovernorTypeOK' /\ Counting' = Counting /\ Queued' = Queued
    BY <1>2 DEF GovernorInv, GovernorTypeOK, Resume, Counting, Counted, Queued
  <2>2. QED
    BY <1>2, <2>1, SameCounts DEF GovernorInv, GovernorTypeOK, Resume
<1>3. CASE Abandon(c)
  <2>1. GovernorTypeOK'
    BY <1>3 DEF GovernorInv, GovernorTypeOK, Abandon, Counted
  <2>2. \A d \in Calls : slot'[d] = IF d = c THEN IF slot[c] = "waiting" THEN "abandoned"
                                                   ELSE "refused"
                                    ELSE slot[d]
    BY <1>3 DEF GovernorInv, GovernorTypeOK, Abandon
  <2>3. Counting' = Counting /\ Queued' = Queued
    BY <1>3, <2>2 DEF Abandon, Counting, Counted, Queued
  <2>4. QED
    BY <1>3, <2>1, <2>2, <2>3, SameCounts DEF Abandon
<1>4. CASE Leave(c)
  <2>1. GovernorTypeOK'
    BY <1>4 DEF GovernorInv, GovernorTypeOK, Leave, Counted
  <2>2. Counting' = Counting /\ Queued' \subseteq Queued
    BY <1>4 DEF GovernorInv, GovernorTypeOK, Leave, Counting, Counted, Queued
  <2>3. QED
    BY <1>4, <2>1, <2>2, SameCounts DEF GovernorInv, GovernorTypeOK, Leave
<1>5. CASE Send(c)
  <2>1. GovernorTypeOK' /\ Counting' = Counting /\ Queued' = Queued
    BY <1>5 DEF GovernorInv, GovernorTypeOK, Send, Counting, Counted, Queued
  <2>2. QED
    BY <1>5, <2>1, SameCounts DEF GovernorInv, GovernorTypeOK, Send
<1>6. CASE ReadLimit(c)
  <2>1. GovernorTypeOK' /\ Counting' = Counting /\ Queued' = Queued
    BY <1>6 DEF GovernorInv, GovernorTypeOK, ReadLimit, Counting, Counted, Queued
  <2>2. QED
    BY <1>6, <2>1, SameCounts DEF GovernorInv, GovernorTypeOK, ReadLimit
<1>7. QED
  BY <1>1, <1>2, <1>3, <1>4, <1>5, <1>6

(* While raise_to is between its read and its write it has read a limit.   *)
HasRead == \A c \in Calls : slot[c] = "raising" => seen[c] # 0

LEMMA RaiseInv ==
  ASSUME GovernorInv, HasRead, NEW c \in Calls, RaiseLimit(c)
  PROVE  GovernorInv'
<1>1. GovernorTypeOK'
  BY DEF GovernorInv, GovernorTypeOK, HasRead, RaiseLimit, Counted
<1>2. Counting' = Counting
  BY DEF GovernorInv, GovernorTypeOK, RaiseLimit, Counting, Counted
<1>3. SlotsAccounted'
  BY <1>2 DEF GovernorInv, SlotsAccounted, RaiseLimit
<1>4. NobodyWaitsForRoom'
  BY DEF GovernorInv, GovernorTypeOK, RaiseLimit, NobodyWaitsForRoom
<1>5. QED
  BY <1>1, <1>3, <1>4 DEF GovernorInv

LEMMA LimitAfterType ==
  ASSUME GovernorTypeOK, NEW outcome \in {"ok", "congested", "neutral"}
  PROVE  LimitAfter(outcome) \subseteq 1..Ceiling
BY DEF GovernorTypeOK, LimitAfter, Halved

(* The steps that give a slot back.                                        *)
LEMMA BackInv ==
  ASSUME GovernorInv, NEW c \in Calls,
         \/ Refuse(c) \/ GiveBack(c)
         \/ \E outcome \in {"ok", "congested", "neutral"} : ReleaseSlot(c, outcome)
  PROVE  GovernorInv'
<1>1. CASE Refuse(c)
  <2>1. c \in Counting /\ limit \in 1..Ceiling
    BY <1>1 DEF GovernorInv, GovernorTypeOK, Refuse, Counting, Counted
  <2>2. QED
    BY <1>1, <2>1, WakeInv DEF Refuse
<1>2. CASE GiveBack(c)
  <2>1. c \in Counting /\ limit \in 1..Ceiling
    BY <1>2 DEF GovernorInv, GovernorTypeOK, GiveBack, Counting, Counted
  <2>2. QED
    BY <1>2, <2>1, WakeInv DEF GiveBack
<1>3. ASSUME NEW outcome \in {"ok", "congested", "neutral"}, ReleaseSlot(c, outcome)
      PROVE  GovernorInv'
  <2>1. c \in Counting
    BY <1>3 DEF ReleaseSlot, Counting, Counted
  <2>2. PICK lim \in LimitAfter(outcome) : Wake([slot EXCEPT ![c] = "out"], lim)
    BY <1>3 DEF ReleaseSlot
  <2>3. lim \in 1..Ceiling
    BY LimitAfterType DEF GovernorInv
  <2>4. QED
    BY <1>3, <2>1, <2>2, <2>3, WakeInv DEF ReleaseSlot
<1>4. QED
  BY <1>1, <1>2, <1>3

LEMMA RestartInv == RestartGovernor => GovernorInv'
<1> SUFFICES ASSUME RestartGovernor PROVE GovernorInv'
  OBVIOUS
<1>1. GovernorTypeOK'
  BY DEF RestartGovernor, GovernorTypeOK, Counted
<1>2. Counting' = {} /\ Queued' = {}
  BY DEF RestartGovernor, Counting, Counted, Queued
<1>3. QED
  BY <1>1, <1>2, FS_EmptySet DEF RestartGovernor, GovernorInv, SlotsAccounted, NobodyWaitsForRoom

(* Giving a slot back starts no raise.                                     *)
LEMMA WakeReads ==
  ASSUME GovernorTypeOK, HasRead, NEW c \in Calls, NEW lim, seen' = seen,
         Wake([slot EXCEPT ![c] = "out"], lim)
  PROVE  HasRead'
BY DEF GovernorTypeOK, HasRead, Wake, Receiving

LEMMA NextReads == GovernorTypeOK /\ HasRead /\ GovernorNext => HasRead'
<1> SUFFICES ASSUME GovernorTypeOK, HasRead, GovernorNext PROVE HasRead'
  OBVIOUS
<1>1. CASE RestartGovernor
  BY <1>1 DEF RestartGovernor, HasRead
<1>2. ASSUME NEW c \in Calls,
             \/ Enter(c) \/ Join(c) \/ Deliver(c) \/ Resume(c) \/ Abandon(c)
             \/ Leave(c) \/ Send(c) \/ ReadLimit(c) \/ RaiseLimit(c)
      PROVE  HasRead'
  <2>1. \A d \in Calls : slot'[d] = "raising" => slot[d] = "raising" \/ seen'[d] # 0
    BY <1>2 DEF GovernorTypeOK, Enter, Join, Deliver, Resume, Abandon, Leave, Send,
                ReadLimit, RaiseLimit
  <2>2. \A d \in Calls : slot'[d] = "raising" => seen'[d] = seen[d] \/ seen'[d] # 0
    BY <1>2 DEF GovernorTypeOK, Enter, Join, Deliver, Resume, Abandon, Leave, Send,
                ReadLimit, RaiseLimit
  <2>3. QED
    BY <2>1, <2>2 DEF HasRead
<1>3. ASSUME NEW c \in Calls, Refuse(c) \/ GiveBack(c) PROVE HasRead'
  BY <1>3, WakeReads DEF Refuse, GiveBack
<1>4. ASSUME NEW c \in Calls, NEW outcome, ReleaseSlot(c, outcome) PROVE HasRead'
  BY <1>4, WakeReads DEF ReleaseSlot
<1>5. QED
  BY <1>1, <1>2, <1>3, <1>4 DEF GovernorNext

LEMMA GovernorNextInv == GovernorInv /\ HasRead /\ [GovernorNext]_governor => (GovernorInv /\ HasRead)'
<1> SUFFICES ASSUME GovernorInv, HasRead, [GovernorNext]_governor PROVE (GovernorInv /\ HasRead)'
  OBVIOUS
<1>1. CASE GovernorNext
  <2>1. HasRead'
    BY <1>1, NextReads DEF GovernorInv
  <2>2. GovernorInv'
    BY <1>1, EnterInv, JoinInv, OwnSteps, RaiseInv, BackInv, RestartInv DEF GovernorNext
  <2>3. QED
    BY <2>1, <2>2
<1>2. CASE UNCHANGED governor
  BY <1>2 DEF governor, GovernorInv, HasRead, GovernorTypeOK, SlotsAccounted, NobodyWaitsForRoom,
              Counting, Queued, Capacity
<1>3. QED
  BY <1>1, <1>2

LEMMA GovernorSpecInv == GovernorSpec => [](GovernorInv /\ HasRead)
<1>1. GovernorInit => HasRead
  BY DEF GovernorInit, HasRead
<1>2. QED
  BY <1>1, GovernorInitInv, GovernorNextInv, PTL DEF GovernorSpec

-----------------------------------------------------------------------------
(* The order of the queue                                                  *)

(* Those that wait are in one line.                                        *)
InLine ==
  /\ \A c \in Calls : ahead[c] \subseteq Queued
  /\ \A c \in Calls : c \notin ahead[c]
  /\ \A c, d \in Queued : c # d => c \in ahead[d] \/ d \in ahead[c]
  /\ \A c, d, e \in Queued :
       c \in ahead[d] /\ d \in ahead[e] => c \in ahead[e]

(* How many of W stand before c.                                           *)
Before(W, c) == Cardinality(W \cap ahead[c])

(* Before tells those of W apart, and is less than their number.           *)
LEMMA BeforeGrows ==
  ASSUME InLine, NEW W \in SUBSET Queued
  PROVE  /\ IsFiniteSet(W) /\ Cardinality(W) \in Nat
         /\ \A c \in W : Before(W, c) \in Nat /\ Before(W, c) < Cardinality(W)
         /\ \A c, d \in W : c # d => Before(W, c) # Before(W, d)
<1>1. IsFiniteSet(W) /\ Cardinality(W) \in Nat
  BY FiniteCounting, FS_Subset, FS_CardinalityType
<1>2. ASSUME NEW c \in W, NEW S \in SUBSET W, c \notin S \/ S # W
      PROVE  IsFiniteSet(S) /\ Cardinality(S) \in Nat /\ Cardinality(S) < Cardinality(W)
  BY <1>1, <1>2, FS_Subset, FS_CardinalityType
<1>3. \A c \in W : Before(W, c) \in Nat /\ Before(W, c) < Cardinality(W)
  <2>1. SUFFICES ASSUME NEW c \in W
                 PROVE  Before(W, c) \in Nat /\ Before(W, c) < Cardinality(W)
    OBVIOUS
  <2>2. c \notin W \cap ahead[c] /\ W \cap ahead[c] \in SUBSET W
    BY DEF InLine, Queued
  <2>3. QED
    BY <1>2, <2>2 DEF Before
<1>4. ASSUME NEW c \in W, NEW d \in W, c \in ahead[d]
      PROVE  Before(W, c) < Before(W, d)
  <2>1. W \cap ahead[c] \subseteq W \cap ahead[d]
    BY <1>4 DEF InLine
  <2>2. c \in W \cap ahead[d] /\ c \notin W \cap ahead[c]
    BY <1>4 DEF InLine, Queued
  <2>3. W \cap ahead[c] # W \cap ahead[d]
    BY <2>2
  <2>4. IsFiniteSet(W \cap ahead[d])
    BY <1>1, FS_Subset
  <2>5. /\ Cardinality(W \cap ahead[c]) <= Cardinality(W \cap ahead[d])
        /\ Cardinality(W \cap ahead[c]) # Cardinality(W \cap ahead[d])
    BY <2>1, <2>3, <2>4, FS_Subset
  <2>6. QED
    BY <1>3, <2>5 DEF Before
<1>5. ASSUME NEW c \in W, NEW d \in W, c # d
      PROVE  Before(W, c) # Before(W, d)
  <2>1. c \in ahead[d] \/ d \in ahead[c]
    BY <1>5 DEF InLine
  <2>2. QED
    BY <1>3, <1>4, <2>1
<1>6. QED
  BY <1>1, <1>3, <1>5

(* A part of the line has a last one: the others of it are ahead.  Else    *)
(* two of its members had equally many before them.                        *)
LEMMA LastOne ==
  ASSUME InLine, NEW W \in SUBSET Queued, W # {}
  PROVE  \E c \in W : Before(W, c) = Cardinality(W) - 1
<1> SUFFICES ASSUME \A c \in W : Before(W, c) # Cardinality(W) - 1
             PROVE  FALSE
  OBVIOUS
<1>1. PICK m \in Nat : m = Cardinality(W)
  BY BeforeGrows
<1>2. m # 0 /\ m - 2 \in Int
  BY <1>1, BeforeGrows, FS_EmptySet
<1>3. \A c \in W : Before(W, c) \in 0..(m - 2)
  BY <1>1, BeforeGrows
<1>4. PICK f \in [W -> 0..(m - 2)] : \A c \in W : f[c] = Before(W, c)
  <2>1. [c \in W |-> Before(W, c)] \in [W -> 0..(m - 2)]
    BY <1>3
  <2>2. QED
    BY <2>1
<1>5. IsFiniteSet(0..(m - 2)) /\ Cardinality(0..(m - 2)) < m
  <2>1. /\ IsFiniteSet(0..(m - 2))
        /\ Cardinality(0..(m - 2)) = IF 0 > m - 2 THEN 0 ELSE m - 2 - 0 + 1
    BY <1>2, FS_Interval
  <2>2. QED
    BY <1>2, <2>1
<1>6. IsFiniteSet(W)
  BY BeforeGrows
<1>7. PICK c \in W, d \in W : c # d /\ f[c] = f[d]
  <2>1. \E x, y \in W : x # y /\ f[x] = f[y]
    BY <1>1, <1>5, <1>6, FS_PigeonHole
  <2>2. QED
    BY <2>1
<1>8. QED
  BY <1>4, <1>7, BeforeGrows

(* What a slot given back lets in is within the limit then in force.       *)
LEMMA WakeAdmits ==
  ASSUME GovernorInv, InLine, NEW c \in Counting, NEW lim \in 1..Ceiling,
         Wake([slot EXCEPT ![c] = "out"], lim)
  PROVE  AdmitsWithinLimit /\ InLine'
<1> DEFINE slots == [slot EXCEPT ![c] = "out"]
           n == inFlight - 1
<1>1. PICK W \in SUBSET Queued :
        /\ Woken(W, n, lim)
        /\ limit' = lim
        /\ inFlight' = n + Cardinality(W)
        /\ slot' = [d \in Calls |-> IF d \in W THEN Receiving(slots[d]) ELSE slots[d]]
        /\ ahead' = [d \in Calls |-> IF d \in W THEN {} ELSE ahead[d] \ W]
  BY DEF Wake
<1>2. c \in Calls /\ c \notin Queued /\ slot[c] \in Counted
  BY DEF Counting, Counted, Queued
<1>3. \A d \in Calls : slots[d] = IF d = c THEN "out" ELSE slot[d]
  BY <1>2 DEF GovernorInv, GovernorTypeOK
<1>4. /\ \A d \in W : d \in Calls /\ d # c /\ slot'[d] \in {"handed", "refused"}
      /\ \A d \in Calls \ W : slot'[d] = slots[d]
  BY <1>1, <1>2 DEF Queued, Receiving
<1>5. Entered = W /\ Queued' = Queued \ W
  BY <1>2, <1>3, <1>4 DEF Entered, Counting, Counted, Queued
<1>6. IsFiniteSet(W) /\ Cardinality(W) \in Nat /\ n \in Int
  BY FiniteCounting, FS_Subset, FS_CardinalityType DEF GovernorInv, GovernorTypeOK
<1>7. InLine'
  BY <1>1, <1>5 DEF InLine, GovernorInv, GovernorTypeOK, Queued
<1>8. ASSUME NEW V \in SUBSET W, V # {}
      PROVE  \E d \in V : /\ n + Cardinality(V) <= Capacity(d, lim)
                           /\ Capacity(d, lim) \in 1..Ceiling
  <2>1. PICK d \in V : Cardinality(V \cap ahead[d]) = Cardinality(V) - 1
    BY <1>8, LastOne DEF Before
  <2>2. d \in W /\ d \in Queued /\ d \in Calls
    BY <1>1 DEF Queued
  <2>3. n + Cardinality(W \cap ahead[d]) < Capacity(d, lim)
    BY <1>1, <2>2 DEF Woken
  <2>4. /\ IsFiniteSet(W \cap ahead[d])
        /\ V \cap ahead[d] \subseteq W \cap ahead[d]
    BY <1>6, FS_Subset
  <2>5. /\ Cardinality(W \cap ahead[d]) \in Nat
        /\ Cardinality(V \cap ahead[d]) \in Nat
        /\ Cardinality(V \cap ahead[d]) <= Cardinality(W \cap ahead[d])
    BY <2>4, FS_Subset, FS_CardinalityType
  <2>6. Cardinality(V) \in Nat
    BY <1>6, FS_Subset, FS_CardinalityType
  <2>7. Capacity(d, lim) \in 1..Ceiling
    BY <2>2, CapacityType
  <2>8. QED
    BY <1>6, <2>1, <2>3, <2>5, <2>6, <2>7
<1>9. Entered # {} => inFlight' <= limit'
  <2>1. SUFFICES ASSUME W # {} PROVE inFlight' <= limit'
    BY <1>5
  <2>2. PICK d \in W : /\ n + Cardinality(W) <= Capacity(d, lim)
                       /\ Capacity(d, lim) \in 1..Ceiling
    BY <1>8, <2>1
  <2>3. Capacity(d, lim) <= lim
    BY <1>4 DEF Capacity
  <2>4. QED
    BY <1>1, <1>6, <2>2, <2>3
<1>10. Entered \cap BulkCalls # {} =>
         inFlight' <= BulkCapacity[limit'] + Cardinality(Entered \ BulkCalls)
  <2>1. SUFFICES ASSUME W \cap BulkCalls # {}
                 PROVE  inFlight' <= BulkCapacity[lim] + Cardinality(W \ BulkCalls)
    BY <1>1, <1>5
  <2>2. PICK d \in W \cap BulkCalls :
          n + Cardinality(W \cap BulkCalls) <= Capacity(d, lim)
    BY <1>8, <2>1
  <2>3. n + Cardinality(W \cap BulkCalls) <= BulkCapacity[lim]
    BY <2>2 DEF Capacity
  <2>4. /\ Cardinality(W \cap BulkCalls) \in Nat
        /\ Cardinality(W \ BulkCalls) \in Nat
        /\ Cardinality(W) = Cardinality(W \cap BulkCalls)
                              + Cardinality(W \ BulkCalls)
    <3>1. IsFiniteSet(W \cap BulkCalls) /\ IsFiniteSet(W \ BulkCalls)
      BY <1>6, FS_Subset
    <3>2. /\ (W \cap BulkCalls) \cup (W \ BulkCalls) = W
          /\ (W \cap BulkCalls) \cap (W \ BulkCalls) = {}
      OBVIOUS
    <3>3. Cardinality((W \cap BulkCalls) \cup (W \ BulkCalls))
            = Cardinality(W \cap BulkCalls) + Cardinality(W \ BulkCalls)
                - Cardinality((W \cap BulkCalls) \cap (W \ BulkCalls))
      BY <3>1, FS_Union
    <3>4. /\ Cardinality(W \cap BulkCalls) \in Nat
          /\ Cardinality(W \ BulkCalls) \in Nat
      BY <3>1, FS_CardinalityType
    <3>5. Cardinality((W \cap BulkCalls) \cap (W \ BulkCalls)) = 0
      BY <3>2, FS_EmptySet
    <3>6. Cardinality(W) = Cardinality((W \cap BulkCalls) \cup (W \ BulkCalls))
      BY <3>2
    <3>7. QED
      BY <3>3, <3>4, <3>5, <3>6
  <2>5. BulkCapacity[lim] \in Int
    OBVIOUS
  <2>6. QED
    BY <1>1, <1>6, <2>3, <2>4, <2>5
<1>11. QED
  BY <1>7, <1>9, <1>10 DEF AdmitsWithinLimit

(* Who only moves on with the slot it has lets nobody in.                  *)
LEMMA NobodyEntered ==
  ASSUME Counting' \subseteq Counting
  PROVE  AdmitsWithinLimit
BY DEF AdmitsWithinLimit, Entered

LEMMA NextAdmits == GovernorInv /\ InLine /\ GovernorNext => AdmitsWithinLimit /\ InLine'
<1> SUFFICES ASSUME GovernorInv, InLine, GovernorNext PROVE AdmitsWithinLimit /\ InLine'
  OBVIOUS
<1>1. ASSUME NEW c \in Calls, Enter(c) PROVE AdmitsWithinLimit /\ InLine'
  <2>1. Counting' = Counting \cup {c} /\ c \notin Counting /\ Queued' = Queued
    BY <1>1 DEF GovernorInv, GovernorTypeOK, Enter, Counting, Counted, Queued
  <2>2. Entered = {c}
    BY <2>1 DEF Entered
  <2>3. /\ inFlight' <= Capacity(c, limit) /\ limit' = limit /\ inFlight' \in Int
        /\ Capacity(c, limit) \in Int /\ Capacity(c, limit) <= limit
    <3>1. Capacity(c, limit) \in Int /\ Capacity(c, limit) <= limit
      BY CapacityType DEF GovernorInv, GovernorTypeOK, Capacity
    <3>2. QED
      BY <1>1, <3>1 DEF GovernorInv, GovernorTypeOK, Enter
  <2>4. Entered # {} => inFlight' <= limit'
    BY <2>3 DEF GovernorInv, GovernorTypeOK
  <2>5. Entered \cap BulkCalls # {} =>
          inFlight' <= BulkCapacity[limit'] + Cardinality(Entered \ BulkCalls)
    <3>1. SUFFICES ASSUME c \in BulkCalls
                   PROVE  inFlight' <= BulkCapacity[limit] + Cardinality(Entered \ BulkCalls)
      BY <2>2, <2>3
    <3>2. Cardinality(Entered \ BulkCalls) = 0
      <4>1. Entered \ BulkCalls = {}
        BY <2>2, <3>1
      <4>2. QED
        BY <4>1, FS_EmptySet
    <3>3. inFlight' <= BulkCapacity[limit] /\ BulkCapacity[limit] \in Int
      BY <2>3, <3>1 DEF Capacity
    <3>4. QED
      BY <3>2, <3>3
  <2>6. InLine'
    BY <1>1, <2>1 DEF InLine, Enter
  <2>7. QED
    BY <2>4, <2>5, <2>6 DEF AdmitsWithinLimit
<1>2. ASSUME NEW c \in Calls, Join(c) PROVE AdmitsWithinLimit /\ InLine'
  <2>1. Counting' = Counting /\ Queued' = Queued \cup {c} /\ c \notin Queued
    BY <1>2 DEF GovernorInv, GovernorTypeOK, Join, Counting, Counted, Queued
  <2>2. \A d \in Calls : ahead'[d] = IF d = c THEN Queued ELSE ahead[d]
    BY <1>2 DEF GovernorInv, GovernorTypeOK, Join
  <2>3. InLine'
    <3>1. Queued' \subseteq Calls /\ \A d \in Queued' : d = c \/ d \in Queued
      BY <2>1 DEF Queued
    <3>2. /\ \A d \in Calls : ahead'[d] \subseteq Queued'
          /\ \A d \in Calls : d \notin ahead'[d]
      BY <2>1, <2>2 DEF InLine
    <3>3. \A d, e \in Queued' : d # e => d \in ahead'[e] \/ e \in ahead'[d]
      BY <2>1, <2>2, <3>1 DEF InLine
    <3>4. ASSUME NEW d \in Queued', NEW e \in Queued', NEW g \in Queued',
                 d \in ahead'[e], e \in ahead'[g]
          PROVE  d \in ahead'[g]
      <4>1. e # c
        BY <2>1, <2>2, <3>1, <3>4 DEF InLine
      <4>2. d \in Queued /\ d \in ahead[e] /\ e \in Queued
        BY <2>2, <3>1, <3>4, <4>1 DEF InLine
      <4>3. QED
        BY <2>2, <3>1, <3>4, <4>2 DEF InLine
    <3>5. QED
      BY <3>2, <3>3, <3>4 DEF InLine
  <2>4. QED
    BY <2>1, <2>3, NobodyEntered
<1>3. ASSUME NEW c \in Calls, Leave(c) PROVE AdmitsWithinLimit /\ InLine'
  <2>1. Counting' = Counting /\ Queued' = Queued \ {c} /\ Queued' \subseteq Calls
    BY <1>3 DEF GovernorInv, GovernorTypeOK, Leave, Counting, Counted, Queued
  <2>2. \A d \in Calls : ahead'[d] = IF d = c THEN {} ELSE ahead[d] \ {c}
    BY <1>3 DEF Leave
  <2>3. \A d \in Queued' : d # c /\ d \in Queued /\ ahead'[d] = ahead[d] \ {c}
    BY <2>1, <2>2
  <2>4. InLine'
    <3>1. ASSUME NEW d \in Calls
          PROVE  ahead'[d] \subseteq Queued' /\ d \notin ahead'[d]
      <4>1. ahead[d] \subseteq Queued /\ d \notin ahead[d]
        BY DEF InLine
      <4>2. ahead'[d] \subseteq ahead[d] \ {c}
        BY <2>2
      <4>3. QED
        BY <2>1, <4>1, <4>2
    <3>2. \A d, e \in Queued' : d # e => d \in ahead'[e] \/ e \in ahead'[d]
      BY <2>3 DEF InLine
    <3>3. \A d, e, g \in Queued' :
            d \in ahead'[e] /\ e \in ahead'[g] => d \in ahead'[g]
      BY <2>3 DEF InLine
    <3>4. QED
      BY <3>1, <3>2, <3>3 DEF InLine
  <2>5. QED
    BY <2>1, <2>4, NobodyEntered
<1>4. ASSUME NEW c \in Calls,
             Deliver(c) \/ Resume(c) \/ Send(c) \/ ReadLimit(c) \/ RaiseLimit(c)
      PROVE  AdmitsWithinLimit /\ InLine'
  <2>1. Counting' = Counting /\ Queued' = Queued /\ ahead' = ahead
    BY <1>4 DEF GovernorInv, GovernorTypeOK, Deliver, Resume, Send, ReadLimit, RaiseLimit,
                Counting, Counted, Queued
  <2>2. QED
    BY <2>1, NobodyEntered DEF InLine
<1>5. ASSUME NEW c \in Calls, Abandon(c) PROVE AdmitsWithinLimit /\ InLine'
  <2>1. \A d \in Calls : slot'[d] = IF d = c THEN IF slot[c] = "waiting" THEN "abandoned"
                                                   ELSE "refused"
                                    ELSE slot[d]
    BY <1>5 DEF GovernorInv, GovernorTypeOK, Abandon
  <2>2. Counting' = Counting /\ Queued' = Queued /\ ahead' = ahead
    BY <1>5, <2>1 DEF Abandon, Counting, Counted, Queued
  <2>3. QED
    BY <2>2, NobodyEntered DEF InLine
<1>6. ASSUME NEW c \in Calls, Refuse(c) \/ GiveBack(c)
      PROVE  AdmitsWithinLimit /\ InLine'
  <2>1. c \in Counting /\ limit \in 1..Ceiling
    BY <1>6 DEF GovernorInv, GovernorTypeOK, Refuse, GiveBack, Counting, Counted
  <2>2. QED
    BY <1>6, <2>1, WakeAdmits DEF Refuse, GiveBack
<1>7. ASSUME NEW c \in Calls, NEW outcome \in {"ok", "congested", "neutral"},
             ReleaseSlot(c, outcome)
      PROVE  AdmitsWithinLimit /\ InLine'
  <2>1. c \in Counting
    BY <1>7 DEF ReleaseSlot, Counting, Counted
  <2>2. PICK lim \in LimitAfter(outcome) : Wake([slot EXCEPT ![c] = "out"], lim)
    BY <1>7 DEF ReleaseSlot
  <2>3. lim \in 1..Ceiling
    BY LimitAfterType DEF GovernorInv
  <2>4. QED
    BY <2>1, <2>2, <2>3, WakeAdmits
<1>8. CASE RestartGovernor
  <2>1. Counting' = {} /\ Queued' = {}
    BY <1>8 DEF RestartGovernor, Counting, Counted, Queued
  <2>2. QED
    BY <1>8, <2>1, NobodyEntered DEF RestartGovernor, InLine
<1>9. QED
  BY <1>1, <1>2, <1>3, <1>4, <1>5, <1>6, <1>7, <1>8 DEF GovernorNext

LEMMA StutterAdmits ==
  InLine /\ UNCHANGED governor => AdmitsWithinLimit /\ InLine'
BY NobodyEntered DEF governor, InLine, Counting, Queued

LEMMA SpecInLine == GovernorSpec => []InLine
<1>1. GovernorInit => InLine
  BY DEF GovernorInit, InLine, Queued
<1>2. GovernorInv /\ InLine /\ [GovernorNext]_governor => InLine'
  BY NextAdmits, StutterAdmits
<1>3. QED
  BY <1>1, <1>2, GovernorSpecInv, PTL DEF GovernorSpec

-----------------------------------------------------------------------------
(* The theorems                                                            *)

(* The governor keeps its types: the limit stays within 1 and the ceiling, *)
(* whatever raises and halves it at once.                                  *)
THEOREM GovernorTypeCorrect == GovernorSpec => []GovernorTypeOK
BY GovernorSpecInv, PTL DEF GovernorInv

(* Every slot counted in flight is with a call or on its way to one.       *)
THEOREM SlotsAreAccounted == GovernorSpec => []SlotsAccounted
BY GovernorSpecInv, PTL DEF GovernorInv

(* No call waits while its lane has room, but for the moment in which the  *)
(* limit was raised by a call that is about to give back its slot.         *)
THEOREM RoomIsGiven == GovernorSpec => []NobodyWaitsForRoom
BY GovernorSpecInv, PTL DEF GovernorInv

(* A call is let in only within the limit in force, and a bulk call only   *)
(* within what its lane leaves to interactive ones.                        *)
THEOREM LimitKept == GovernorSpec => AdmittedWithinLimit
<1>1. GovernorInv /\ InLine /\ [GovernorNext]_governor => [AdmitsWithinLimit]_governor
  BY NextAdmits
<1>2. QED
  BY <1>1, GovernorSpecInv, SpecInLine, PTL DEF GovernorSpec, AdmittedWithinLimit

-----------------------------------------------------------------------------
HIDE GovernorAssumption
USE BudgetAssumption

-----------------------------------------------------------------------------
(* Sums of tokens                                                          *)

LEMMA AmountType == \A c \in Calls : Amount[c] \in Nat /\ Amount[c] \in Int /\ Amount[c] > 0
OBVIOUS

LEMMA OneCall ==
  ASSUME NEW c \in Calls
  PROVE  IsFiniteSet(TokensOf(c)) /\ Cardinality(TokensOf(c)) = Amount[c]
<1>1. IsFiniteSet({c}) /\ Cardinality({c}) = 1
  BY FS_Singleton
<1>2. PICK n \in Nat : n = Amount[c]
  BY AmountType
<1>3. IsFiniteSet(1..n) /\ Cardinality(1..n) = n
  BY FS_Interval
<1>4. PICK T : T = 1..n
  OBVIOUS
<1>5. /\ IsFiniteSet({c} \X T)
      /\ Cardinality({c} \X T) = Cardinality({c}) * Cardinality(T)
  BY <1>1, <1>3, <1>4, FS_Product
<1>6. Cardinality({c} \X T) = n
  BY <1>1, <1>3, <1>4, <1>5
<1>7. QED
  BY <1>2, <1>4, <1>5, <1>6 DEF TokensOf

LEMMA FiniteTokens ==
  ASSUME NEW S \in SUBSET Calls
  PROVE  IsFiniteSet(UNION {TokensOf(c) : c \in S}) /\ Tokens(S) \in Nat
<1> DEFINE f == [c \in S |-> TokensOf(c)]
           T == {TokensOf(c) : c \in S}
<1>1. IsFiniteSet(S)
  BY FS_Subset
<1>2. f \in Surjection(S, T)
  BY DEF Surjection
<1>3. IsFiniteSet(T)
  BY <1>1, <1>2, FS_Surjection
<1>4. \A t \in T : IsFiniteSet(t)
  BY OneCall
<1>5. IsFiniteSet(UNION T)
  BY <1>3, <1>4, FS_UNION
<1>6. QED
  BY <1>5, FS_CardinalityType DEF Tokens

LEMMA NoTokens == Tokens({}) = 0
<1>1. UNION {TokensOf(c) : c \in {}} = {}
  OBVIOUS
<1>2. QED
  BY <1>1, FS_EmptySet DEF Tokens

LEMMA MoreTokens ==
  ASSUME NEW S \in SUBSET Calls, NEW c \in Calls, c \notin S
  PROVE  Tokens(S \cup {c}) = Tokens(S) + Amount[c]
<1> DEFINE U == UNION {TokensOf(d) : d \in S}
<1>1. UNION {TokensOf(d) : d \in S \cup {c}} = U \cup TokensOf(c)
  OBVIOUS
<1>2. U \cap TokensOf(c) = {}
  BY DEF TokensOf
<1>3. IsFiniteSet(U) /\ Cardinality(U) \in Nat
  BY FiniteTokens, FS_CardinalityType
<1>4. Cardinality(U \cup TokensOf(c))
        = Cardinality(U) + Cardinality(TokensOf(c)) - Cardinality(U \cap TokensOf(c))
  BY <1>3, OneCall, FS_Union
<1>5. Cardinality(U \cap TokensOf(c)) = 0
  BY <1>2, FS_EmptySet
<1>6. Cardinality(U \cup TokensOf(c)) = Cardinality(U) + Amount[c]
  BY <1>3, <1>4, <1>5, OneCall
<1>7. QED
  BY <1>1, <1>6 DEF Tokens

LEMMA FewerTokens ==
  ASSUME NEW S \in SUBSET Calls, NEW c \in S
  PROVE  Tokens(S \ {c}) = Tokens(S) - Amount[c] /\ Tokens(S) >= Amount[c]
<1>1. (S \ {c}) \cup {c} = S
  OBVIOUS
<1>2. Tokens((S \ {c}) \cup {c}) = Tokens(S \ {c}) + Amount[c]
  BY MoreTokens
<1>3. Tokens(S) = Tokens(S \ {c}) + Amount[c]
  BY <1>1, <1>2
<1>4. Tokens(S \ {c}) \in Nat /\ Tokens(S) \in Nat /\ Amount[c] \in Nat
  BY FiniteTokens, AmountType
<1>5. QED
  BY <1>3, <1>4

-----------------------------------------------------------------------------
(* The inductive invariant                                                 *)

HeldByCalls == In(account, {"held"})
InBooks == In(account, {"held", "lapsed"})
Charged == In(charge, {"held"})

(* Nothing is counted before the epoch is opened; what the calls used is   *)
(* counted or was lost; what was late is among what the person used.       *)
Accounts ==
  /\ ~ opened => used = 0 /\ reserved = 0 /\ \A c \in Calls : account[c] = "none"
  /\ spent = used + uncounted
  /\ late <= personUsed

BudgetInv ==
  /\ BudgetTypeOK
  /\ Accounts
  /\ BudgetHolds
  /\ ReservedIsHeld
  /\ PersonCapHolds

LEMMA BudgetInitInv == BudgetInit => BudgetInv
<1> SUFFICES ASSUME BudgetInit PROVE BudgetInv
  OBVIOUS
<1>1. BudgetTypeOK
  BY DEF BudgetInit, BudgetTypeOK, Reservations
<1>2. Accounts
  BY DEF BudgetInit, Accounts
<1>3. In(account, {"held", "lapsed"}) = {} /\ In(charge, {"held"}) = {}
  BY DEF BudgetInit, In
<1>4. QED
  BY <1>1, <1>2, <1>3, NoTokens DEF BudgetInit, BudgetInv, BudgetHolds, ReservedIsHeld, PersonCapHolds

LEMMA Sums ==
  /\ Tokens(In(account, {"held"})) \in Nat
  /\ Tokens(In(account, {"held", "lapsed"})) \in Nat
  /\ Tokens(In(charge, {"held"})) \in Nat
BY FiniteTokens DEF In

-----------------------------------------------------------------------------
(* The workflow's steps                                                    *)

LEMMA OpenInv == BudgetInv /\ OpenEpoch => BudgetInv'
<1> SUFFICES ASSUME BudgetInv, OpenEpoch PROVE BudgetInv'
  OBVIOUS
<1>1. UNCHANGED <<used, reserved, account, spent, uncounted, personUsed, charge, late>>
  BY DEF BudgetInv, BudgetTypeOK, Accounts, OpenEpoch, person
<1>2. QED
  BY <1>1 DEF BudgetInv, BudgetTypeOK, Accounts, BudgetHolds, ReservedIsHeld, PersonCapHolds,
              In, OpenEpoch

LEMMA ReserveInv ==
  ASSUME BudgetInv, NEW c \in Calls, ReserveTokens(c)
  PROVE  BudgetInv'
<1>1. BudgetTypeOK'
  BY Sums DEF BudgetInv, BudgetTypeOK, ReserveTokens, person, Pruned, Reservations
<1>2. /\ In(account, {"held", "lapsed"})' = In(account, {"held"}) \cup {c}
      /\ c \notin In(account, {"held"})
  BY DEF BudgetInv, BudgetTypeOK, ReserveTokens, In, Pruned
<1>3. Tokens(In(account, {"held", "lapsed"}))'
        = Tokens(In(account, {"held"})) + Amount[c]
  <2>1. Tokens(In(account, {"held"}) \cup {c}) = Tokens(In(account, {"held"})) + Amount[c]
    BY <1>2, MoreTokens DEF In
  <2>2. QED
    BY <1>2, <2>1
<1>4. QED
  BY <1>1, <1>3, Sums
     DEF BudgetInv, BudgetTypeOK, Accounts, ReserveTokens, Fits, person, BudgetHolds, ReservedIsHeld,
         PersonCapHolds, In

(* A reservation of the book is taken out of it, or one that was removed   *)
(* ends.                                                                   *)
LEMMA EndsInBook ==
  ASSUME BudgetInv, NEW c \in Calls, InBook(c), account' = [account EXCEPT ![c] = "ended"]
  PROVE  /\ Tokens(In(account, {"held", "lapsed"}))'
              = Tokens(In(account, {"held", "lapsed"})) - Amount[c]
         /\ Tokens(In(account, {"held", "lapsed"})) >= Amount[c]
<1>1. In(account, {"held", "lapsed"})' = In(account, {"held", "lapsed"}) \ {c}
  BY DEF BudgetInv, BudgetTypeOK, In
<1>2. c \in In(account, {"held", "lapsed"})
  BY DEF In, InBook
<1>3. In(account, {"held", "lapsed"}) \in SUBSET Calls
  BY DEF In
<1>4. QED
  BY <1>1, <1>2, <1>3, FewerTokens

LEMMA EndsOutside ==
  ASSUME BudgetInv, NEW c \in Calls, ~ InBook(c), account' = [account EXCEPT ![c] = "ended"]
  PROVE  In(account, {"held", "lapsed"})' = In(account, {"held", "lapsed"})
BY DEF BudgetInv, BudgetTypeOK, In, InBook

LEMMA SettleInv ==
  ASSUME BudgetInv, NEW c \in Calls, NEW tokens \in 0..Amount[c], SettleTokens(c, tokens)
  PROVE  BudgetInv'
<1>1. BudgetTypeOK'
  BY DEF BudgetInv, BudgetTypeOK, SettleTokens, Unreserved, person, Reservations
<1>2. PersonCapHolds'
  BY DEF BudgetInv, SettleTokens, person, PersonCapHolds, In
<1>3. Accounts'
  BY DEF BudgetInv, BudgetTypeOK, Accounts, SettleTokens, person
<1>4. BudgetHolds' /\ ReservedIsHeld'
  <2>1. CASE InBook(c)
    <3>1. PICK t \in Nat : t = Tokens(In(account, {"held", "lapsed"}))
      BY Sums
    <3>2. /\ Tokens(In(account, {"held", "lapsed"}))' = t - Amount[c]
          /\ t >= Amount[c] /\ Amount[c] \in Nat /\ reserved = t
      BY <2>1, <3>1, EndsInBook, AmountType DEF BudgetInv, ReservedIsHeld, SettleTokens
    <3>3. reserved' = t - Amount[c] /\ uncounted' = uncounted
      BY <2>1, <3>2 DEF SettleTokens, Unreserved
    <3>4. spent' = spent + tokens /\ tokens <= Amount[c] /\ tokens \in Nat
      BY <3>2 DEF SettleTokens
    <3>5. spent \in Nat /\ uncounted \in Nat /\ spent + t <= Limit + uncounted
      BY <3>1 DEF BudgetInv, BudgetTypeOK, BudgetHolds
    <3>6. QED
      BY <3>2, <3>3, <3>4, <3>5 DEF BudgetHolds, ReservedIsHeld
  <2>2. CASE ~ InBook(c)
    <3>1. Tokens(In(account, {"held", "lapsed"}))' = Tokens(In(account, {"held", "lapsed"}))
      BY <2>2, EndsOutside DEF SettleTokens
    <3>2. reserved' = reserved
      BY <2>2 DEF SettleTokens
    <3>3. /\ spent' = spent + tokens /\ uncounted' = uncounted + tokens
          /\ tokens \in Nat
      BY <2>2, AmountType DEF SettleTokens
    <3>4. QED
      BY <3>1, <3>2, <3>3, Sums DEF BudgetInv, BudgetTypeOK, BudgetHolds, ReservedIsHeld
  <2>3. QED
    BY <2>1, <2>2
<1>5. QED
  BY <1>1, <1>2, <1>3, <1>4 DEF BudgetInv

LEMMA ReleaseTokensInv ==
  ASSUME BudgetInv, NEW c \in Calls, ReleaseTokens(c)
  PROVE  BudgetInv'
<1>1. BudgetTypeOK'
  BY DEF BudgetInv, BudgetTypeOK, ReleaseTokens, Unreserved, person, Reservations
<1>2. PersonCapHolds'
  BY DEF BudgetInv, ReleaseTokens, person, PersonCapHolds, In
<1>3. Accounts'
  BY DEF BudgetInv, BudgetTypeOK, Accounts, ReleaseTokens, person
<1>4. BudgetHolds' /\ ReservedIsHeld'
  <2>1. CASE InBook(c)
    <3>1. PICK t \in Nat : t = Tokens(In(account, {"held", "lapsed"}))
      BY Sums
    <3>2. /\ Tokens(In(account, {"held", "lapsed"}))' = t - Amount[c]
          /\ t >= Amount[c] /\ Amount[c] \in Nat /\ reserved = t
      BY <2>1, <3>1, EndsInBook, AmountType DEF BudgetInv, ReservedIsHeld, ReleaseTokens
    <3>3. reserved' = t - Amount[c] /\ uncounted' = uncounted
      BY <2>1, <3>2 DEF ReleaseTokens, Unreserved
    <3>4. spent' = spent
      BY <3>2 DEF ReleaseTokens
    <3>5. spent \in Nat /\ uncounted \in Nat /\ spent + t <= Limit + uncounted
      BY <3>1 DEF BudgetInv, BudgetTypeOK, BudgetHolds
    <3>6. QED
      BY <3>2, <3>3, <3>4, <3>5 DEF BudgetHolds, ReservedIsHeld
  <2>2. CASE ~ InBook(c)
    <3>1. Tokens(In(account, {"held", "lapsed"}))' = Tokens(In(account, {"held", "lapsed"}))
      BY <2>2, EndsOutside DEF ReleaseTokens
    <3>2. reserved' = reserved
      BY <2>2 DEF ReleaseTokens
    <3>3. /\ spent' = spent /\ uncounted' = uncounted
      BY <2>2, AmountType DEF ReleaseTokens
    <3>4. QED
      BY <3>1, <3>2, <3>3, Sums DEF BudgetInv, BudgetTypeOK, BudgetHolds, ReservedIsHeld
  <2>3. QED
    BY <2>1, <2>2
<1>5. QED
  BY <1>1, <1>2, <1>3, <1>4 DEF BudgetInv

LEMMA LapseInv ==
  ASSUME BudgetInv, NEW c \in Calls, LapseTokens(c)
  PROVE  BudgetInv'
<1>1. BudgetTypeOK'
  BY DEF BudgetInv, BudgetTypeOK, LapseTokens, person, Reservations
<1>2. In(account, {"held", "lapsed"})' = In(account, {"held", "lapsed"})
  BY DEF BudgetInv, BudgetTypeOK, LapseTokens, In
<1>3. QED
  BY <1>1, <1>2
     DEF BudgetInv, BudgetTypeOK, Accounts, LapseTokens, person, BudgetHolds, ReservedIsHeld,
         PersonCapHolds, In

-----------------------------------------------------------------------------
(* The person's steps                                                      *)

(* They leave the workflow's part of the invariant alone.                  *)
LEMMA PersonStep ==
  ASSUME BudgetInv, UNCHANGED workflow, BudgetTypeOK', PersonCapHolds', late' <= personUsed'
  PROVE  BudgetInv'
BY DEF BudgetInv, workflow, Accounts, BudgetHolds, ReservedIsHeld, In

LEMMA PersonReserveInv ==
  ASSUME BudgetInv, NEW c \in Calls, PersonReserve(c)
  PROVE  BudgetInv'
<1>1. BudgetTypeOK'
  BY DEF BudgetInv, BudgetTypeOK, PersonReserve, workflow, Pruned, Reservations
<1>2. /\ In(charge, {"held"})' = In(charge, {"held"}) \cup {c}
      /\ c \notin In(charge, {"held"})
  BY DEF BudgetInv, BudgetTypeOK, PersonReserve, In, Pruned
<1>3. Tokens(In(charge, {"held"}))' = Tokens(In(charge, {"held"})) + Amount[c]
  <2>1. Tokens(In(charge, {"held"}) \cup {c}) = Tokens(In(charge, {"held"})) + Amount[c]
    BY <1>2, MoreTokens DEF In
  <2>2. QED
    BY <1>2, <2>1
<1>4. PersonCapHolds' /\ late' <= personUsed'
  BY <1>3, Sums DEF BudgetInv, BudgetTypeOK, Accounts, PersonReserve, PersonFits, PersonCapHolds
<1>5. QED
  BY <1>1, <1>4, PersonStep DEF PersonReserve

(* A charge that ends or lapses counts no longer.                          *)
LEMMA ChargeEnds ==
  ASSUME BudgetInv, NEW c \in Calls, NEW state, state # "held",
         charge' = [charge EXCEPT ![c] = state]
  PROVE  Tokens(In(charge, {"held"}))'
           = IF charge[c] = "held" THEN Tokens(In(charge, {"held"})) - Amount[c]
             ELSE Tokens(In(charge, {"held"}))
<1>1. CASE charge[c] = "held"
  <2>1. In(charge, {"held"})' = In(charge, {"held"}) \ {c}
    BY DEF BudgetInv, BudgetTypeOK, In
  <2>2. c \in In(charge, {"held"}) /\ In(charge, {"held"}) \in SUBSET Calls
    BY <1>1 DEF In
  <2>3. QED
    BY <1>1, <2>1, <2>2, FewerTokens
<1>2. CASE charge[c] # "held"
  <2>1. In(charge, {"held"})' = In(charge, {"held"})
    BY <1>2 DEF BudgetInv, BudgetTypeOK, In
  <2>2. QED
    BY <1>2, <2>1
<1>3. QED
  BY <1>1, <1>2

LEMMA PersonEndInv ==
  ASSUME BudgetInv, NEW c \in Calls,
         \/ PersonRelease(c) \/ PersonLapse(c)
         \/ \E tokens \in 0..Amount[c] : PersonSettle(c, tokens)
  PROVE  BudgetInv'
<1>1. BudgetTypeOK'
  BY DEF BudgetInv, BudgetTypeOK, PersonRelease, PersonLapse, PersonSettle, workflow, Reservations
<1>2. PersonCapHolds' /\ late' <= personUsed'
  <2>1. CASE PersonRelease(c) \/ PersonLapse(c)
    <3>1. Tokens(In(charge, {"held"}))' <= Tokens(In(charge, {"held"}))
          /\ Tokens(In(charge, {"held"}))' \in Int
      <4>1. Tokens(In(charge, {"held"}))'
              = IF charge[c] = "held" THEN Tokens(In(charge, {"held"})) - Amount[c]
                ELSE Tokens(In(charge, {"held"}))
        BY <2>1, ChargeEnds DEF PersonRelease, PersonLapse
      <4>2. QED
        BY <4>1, Sums, AmountType
    <3>2. QED
      BY <2>1, <3>1, Sums
         DEF BudgetInv, BudgetTypeOK, Accounts, PersonRelease, PersonLapse, PersonCapHolds
  <2>2. ASSUME NEW tokens \in 0..Amount[c], PersonSettle(c, tokens)
        PROVE  PersonCapHolds' /\ late' <= personUsed'
    <3>1. Tokens(In(charge, {"held"}))'
            = IF charge[c] = "held" THEN Tokens(In(charge, {"held"})) - Amount[c]
              ELSE Tokens(In(charge, {"held"}))
      BY <2>2, ChargeEnds DEF PersonSettle
    <3>2. QED
      BY <2>2, <3>1, Sums DEF BudgetInv, BudgetTypeOK, Accounts, PersonSettle, PersonCapHolds
  <2>3. QED
    BY <2>1, <2>2
<1>3. QED
  BY <1>1, <1>2, PersonStep DEF PersonRelease, PersonLapse, PersonSettle

LEMMA NewPeriodInv == BudgetInv /\ NewPeriod => BudgetInv'
<1> SUFFICES ASSUME BudgetInv, NewPeriod PROVE BudgetInv'
  OBVIOUS
<1>1. BudgetTypeOK'
  BY DEF BudgetInv, BudgetTypeOK, NewPeriod, workflow
<1>2. PersonCapHolds' /\ late' <= personUsed'
  BY Sums DEF BudgetInv, BudgetTypeOK, Accounts, NewPeriod, PersonCapHolds, In
<1>3. QED
  BY <1>1, <1>2, PersonStep DEF NewPeriod

LEMMA BudgetNextInv == BudgetInv /\ [BudgetNext]_budget => BudgetInv'
<1> SUFFICES ASSUME BudgetInv, [BudgetNext]_budget PROVE BudgetInv'
  OBVIOUS
<1>1. CASE BudgetNext
  BY <1>1, OpenInv, ReserveInv, SettleInv, ReleaseTokensInv, LapseInv,
     PersonReserveInv, PersonEndInv, NewPeriodInv DEF BudgetNext
<1>2. CASE UNCHANGED budget
  BY <1>2 DEF budget, workflow, person, BudgetInv, BudgetTypeOK, Accounts, BudgetHolds,
              ReservedIsHeld, PersonCapHolds, In
<1>3. QED
  BY <1>1, <1>2

LEMMA BudgetSpecInv == BudgetSpec => []BudgetInv
BY BudgetInitInv, BudgetNextInv, PTL DEF BudgetSpec

-----------------------------------------------------------------------------
(* The theorems                                                            *)

(* The budgets keep their types.                                           *)
THEOREM BudgetTypeCorrect == BudgetSpec => []BudgetTypeOK
BY BudgetSpecInv, PTL DEF BudgetInv

(* However calls reserve, settle, release and lapse at once, an epoch uses *)
(* no more than its limit, but for calls whose reservation was removed     *)
(* while they ran.                                                         *)
THEOREM EpochLimitKept == BudgetSpec => []BudgetHolds
BY BudgetSpecInv, PTL DEF BudgetInv

(* The reserved tokens on record are those of the reservations on record.  *)
THEOREM ReservedAgrees == BudgetSpec => []ReservedIsHeld
BY BudgetSpecInv, PTL DEF BudgetInv

(* A person's cap is overshot by no more than calls whose charge had       *)
(* lapsed when they ended, also across days.                               *)
THEOREM CapIsKept == BudgetSpec => []PersonCapHolds
BY BudgetSpecInv, PTL DEF BudgetInv

(* Both accounts agree with what their calls reserved and used, and keep   *)
(* their limits.                                                           *)
THEOREM AccountsAreKept == BudgetSpec => []AccountsHold
<1>1. BudgetInv => AccountsHold
  BY DEF BudgetInv, AccountsHold
<1>2. QED
  BY <1>1, BudgetSpecInv, PTL

-----------------------------------------------------------------------------
USE ModelCallsAssumption

-----------------------------------------------------------------------------
(* The calls keep to the governor and the budgets                          *)

LEMMA CallsStep ==
  ASSUME NEW c \in Calls,
         \/ Progress(c)
         \/ CancelWaiting(c) \/ CancelAdmitted(c) \/ CancelPause(c)
         \/ Lapse(c)
  PROVE  /\ GovernorNext \/ UNCHANGED governor
         /\ BudgetNext \/ UNCHANGED budget
<1>1. CASE Look(c)
  BY <1>1 DEF Look
<1>2. CASE Open(c)
  BY <1>2 DEF Open, BudgetNext
<1>3. CASE Reserve(c)
  BY <1>3 DEF Reserve, BudgetNext
<1>4. CASE Charge(c)
  BY <1>4 DEF Charge, BudgetNext
<1>5. CASE Admit(c)
  BY <1>5 DEF Admit, GovernorNext
<1>6. CASE Arrive(c)
  BY <1>6 DEF Arrive, GovernorNext
<1>7. CASE Raise(c)
  BY <1>7 DEF Raise, GovernorNext
<1>8. CASE Answered(c)
  BY <1>8 DEF Answered, GovernorNext
<1>9. CASE RateLimited(c)
  BY <1>9 DEF RateLimited, GovernorNext
<1>10. CASE Again(c)
  BY <1>10 DEF Again
<1>11. CASE Failed(c)
  BY <1>11 DEF Failed, GovernorNext
<1>12. CASE Unwind(c)
  BY <1>12 DEF Unwind, GovernorNext
<1>13. CASE Settle(c)
  <2>1. PICK tokens \in 0..Amount[c] : SettleTokens(c, tokens)
    BY <1>13 DEF Settle
  <2>2. QED
    BY <1>13, <2>1 DEF Settle, BudgetNext
<1>14. CASE Bill(c)
  <2>1. PICK tokens \in 0..Amount[c] : PersonSettle(c, tokens)
    BY <1>14 DEF Bill
  <2>2. QED
    BY <1>14, <2>1 DEF Bill, BudgetNext
<1>15. CASE Release(c)
  BY <1>15 DEF Release, BudgetNext
<1>16. CASE Refund(c)
  BY <1>16 DEF Refund, BudgetNext
<1>17. CASE CancelWaiting(c)
  BY <1>17 DEF CancelWaiting, GovernorNext
<1>18. CASE CancelAdmitted(c)
  BY <1>18 DEF CancelAdmitted, GovernorNext
<1>19. CASE CancelPause(c)
  BY <1>19 DEF CancelPause
<1>20. CASE Lapse(c)
  BY <1>20 DEF Lapse, BudgetNext
<1>21. QED
  BY <1>1, <1>2, <1>3, <1>4, <1>5, <1>6, <1>7, <1>8, <1>9, <1>10, <1>11, <1>12,
     <1>13, <1>14, <1>15, <1>16, <1>17, <1>18, <1>19, <1>20 DEF Progress

LEMMA StepMaps ==
  [Next]_vars => [GovernorNext]_governor /\ [BudgetNext]_budget
<1>1. CASE NewDay
  BY <1>1 DEF NewDay, BudgetNext
<1>2. CASE Crash
  BY <1>2 DEF Crash, GovernorNext
<1>3. CASE UNCHANGED vars
  BY <1>3 DEF vars
<1>4. QED
  BY <1>1, <1>2, <1>3, CallsStep DEF Next

(* Calls use the governor as its module lets any caller use it.            *)
THEOREM PacedByTheGovernor == Spec => PacedByGovernor
<1>1. Init => GovernorInit
  BY DEF Init
<1>2. QED
  BY <1>1, StepMaps, PTL DEF Spec, PacedByGovernor, GovernorSpec

(* And the budgets.                                                        *)
THEOREM BudgetsAreKept == Spec => KeepsBudgets
<1>1. Init => BudgetInit
  BY DEF Init
<1>2. QED
  BY <1>1, StepMaps, PTL DEF Spec, KeepsBudgets, BudgetSpec

(* So the slots of the calls are accounted for, handed out within the      *)
(* limit, and to whoever waits.                                            *)
THEOREM CallsArePaced ==
  Spec => []SlotsAccounted /\ []NobodyWaitsForRoom /\ AdmittedWithinLimit
BY PacedByTheGovernor, SlotsAreAccounted, RoomIsGiven, LimitKept, PTL
   DEF PacedByGovernor

(* And the calls stay within the limits of their workflow and person.      *)
THEOREM CallsStayWithin ==
  Spec => []AccountsHold
BY BudgetsAreKept, AccountsAreKept, PTL
   DEF KeepsBudgets
-----------------------------------------------------------------------------
(* What a call holds at each stage                                         *)

(* The types of the calls: those of the governor and the budgets are kept  *)
(* by the refinements.                                                     *)
CallTypes ==
  /\ stage \in [Calls -> Stages]
  /\ attempts \in [Calls -> 0..MaxRetries]
  /\ troubles \in 0..MaxTroubles

LEMMA StageNames ==
  Stages = {"new", "opening", "reserving", "charging", "calling", "pausing", "cancelled",
            "settling", "billing", "releasing", "refunding", "refused", "done", "failed", "dead"}
BY DEF Stages, Preparing, Calling, Settling, Undoing, Over

LEMMA CallTypesStep ==
  ASSUME CallTypes, [Next]_vars
  PROVE  CallTypes'
<1>1. ASSUME NEW c \in Calls, Progress(c)
      PROVE  CallTypes'
  <2> USE StageNames
  <2>1. CASE Look(c) \/ Open(c)
    BY <2>1 DEF CallTypes, Look, Open, Goes
  <2>2. CASE Reserve(c) \/ Charge(c)
    BY <2>2 DEF CallTypes, Reserve, Charge, Goes
  <2>3. CASE Admit(c) \/ Arrive(c) \/ Raise(c)
    BY <2>3 DEF CallTypes, Admit, Arrive, Raise
  <2>4. CASE Answered(c) \/ Again(c) \/ Failed(c) \/ Unwind(c)
    BY <2>4 DEF CallTypes, Answered, Again, Failed, Unwind, Goes
  <2>5. CASE RateLimited(c)
    <3>1. stage' \in [Calls -> Stages] /\ troubles' \in 0..MaxTroubles
      BY <2>5 DEF CallTypes, RateLimited, Goes, Trouble
    <3>2. attempts' \in [Calls -> 0..MaxRetries]
      BY <2>5 DEF CallTypes, RateLimited, Goes
    <3>3. QED
      BY <3>1, <3>2 DEF CallTypes
  <2>6. CASE Settle(c) \/ Bill(c) \/ Release(c) \/ Refund(c)
    BY <2>6 DEF CallTypes, Settle, Bill, Release, Refund, Goes
  <2>7. QED
    BY <1>1, <2>1, <2>2, <2>3, <2>4, <2>5, <2>6 DEF Progress
<1>2. ASSUME NEW c \in Calls, CancelWaiting(c) \/ CancelAdmitted(c) \/ CancelPause(c)
      PROVE  CallTypes'
  BY <1>2, StageNames DEF CallTypes, CancelWaiting, CancelAdmitted, CancelPause, Goes
<1>3. ASSUME NEW c \in Calls, Lapse(c)
      PROVE  CallTypes'
  BY <1>3 DEF CallTypes, Lapse, Trouble
<1>4. CASE NewDay
  BY <1>4 DEF CallTypes, NewDay, Trouble
<1>5. CASE Crash
  BY <1>5, StageNames DEF CallTypes, Crash, Trouble
<1>6. CASE UNCHANGED vars
  BY <1>6 DEF CallTypes, vars
<1>7. QED
  BY <1>1, <1>2, <1>3, <1>4, <1>5, <1>6 DEF Next

(* Where the slot of a call may be at each stage, and its reservations.    *)
SlotAtStage(c) ==
  /\ stage[c] \in {"new", "pausing"} \cup Preparing \cup Settling => slot[c] = "out"
  /\ stage[c] = "calling" => slot[c] \notin {"abandoned", "refused"}
  /\ stage[c] = "cancelled" => slot[c] \in {"abandoned", "refused", "out"}
  /\ stage[c] \in Undoing \cup Over => slot[c] \in {"out", "refused"}

TokensAtStage(c) ==
  /\ stage[c] \in {"new", "opening", "reserving"} => account[c] = "none"
  /\ stage[c] \in {"new"} \cup Preparing => charge[c] = "none"
  /\ stage[c] = "refused" => account[c] \in {"none", "ended"} /\ charge[c] = "none"
  /\ stage[c] \in {"billing", "refunding", "done", "failed"} => account[c] = "ended"
  /\ stage[c] \in {"done", "failed"} => charge[c] = "ended"

HeldAtStage == \A c \in Calls : SlotAtStage(c) /\ TokensAtStage(c)

LEMMA HeldSuffices == HeldAtStage => NothingIsLeft
BY DEF HeldAtStage, SlotAtStage, TokensAtStage, NothingIsLeft, Preparing, Settling, Undoing, Over

(* A step of one call hands slots on to waiters and prunes what lapsed;    *)
(* otherwise it leaves the others alone.                                   *)
Handed(d) ==
  \/ slot'[d] = slot[d]
  \/ slot[d] = "waiting" /\ slot'[d] = "handed"
  \/ slot[d] = "abandoned" /\ slot'[d] = "refused"
Dropped(d) ==
  /\ \/ account'[d] = account[d]
     \/ account[d] \in {"held", "lapsed"} /\ account'[d] \in {"lapsed", "pruned"}
  /\ \/ charge'[d] = charge[d]
     \/ charge[d] \in {"held", "lapsed"} /\ charge'[d] \in {"lapsed", "pruned"}

LEMMA OtherCalls ==
  ASSUME NEW d \in Calls, SlotAtStage(d), TokensAtStage(d),
         stage'[d] = stage[d], Handed(d), Dropped(d)
  PROVE  SlotAtStage(d)' /\ TokensAtStage(d)'
<1>1. SlotAtStage(d)'
  BY DEF SlotAtStage, Handed, Preparing, Settling, Undoing, Over
<1>2. TokensAtStage(d)'
  BY DEF TokensAtStage, Dropped, Preparing
<1>3. QED
  BY <1>1, <1>2

LEMMA WakeHands ==
  ASSUME GovernorTypeOK, NEW c \in Calls, slot[c] \notin {"waiting", "abandoned"},
         NEW lim, Wake([slot EXCEPT ![c] = "out"], lim)
  PROVE  slot'[c] = "out" /\ \A d \in Calls \ {c} : Handed(d)
BY DEF GovernorTypeOK, Wake, Queued, Receiving, Handed


LEMMA StaysAtStage ==
  ASSUME NEW d \in Calls, stage'[d] = stage[d], slot'[d] = slot[d], UNCHANGED budget,
         SlotAtStage(d), TokensAtStage(d)
  PROVE  SlotAtStage(d)' /\ TokensAtStage(d)'
BY OtherCalls DEF Handed, Dropped, budget, workflow, person

LEMMA GovernorMoves ==
  ASSUME GovernorTypeOK, CallTypes, HeldAtStage, NEW c \in Calls,
         \/ Admit(c) \/ Arrive(c) \/ Raise(c) \/ Answered(c) \/ RateLimited(c) \/ Failed(c)
         \/ Unwind(c) \/ CancelWaiting(c) \/ CancelAdmitted(c)
  PROVE  HeldAtStage'
<1> USE DEF GovernorTypeOK, CallTypes
<1>1. UNCHANGED budget
  BY DEF Admit, Arrive, Raise, Answered, RateLimited, Failed, Unwind, CancelWaiting, CancelAdmitted
<1>2. \A d \in Calls \ {c} : stage'[d] = stage[d]
  BY DEF Admit, Arrive, Raise, Answered, RateLimited, Failed, Unwind, CancelWaiting,
         CancelAdmitted, Goes
<1>3. (\A d \in Calls \ {c} : Handed(d)) /\ SlotAtStage(c)'
  <2> USE DEF SlotAtStage, Preparing, Settling, Undoing, Over
  <2>0. SlotAtStage(c)
    BY DEF HeldAtStage
  <2>1. CASE Admit(c)
    BY <2>0, <2>1 DEF Admit, Enter, Join, Resume, Send, Handed
  <2>2. CASE Deliver(c) /\ UNCHANGED stage
    BY <2>0, <2>2 DEF Deliver, Handed
  <2>3. CASE Refuse(c) /\ UNCHANGED stage
    <3>1. Wake([slot EXCEPT ![c] = "out"], limit) /\ slot[c] \notin {"waiting", "abandoned"}
      BY <2>3 DEF Refuse
    <3>2. slot'[c] = "out" /\ \A d \in Calls \ {c} : Handed(d)
      BY <3>1, WakeHands
    <3>3. QED
      BY <2>0, <2>3, <3>2 DEF Refuse
  <2>4. CASE Raise(c)
    BY <2>0, <2>4 DEF Raise, ReadLimit, RaiseLimit, Handed
  <2>5. ASSUME NEW outcome, ReleaseSlot(c, outcome),
               stage'[c] \in {"settling", "pausing", "releasing"}
        PROVE  (\A d \in Calls \ {c} : Handed(d)) /\ SlotAtStage(c)'
    <3>1. PICK lim : Wake([slot EXCEPT ![c] = "out"], lim)
      BY <2>5 DEF ReleaseSlot
    <3>2. slot[c] \notin {"waiting", "abandoned"}
      BY <2>5 DEF ReleaseSlot
    <3>3. slot'[c] = "out" /\ \A d \in Calls \ {c} : Handed(d)
      BY <3>1, <3>2, WakeHands
    <3>4. QED
      BY <2>5, <3>3
  <2>6. CASE Answered(c) \/ RateLimited(c) \/ Failed(c)
    <3>1. stage'[c] \in {"settling", "pausing", "releasing"}
      BY <2>6 DEF Answered, RateLimited, Failed, Goes
    <3>2. QED
      BY <2>5, <2>6, <3>1 DEF Answered, RateLimited, Failed
  <2>7. CASE Unwind(c)
    BY <2>0, <2>7 DEF Unwind, Goes, Leave, governor, Handed
  <2>8. CASE CancelWaiting(c)
    BY <2>0, <2>8 DEF CancelWaiting, Goes, Abandon, Handed
  <2>9. CASE CancelAdmitted(c)
    <3>1. Wake([slot EXCEPT ![c] = "out"], limit) /\ slot[c] \notin {"waiting", "abandoned"}
      BY <2>9 DEF CancelAdmitted, GiveBack
    <3>2. slot'[c] = "out" /\ \A d \in Calls \ {c} : Handed(d)
      BY <3>1, WakeHands
    <3>3. QED
      BY <2>9, <3>2 DEF CancelAdmitted, Goes
  <2>10. QED
    BY <2>1, <2>2, <2>3, <2>4, <2>6, <2>7, <2>8, <2>9 DEF Arrive
<1>4. TokensAtStage(c)'
  BY <1>1 DEF Admit, Arrive, Raise, Answered, RateLimited, Failed, Unwind, CancelWaiting,
     CancelAdmitted, Goes, HeldAtStage, TokensAtStage, Preparing, budget, workflow, person
<1>5. \A d \in Calls : Dropped(d)
  BY <1>1 DEF Dropped, budget, workflow, person
<1>6. \A d \in Calls \ {c} : SlotAtStage(d)' /\ TokensAtStage(d)'
  BY <1>2, <1>3, <1>5, OtherCalls DEF HeldAtStage
<1>7. QED
  BY <1>3, <1>4, <1>6 DEF HeldAtStage

LEMMA BudgetMoves ==
  ASSUME BudgetTypeOK, CallTypes, HeldAtStage, NEW c \in Calls,
         \/ Look(c) \/ Open(c) \/ Reserve(c) \/ Charge(c) \/ Again(c) \/ CancelPause(c)
         \/ Settle(c) \/ Bill(c) \/ Release(c) \/ Refund(c) \/ Lapse(c)
  PROVE  HeldAtStage'
<1> USE DEF BudgetTypeOK, CallTypes
<1>1. UNCHANGED governor
  BY DEF Look, Open, Reserve, Charge, Again, CancelPause, Settle, Bill, Release, Refund, Lapse
<1>2. \A d \in Calls \ {c} : stage'[d] = stage[d]
  BY DEF Look, Open, Reserve, Charge, Again, CancelPause, Settle, Bill, Release, Refund, Lapse, Goes
<1>3. SlotAtStage(c)'
  BY <1>1 DEF Look, Open, Reserve, Charge, Again, CancelPause, Settle, Bill, Release, Refund, Lapse,
     Goes, HeldAtStage, SlotAtStage, Preparing, Settling, Undoing, Over, governor
<1>4. (\A d \in Calls \ {c} : Dropped(d)) /\ TokensAtStage(c)'
  <2> USE DEF TokensAtStage, Preparing, Dropped
  <2>0. TokensAtStage(c)
    BY DEF HeldAtStage
  <2>1. CASE Look(c) \/ Again(c) \/ CancelPause(c)
    BY <2>0, <2>1 DEF Look, Again, CancelPause, Goes, budget, workflow, person
  <2>2. CASE Open(c)
    BY <2>0, <2>2 DEF Open, OpenEpoch, Goes, person
  <2>3. CASE Reserve(c)
    BY <2>0, <2>3 DEF Reserve, ReserveTokens, Pruned, Goes, budget, workflow, person
  <2>4. CASE Charge(c)
    BY <2>0, <2>4 DEF Charge, PersonReserve, Pruned, Goes, budget, workflow, person
  <2>5. CASE Settle(c)
    BY <2>0, <2>5 DEF Settle, SettleTokens, Goes, person
  <2>6. CASE Bill(c)
    BY <2>0, <2>6 DEF Bill, PersonSettle, Goes, workflow
  <2>7. CASE Release(c)
    BY <2>0, <2>7 DEF Release, ReleaseTokens, Goes, person
  <2>8. CASE Refund(c)
    BY <2>0, <2>8 DEF Refund, PersonRelease, Goes, workflow
  <2>9. CASE Lapse(c)
    BY <2>0, <2>9 DEF Lapse, LapseTokens, PersonLapse, workflow, person
  <2>10. QED
    BY <2>1, <2>2, <2>3, <2>4, <2>5, <2>6, <2>7, <2>8, <2>9
<1>5. \A d \in Calls : Handed(d)
  BY <1>1 DEF Handed, governor
<1>6. \A d \in Calls \ {c} : SlotAtStage(d)' /\ TokensAtStage(d)'
  BY <1>2, <1>4, <1>5, OtherCalls DEF HeldAtStage
<1>7. QED
  BY <1>3, <1>4, <1>6 DEF HeldAtStage

LEMMA HeldStep ==
  ASSUME GovernorTypeOK, BudgetTypeOK, CallTypes, HeldAtStage, [Next]_vars
  PROVE  HeldAtStage'
<1>1. CASE NewDay
  <2>1. \A d \in Calls : stage'[d] = stage[d] /\ Handed(d) /\ Dropped(d)
    BY <1>1 DEF NewDay, NewPeriod, governor, workflow, Handed, Dropped
  <2>2. QED
    BY <2>1, OtherCalls DEF HeldAtStage
<1>2. CASE Crash
  <2>1. ASSUME NEW c \in Calls
        PROVE  SlotAtStage(c)' /\ TokensAtStage(c)'
    <3>1. slot'[c] = "out" /\ UNCHANGED budget
      BY <1>2 DEF Crash, RestartGovernor
    <3>2. stage'[c] = "dead" \/ (stage'[c] = stage[c] /\ stage[c] \in {"new"} \cup Over)
      BY <1>2 DEF Crash
    <3>3. SlotAtStage(c)'
      BY <3>1, <3>2 DEF SlotAtStage, Preparing, Settling, Undoing, Over
    <3>4. TokensAtStage(c)'
      BY <3>1, <3>2 DEF HeldAtStage, TokensAtStage, Preparing, budget, workflow, person
    <3>5. QED
      BY <3>3, <3>4
  <2>2. QED
    BY <2>1 DEF HeldAtStage
<1>3. CASE UNCHANGED vars
  BY <1>3, StaysAtStage DEF HeldAtStage, vars, governor
<1>4. QED
  BY <1>1, <1>2, <1>3, GovernorMoves, BudgetMoves DEF Next, Progress

(* Types, of the calls as of the slots and the reservations they use.      *)
THEOREM CallsTypeCorrect == Spec => []TypeOK
<1>1. Init => CallTypes
  BY StageNames DEF Init, CallTypes
<1>2. CallTypes /\ [Next]_vars => CallTypes'
  BY CallTypesStep
<1>3. Spec => []GovernorTypeOK /\ []BudgetTypeOK
  BY PacedByTheGovernor, BudgetsAreKept, GovernorTypeCorrect, BudgetTypeCorrect, PTL
     DEF PacedByGovernor, KeepsBudgets
<1>4. GovernorTypeOK /\ BudgetTypeOK /\ CallTypes => TypeOK
  BY DEF TypeOK, CallTypes
<1>5. QED
  BY <1>1, <1>2, <1>3, <1>4, PTL DEF Spec

(* However a call ends, answered, refused, cancelled at any await or with  *)
(* its process, it leaves no slot, no place in the queue and no tokens     *)
(* behind, except what the reservations of a dead process hold until they  *)
(* lapse.                                                                  *)
THEOREM NothingStaysBehind == Spec => []NothingIsLeft
<1>1. Init => HeldAtStage
  BY DEF Init, GovernorInit, BudgetInit, HeldAtStage, SlotAtStage, TokensAtStage, Preparing,
         Settling, Undoing, Over
<1>2. TypeOK /\ HeldAtStage /\ [Next]_vars => HeldAtStage'
  BY HeldStep DEF TypeOK, CallTypes
<1>3. QED
  BY <1>1, <1>2, CallsTypeCorrect, HeldSuffices, PTL DEF Spec
=============================================================================
