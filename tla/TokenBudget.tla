----------------------------- MODULE TokenBudget -----------------------------
(***************************************************************************)
(* The tokens of one epoch of a workflow and of one person, in Redis       *)
(* (redis_store.py, orchestration/budget.py, auth/spending.py).  Every     *)
(* call reserves the tokens it may use with both and settles them with     *)
(* what it used, or releases them.  A reservation lapses when its lease    *)
(* runs out: it no longer counts, and the next reservation removes it.     *)
(* Each operation is one WATCH/MULTI transaction.                          *)
(***************************************************************************)
EXTENDS CallSet

CONSTANTS
  Amount,  \* the tokens a call reserves
  Limit,   \* max_tokens_per_epoch of the workflow
  Cap      \* the person's cap of the period

ASSUME BudgetAssumption ==
  /\ Amount \in [Calls -> Nat \ {0}]
  /\ Limit \in Nat /\ Cap \in Nat

VARIABLES
  opened,      \* the epoch's record exists
  used,        \* used_tokens of the epoch
  reserved,    \* reserved_tokens of the epoch
  account,     \* the reservation of each call with the workflow
  spent,       \* tokens the calls of the epoch turned out to use (history)
  uncounted,   \* those of calls whose reservation was removed (history)
  personUsed,  \* the person's tokens in the period
  charge,      \* the reservation of each call with the person
  late         \* tokens settled in the period on lapsed charges (history)

workflow == <<opened, used, reserved, account, spent, uncounted>>
person == <<personUsed, charge, late>>
budget == <<workflow, person>>

(* A reservation is held, has lapsed, was removed, and has ended.          *)
Reservations == {"none", "held", "lapsed", "pruned", "ended"}

(* The tokens of the calls in S: the sum of what each reserves.            *)
TokensOf(c) == {c} \X (1..Amount[c])
Tokens(S) == Cardinality(UNION {TokensOf(c) : c \in S})

In(book, states) == {c \in Calls : book[c] \in states}
Pruned(book) == [c \in Calls |-> IF book[c] = "lapsed" THEN "pruned" ELSE book[c]]

BudgetTypeOK ==
  /\ opened \in BOOLEAN
  /\ used \in Nat /\ reserved \in Nat
  /\ account \in [Calls -> Reservations]
  /\ spent \in Nat /\ uncounted \in Nat
  /\ personUsed \in Nat /\ late \in Nat
  /\ charge \in [Calls -> Reservations]

BudgetInit ==
  /\ opened = FALSE
  /\ used = 0 /\ reserved = 0
  /\ account = [c \in Calls |-> "none"]
  /\ spent = 0 /\ uncounted = 0
  /\ personUsed = 0 /\ late = 0
  /\ charge = [c \in Calls |-> "none"]

-----------------------------------------------------------------------------
(* The workflow's epoch                                                    *)

(* By a caller that found no record; another may have made it since.       *)
OpenEpoch ==
  /\ opened' = TRUE
  /\ used' = IF opened THEN used ELSE 0
  /\ reserved' = IF opened THEN reserved ELSE 0
  /\ UNCHANGED <<account, spent, uncounted, person>>

MutantFits(c) == used + Amount[c] <= Limit
Fits(c) == used + Tokens(In(account, {"held"})) + Amount[c] <= Limit

ReserveTokens(c) ==
  /\ opened /\ account[c] = "none" /\ Fits(c)
  /\ account' = [Pruned(account) EXCEPT ![c] = "held"]
  /\ reserved' = Tokens(In(account, {"held"})) + Amount[c]
  /\ UNCHANGED <<opened, used, spent, uncounted, person>>

InBook(c) == account[c] \in {"held", "lapsed"}

Unreserved(c) == IF reserved > Amount[c] THEN reserved - Amount[c] ELSE 0

(* The tokens of a reservation that was removed are counted nowhere.       *)
SettleTokens(c, tokens) ==
  /\ account[c] # "none"
  /\ account' = [account EXCEPT ![c] = "ended"]
  /\ used' = IF InBook(c) THEN used + tokens ELSE used
  /\ reserved' = IF InBook(c) THEN Unreserved(c) ELSE reserved
  /\ spent' = spent + tokens
  /\ uncounted' = IF InBook(c) THEN uncounted ELSE uncounted + tokens
  /\ UNCHANGED <<opened, person>>

ReleaseTokens(c) ==
  /\ account[c] # "none"
  /\ account' = [account EXCEPT ![c] = "ended"]
  /\ reserved' = IF InBook(c) THEN Unreserved(c) ELSE reserved
  /\ UNCHANGED <<opened, used, spent, uncounted, person>>

LapseTokens(c) ==
  /\ account[c] = "held"
  /\ account' = [account EXCEPT ![c] = "lapsed"]
  /\ UNCHANGED <<opened, used, reserved, spent, uncounted, person>>

-----------------------------------------------------------------------------
(* The person                                                              *)

PersonFits(c) == personUsed + Tokens(In(charge, {"held"})) + Amount[c] <= Cap

PersonReserve(c) ==
  /\ charge[c] = "none" /\ PersonFits(c)
  /\ charge' = [Pruned(charge) EXCEPT ![c] = "held"]
  /\ UNCHANGED <<personUsed, late, workflow>>

(* What the call used is counted whatever became of its reservation.       *)
PersonSettle(c, tokens) ==
  /\ charge[c] # "none"
  /\ charge' = [charge EXCEPT ![c] = "ended"]
  /\ personUsed' = personUsed + tokens
  /\ late' = IF charge[c] = "held" THEN late ELSE late + tokens
  /\ UNCHANGED workflow

PersonRelease(c) ==
  /\ charge[c] # "none"
  /\ charge' = [charge EXCEPT ![c] = "ended"]
  /\ UNCHANGED <<personUsed, late, workflow>>

PersonLapse(c) ==
  /\ charge[c] = "held"
  /\ charge' = [charge EXCEPT ![c] = "lapsed"]
  /\ UNCHANGED <<personUsed, late, workflow>>

(* A new day: a record of its own; reservations are not of a period.       *)
NewPeriod ==
  /\ personUsed' = 0 /\ late' = 0
  /\ UNCHANGED <<charge, workflow>>

BudgetNext ==
  \/ OpenEpoch \/ NewPeriod
  \/ \E c \in Calls :
       \/ ReserveTokens(c) \/ ReleaseTokens(c) \/ LapseTokens(c)
       \/ PersonReserve(c) \/ PersonRelease(c) \/ PersonLapse(c)
       \/ \E tokens \in 0..Amount[c] : SettleTokens(c, tokens) \/ PersonSettle(c, tokens)

BudgetSpec == BudgetInit /\ [][BudgetNext]_budget

-----------------------------------------------------------------------------
(* Properties                                                              *)

(* The calls of an epoch never use more than its limit, with what those in *)
(* its book may yet use: not when they reserve at once, open the epoch     *)
(* twice, or settle after their lease ran out.  Only a call whose          *)
(* reservation was removed while it ran comes on top.                      *)
BudgetHolds ==
  spent + Tokens(In(account, {"held", "lapsed"})) <= Limit + uncounted

(* The counter that headroom is read from agrees with the reservations,    *)
(* also after some lapsed and were removed or were settled all the same.   *)
ReservedIsHeld == reserved = Tokens(In(account, {"held", "lapsed"}))

(* A person's cap is overshot by no more than calls used whose charge had  *)
(* lapsed when they ended.                                                 *)
PersonCapHolds == personUsed + Tokens(In(charge, {"held"})) <= Cap + late

(* The workflow's and the person's account agree with what their calls     *)
(* reserved and used, however the calls race, lapse and are pruned.        *)
AccountsHold == BudgetHolds /\ ReservedIsHeld /\ PersonCapHolds
=============================================================================
